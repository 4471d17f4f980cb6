-------------------------------- MODULE Imports --------------------------------
(***************************************************************************)
(* CSV imports of one restaurant.                                          *)
(*                                                                         *)
(* An upload leaves a job; confirming it validates the rows against the    *)
(* menu and the ingredients on file, writes the valid ones one by one and  *)
(* then the status of the job.  Sales are inserted together and sent to    *)
(* the forecasting service in chunks; a failed chunk ends the sending, and *)
(* the rows written can be sent again.  Nothing is rolled back, and        *)
(* statuses are written by _id.                                            *)
(***************************************************************************)
EXTENDS Integers, FiniteSets

CONSTANTS
    Jobs,
    ImportType,     \* ImportType[j]: menu_items, ingredients, recipes, ...
    FileRows,       \* FileRows[j]: its rows, [product, ingredient, date, parses]
    Missing,        \* an empty cell
    INGEST_CHUNK_SIZE,
    MaxConfirms,    \* bound of the times a row is written
    Importers

ImportTypes == {"menu_items", "ingredients", "recipes", "inventory_transactions", "sales_history"}

ASSUME ImportsAssumption ==
    /\ ImportType \in [Jobs -> ImportTypes]
    /\ INGEST_CHUNK_SIZE \in Nat \ {0} /\ MaxConfirms \in Nat
    /\ \A j \in Jobs : IsFiniteSet(FileRows[j])

VARIABLES
    job,            \* job[j]: its status
    onMenu,         \* titles of the live products
    left,           \* titles whose product was deleted or renamed
    onFile,         \* codes of the live ingredients
    recipeOf,       \* recipeOf[t]: ingredients of the recipe of t
    written,        \* written[j][r]: how often a batch or a sale was written for r
    booked,         \* booked[j][r]: ledger rows of those batches
    accepted,       \* <<date, product>> of the sales the service holds
    importPc, importLoc

importVars == <<job, onMenu, left, onFile, recipeOf, written, booked, accepted, importPc, importLoc>>

-------------------------------------------------------------------------------
AllTitles == {r.product : r \in UNION {FileRows[j] : j \in Jobs}} \ {Missing}

ImportNothing == [jobs |-> {}, todo |-> {}]

NoCount == [j \in Jobs |-> [r \in FileRows[j] |-> 0]]

InitImports ==
    /\ job = [j \in Jobs |-> "none"]
    /\ onMenu = {} /\ left = {} /\ onFile = {}
    /\ recipeOf = [t \in AllTitles |-> {}]
    /\ written = NoCount /\ booked = NoCount
    /\ accepted = {}
    /\ importPc = [w \in Importers |-> "idle"]
    /\ importLoc = [w \in Importers |-> ImportNothing]

ImportGo(w, label, held) == /\ importPc' = [importPc EXCEPT ![w] = label]
                            /\ importLoc' = [importLoc EXCEPT ![w] = held]

ImportDone(w) == ImportGo(w, "idle", ImportNothing)

JobOf(w) == CHOOSE j \in Jobs : importLoc[w].jobs = {j}

(* mapAndValidateRows, by type: what must parse and what must be on file. *)
MenuRow(r)       == r.parses /\ r.product # Missing
IngredientRow(r) == r.parses /\ r.ingredient # Missing
RecipeRow(r)     == r.parses /\ r.product \in onMenu /\ r.ingredient \in onFile
InventoryRow(r)  == r.parses /\ r.ingredient \in onFile
SalesRow(r)      == r.parses /\ r.date # Missing /\ r.product \in onMenu

ValidRows(j) == {r \in FileRows[j] :
    CASE ImportType[j] = "menu_items"             -> MenuRow(r)
      [] ImportType[j] = "ingredients"            -> IngredientRow(r)
      [] ImportType[j] = "recipes"                -> RecipeRow(r)
      [] ImportType[j] = "inventory_transactions" -> InventoryRow(r)
      [] ImportType[j] = "sales_history"          -> SalesRow(r)}

(* The guards on what must be imported first. *)
OnboardedFor(j) ==
    /\ ImportType[j] \in {"recipes", "sales_history"} => onMenu # {}
    /\ ImportType[j] \in {"recipes", "inventory_transactions"} => onFile # {}

-------------------------------------------------------------------------------
CreateImport(w) ==
    /\ importPc[w] = "idle"
    /\ \E j \in Jobs : job[j] = "none" /\ job' = [job EXCEPT ![j] = "processing"]
    /\ UNCHANGED <<onMenu, left, onFile, recipeOf, written, booked, accepted, importPc, importLoc>>

(* confirmImport: any job but a completed one. *)
ConfirmImport(w) ==
    /\ importPc[w] = "idle"
    /\ \E j \in Jobs :
          /\ job[j] \notin {"none", "completed"}
          /\ \A r \in FileRows[j] : written[j][r] < MaxConfirms
          /\ IF ~OnboardedFor(j) \/ ValidRows(j) = {}
             THEN ImportGo(w, "failed", [jobs |-> {j}, todo |-> {}])
             ELSE ImportGo(w, IF ImportType[j] = "sales_history" THEN "insert" ELSE "rows",
                           [jobs |-> {j}, todo |-> ValidRows(j)])
    /\ UNCHANGED <<job, onMenu, left, onFile, recipeOf, written, booked, accepted>>

(* menu_items: a product of the row's title is updated or created (with a  *)
(* category of that name where there is none: those are in Catalogue).     *)
(* The unique index counts deleted products: it refuses their titles, and  *)
(* the error ends the confirmation; a renamed one leaves its title free.   *)
UpsertMenuItem(w) ==
    /\ importPc[w] = "rows" /\ ImportType[JobOf(w)] = "menu_items"
    /\ \E r \in importLoc[w].todo :
          \/ /\ onMenu' = onMenu \cup {r.product}
             /\ ImportGo(w, "rows", [importLoc[w] EXCEPT !.todo = @ \ {r}])
          \/ /\ r.product \in left \ onMenu /\ UNCHANGED onMenu
             /\ ImportGo(w, "failed", importLoc[w])
    /\ UNCHANGED <<job, left, onFile, recipeOf, written, booked, accepted>>

(* ingredients: by code. *)
UpsertIngredient(w) ==
    /\ importPc[w] = "rows" /\ ImportType[JobOf(w)] = "ingredients"
    /\ \E r \in importLoc[w].todo :
          /\ onFile' = onFile \cup {r.ingredient}
          /\ ImportGo(w, "rows", [importLoc[w] EXCEPT !.todo = @ \ {r}])
    /\ UNCHANGED <<job, onMenu, left, recipeOf, written, booked, accepted>>

(* recipes: one is replaced by the rows that name its product. *)
ReplaceRecipe(w) ==
    /\ importPc[w] = "rows" /\ ImportType[JobOf(w)] = "recipes"
    /\ \E r \in importLoc[w].todo :
          LET group == {s \in importLoc[w].todo : s.product = r.product}
          IN  /\ recipeOf' = [recipeOf EXCEPT ![r.product] = {s.ingredient : s \in group}]
              /\ ImportGo(w, "rows", [importLoc[w] EXCEPT !.todo = @ \ group])
    /\ UNCHANGED <<job, onMenu, left, onFile, written, booked, accepted>>

(* An inventory row is a new batch, then its row in the ledger. *)
CreateImportedBatch(w) ==
    LET j == JobOf(w)
    IN  /\ importPc[w] = "rows" /\ ImportType[j] = "inventory_transactions"
        /\ \E r \in importLoc[w].todo :
              /\ written' = [written EXCEPT ![j][r] = @ + 1]
              /\ ImportGo(w, "book", importLoc[w])
        /\ UNCHANGED <<job, onMenu, left, onFile, recipeOf, booked, accepted>>

BookImportedBatch(w) ==
    LET j == JobOf(w)
    IN  /\ importPc[w] = "book"
        /\ \E r \in importLoc[w].todo :
              /\ booked[j][r] < written[j][r]
              /\ booked' = [booked EXCEPT ![j][r] = @ + 1]
              /\ ImportGo(w, "rows", [importLoc[w] EXCEPT !.todo = @ \ {r}])
        /\ UNCHANGED <<job, onMenu, left, onFile, recipeOf, written, accepted>>

RowsDone(w) ==
    /\ importPc[w] = "rows" /\ importLoc[w].todo = {}
    /\ ImportGo(w, "completed", importLoc[w])
    /\ UNCHANGED <<job, onMenu, left, onFile, recipeOf, written, booked, accepted>>

Inserted(j, S) == [written EXCEPT ![j] = [r \in FileRows[j] |-> @[r] + IF r \in S THEN 1 ELSE 0]]

(* createMany *)
InsertSales(w) ==
    /\ importPc[w] = "insert"
    /\ written' = Inserted(JobOf(w), importLoc[w].todo)
    /\ ImportGo(w, "ingest", importLoc[w])
    /\ UNCHANGED <<job, onMenu, left, onFile, recipeOf, booked, accepted>>

(* retryAiIngest: the rows written for the job, whatever its status. *)
RetryAiIngest(w) ==
    /\ importPc[w] = "idle"
    /\ \E j \in Jobs :
          LET rows == {r \in FileRows[j] : written[j][r] > 0}
          IN  /\ ImportType[j] = "sales_history" /\ rows # {}
              /\ ImportGo(w, "resend", [jobs |-> {j}, todo |-> rows])
    /\ UNCHANGED <<job, onMenu, left, onFile, recipeOf, written, booked, accepted>>

Sending == {"ingest", "resend"}

(* Mutant: a refused chunk is skipped. *)
IngestPastFailures(w) ==
    LET l == importLoc[w]
    IN  /\ importPc[w] \in Sending
        /\ IF l.todo = {}
           THEN ImportGo(w, "completed", l) /\ UNCHANGED accepted
           ELSE \E chunk \in SUBSET l.todo :
                  /\ Cardinality(chunk) \in 1..INGEST_CHUNK_SIZE
                  /\ ImportGo(w, importPc[w], [l EXCEPT !.todo = @ \ chunk])
                  /\ accepted' \in {accepted, accepted \cup {<<r.date, r.product>> : r \in chunk}}
        /\ UNCHANGED <<job, onMenu, left, onFile, recipeOf, written, booked>>

(* ingest: chunk after chunk; the first the service does not take ends it. *)
Ingest(w) ==
    LET l == importLoc[w]
    IN  /\ importPc[w] \in Sending
        /\ IF l.todo = {}
           THEN ImportGo(w, "completed", l) /\ UNCHANGED accepted
           ELSE \E chunk \in SUBSET l.todo :
                  /\ Cardinality(chunk) \in 1..INGEST_CHUNK_SIZE
                  /\ \/ /\ accepted' = accepted \cup {<<r.date, r.product>> : r \in chunk}
                        /\ ImportGo(w, importPc[w], [l EXCEPT !.todo = @ \ chunk])
                     \/ ImportGo(w, "ai_ingest_failed", l) /\ UNCHANGED accepted
        /\ UNCHANGED <<job, onMenu, left, onFile, recipeOf, written, booked>>

(* The status, written by _id. *)
WriteStatus(w) ==
    /\ importPc[w] \in {"completed", "failed", "ai_ingest_failed"}
    /\ job' = [job EXCEPT ![JobOf(w)] = importPc[w]]
    /\ ImportDone(w)
    /\ UNCHANGED <<onMenu, left, onFile, recipeOf, written, booked, accepted>>

(* An error in the middle of a confirmation fails the job; what was        *)
(* written stays, and sales may have been inserted in part.                *)
ConfirmationBreaks(w) ==
    /\ importPc[w] \in {"rows", "book", "insert", "ingest"}
    /\ \E S \in SUBSET importLoc[w].todo :
          /\ importPc[w] # "insert" => S = {}
          /\ written' = Inserted(JobOf(w), S)
    /\ ImportGo(w, "failed", importLoc[w])
    /\ UNCHANGED <<job, onMenu, left, onFile, recipeOf, booked, accepted>>

(* The process stops: the status stays what it was. *)
ImporterDies(w) ==
    /\ importPc[w] # "idle"
    /\ ImportDone(w)
    /\ UNCHANGED <<job, onMenu, left, onFile, recipeOf, written, booked, accepted>>

(* External: managers delete and rename products, and delete ingredients. *)
TitleLeaves ==
    /\ \E t \in onMenu : /\ onMenu' = onMenu \ {t} /\ left' = left \cup {t}
                         /\ recipeOf' = [recipeOf EXCEPT ![t] = {}]
    /\ UNCHANGED <<job, onFile, written, booked, accepted, importPc, importLoc>>

CodeLeaves ==
    /\ \E i \in onFile : onFile' = onFile \ {i}
    /\ UNCHANGED <<job, onMenu, left, recipeOf, written, booked, accepted, importPc, importLoc>>

ImporterStep(w) ==
    \/ CreateImport(w) \/ ConfirmImport(w)
    \/ UpsertMenuItem(w) \/ UpsertIngredient(w) \/ ReplaceRecipe(w)
    \/ CreateImportedBatch(w) \/ BookImportedBatch(w) \/ RowsDone(w) \/ InsertSales(w) \/ RetryAiIngest(w)
    \/ Ingest(w) \/ WriteStatus(w) \/ ConfirmationBreaks(w) \/ ImporterDies(w)

NextImports == (\E w \in Importers : ImporterStep(w)) \/ TitleLeaves \/ CodeLeaves

SpecImports == InitImports /\ [][NextImports]_importVars

-------------------------------------------------------------------------------
(* Whatever failed before (chunks refused, sales inserted in part, a       *)
(* process that stopped, confirmations and retries repeated), a job that   *)
(* says COMPLETED has no sale the forecasting service does not hold, as    *)
(* long as the product of the sale never left the menu: a confirmation     *)
(* sends only the rows it finds valid itself.                              *)
CompletedIsLearned ==
    \A j \in Jobs : job[j] = "completed" /\ ImportType[j] = "sales_history" =>
        \A r \in FileRows[j] :
            written[j][r] > 0 /\ r.product \notin left => <<r.date, r.product>> \in accepted

(* 'A manager can see, and act on, the difference between "your data is    *)
(* safely stored" and "the AI hasn't learned from it yet"'                 *)
(* (planForPhase4,5,6,7,8.md:64): violated, a second confirmation skips    *)
(* the sales of a product deleted since the first and completes the job.   *)
CompletedHoldsNothingBack ==
    \A j \in Jobs : job[j] = "completed" /\ ImportType[j] = "sales_history" =>
        \A r \in FileRows[j] : written[j][r] > 0 => <<r.date, r.product>> \in accepted
===============================================================================
