------------------------------ MODULE MCPlatform ------------------------------
(***************************************************************************)
(* The platform's records on small instances: the catalogue, imports and   *)
(* accounts.  The modules share no state (an import checks its rows        *)
(* against a menu of its own), so one behaviour works in one area; each    *)
(* area says who is at work in it.                                         *)
(***************************************************************************)
EXTENDS Catalogue, Imports, Accounts

VARIABLE area

platformVars == <<catalogueVars, importVars, accountVars, area>>

OneTypeEach == [j \in Jobs |-> CASE j = "x1" -> "menu_items"
                                 [] j = "x2" -> "ingredients"
                                 [] j = "x3" -> "recipes"
                                 [] j = "x4" -> "inventory_transactions"
                                 [] j = "x5" -> "sales_history"]

FileRow(p, i, d, ok) == [product |-> p, ingredient |-> i, date |-> d, parses |-> ok]

SmallFiles == [j \in Jobs |->
    CASE j = "x1" -> {FileRow("t1", "-", "-", TRUE), FileRow("t2", "-", "-", TRUE)}
      [] j = "x2" -> {FileRow("-", "i1", "-", TRUE), FileRow("-", "i2", "-", FALSE)}
      [] j = "x3" -> {FileRow("t1", "i1", "-", TRUE)}
      [] j = "x4" -> {FileRow("-", "i1", "-", TRUE)}
      [] j = "x5" -> {FileRow("t1", "-", "d1", TRUE), FileRow("t2", "-", "d1", TRUE)}]

Areas == {"creating", "owners", "references", "moves", "files", "sales", "sessions", "addresses"}

InitPlatform == area \in Areas /\ InitCatalogue /\ InitImports /\ InitAccounts

-------------------------------------------------------------------------------
(* Without loss of generality: products and restaurants in order. *)
IdsInOrder == /\ product["p2"] # NoProduct => product["p1"] # NoProduct
              /\ product["p3"] # NoProduct => product["p2"] # NoProduct
              /\ branch["r2"] # NoBranch => branch["r1"] # NoBranch

(* Bound: one restaurant, of the first owner. *)
OneBranch == /\ branch["r2"] = NoBranch
             /\ branch["r1"].sign # "n2" /\ branch["r1"].owner # "u2"
             /\ person["u2"].at = Nobody

(* Bound: the first restaurant and its ingredient are of the first owner,  *)
(* the second of the other; one product, one category.                     *)
OwnBranches == /\ \A r \in Live(branch) : branch[r].sign = IF r = "r1" THEN "n1" ELSE "n2"
               /\ person["u1"].at \in {"r1", Nobody} /\ person["u2"].at \in {"r2", Nobody}
               /\ stuff["i1"].of \in {"r1", Nobody} /\ stuff["i2"].of \in {"r2", Nobody}
               /\ product["p2"] = NoProduct /\ product["p1"].title \in {"t1", Nobody}

(* Bound: products stay on sale; no reference depends on it. *)
AllOnSale == \A p \in Live(product) : product[p].available

(* Bound: a cap rises once. *)
CapStep == \E r \in Branches : branch[r].cap = 0 /\ ChangeCap(r)

(* Two clerks create at once, by form and by file, while the cap changes;  *)
(* owners, names, slugs and moves one request at a time; what refers to    *)
(* what one request at a time, in one restaurant and over two.             *)
InCatalogue ==
    /\ \/ /\ area = "creating"
          /\ \/ \E w \in Clerks : \/ ReadForProduct(w) \/ InsertProduct(w) \/ DeleteProduct(w)
                                   \/ DeleteRecipe(w) \/ ReadMenuRow(w) \/ ImportProduct(w)
             \/ \E w \in Chiefs : ReadNewOwner(w) \/ OpenBranch(w) \/ AssignOwner(w)
             \/ \E r \in Branches : ChangeCap(r)
          /\ OneBranch' /\ product'["p1"].title \in {"t1", Nobody} /\ product'["p2"].title # "t3"
       \/ /\ area = "owners"
          /\ \/ /\ OneAtATime("c1")
                /\ ReadForProduct("c1") \/ InsertProduct("c1") \/ DeleteProduct("c1") \/ DeleteRecipe("c1")
             \/ OneAtATime("h1") /\ (ChiefStep("h1") \/ ReadProduct("h1") \/ UpdateProduct("h1"))
             \/ CapStep
          /\ product'["p3"] = NoProduct /\ section' = section
          /\ \A p \in ProductIds : product'[p].title \in {"t1", Nobody}
       \/ /\ area = "references"
          /\ \/ OneAtATime("c1") /\ ClerkStep("c1")
             \/ OneAtATime("h1") /\ ChiefStep("h1")
             \/ CapStep
          /\ OneBranch' /\ product'["p3"] = NoProduct /\ catalogueLoc'["h1"].id # "n2"
          /\ product'["p1"].title \in {"t1", Nobody} /\ product'["p2"].title \in {"t2", Nobody}
          /\ AllOnSale'
       \/ /\ area = "moves"
          /\ \/ OneAtATime("c1") /\ ClerkStep("c1")
             \/ OneAtATime("h1") /\ (ChiefStep("h1") \/ ReadProduct("h1") \/ UpdateProduct("h1"))
             \/ CapStep
          /\ OwnBranches' /\ section' = section
    /\ IdsInOrder' /\ (area # "moves" => stuff'["i2"].phase = "none")
    /\ UNCHANGED <<importVars, accountVars, area>>

(* The files a restaurant begins with; its menu and its sales. *)
InImports ==
    /\ area \in {"files", "sales"}
    /\ NextImports
    /\ \A j \in Jobs : job'[j] # "none" =>
          j \in IF area = "files" THEN {"x1", "x2", "x3", "x4"} ELSE {"x1", "x5"}
    /\ UNCHANGED <<catalogueVars, accountVars, area>>

(* Codes and sessions one request at a time, address books two at once. *)
InAccounts ==
    /\ \/ area = "sessions" /\ (CodeStep("v1") \/ SessionStep("v1") \/ NextSecond)
       \/ /\ area = "addresses"
          /\ \E v \in Visitors : \/ ReadSignup(v) \/ CreateAccount(v) \/ DropCodes(v) \/ CreateCode(v)
                                 \/ AddressStep(v)
    /\ UNCHANGED <<catalogueVars, importVars, area>>

NextPlatform == InCatalogue \/ InImports \/ InAccounts

SpecPlatform == InitPlatform /\ [][NextPlatform]_platformVars
===============================================================================
