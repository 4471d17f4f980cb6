----------------------------- MODULE SurplusOffers -----------------------------
(***************************************************************************)
(* The surplus scan of one restaurant and the recommendations it makes.    *)
(*                                                                         *)
(* A scan (a manager's, or the assistant's) compares what is left of the   *)
(* day with the forecast, writes one waste report per ingredient and day,  *)
(* and turns the items the forecasting service finds at risk into          *)
(* recommendations, reusing those still open.  Managers edit, dismiss and  *)
(* approve them; an approval creates an offer.  Each handler reads, checks *)
(* and then writes by _id.                                                 *)
(***************************************************************************)
EXTENDS Integers, FiniteSets

CONSTANTS
    Plates,         \* products of the restaurant
    Suggestions,    \* bound: recommendation ids are 1..Suggestions
    Percents,       \* discounts suggested or chosen
    MaxReports,     \* bound of the waste reports of one product's ingredient
    Scanners,       \* running scans
    Deciders        \* managers

SurplusStaff == Scanners \cup Deciders

ASSUME SurplusAssumption == Suggestions \in Nat /\ MaxReports \in Nat

VARIABLES
    confirmed,      \* products with a demand and with what was made of them today
    suggestion,     \* suggestion[r]: the recommendation
    discount,       \* discount[r]: the offers recommendation r was approved to
    wasteReports,   \* wasteReports[p]: reports of today on p's ingredient
    surplusPc, surplusLoc

surplusVars == <<confirmed, suggestion, discount, wasteReports, surplusPc, surplusLoc>>

-------------------------------------------------------------------------------
NoSuggestion == [status |-> "none", product |-> {}, value |-> 0]

reusableRecommendationStatuses == {"pending", "edited"}

Closed == {"approved", "dismissed"}

(* stock as read, products at risk still to write, the recommendation at   *)
(* hand, the value to write                                                *)
SurplusNothing == [stock |-> {}, todo |-> {}, product |-> {}, id |-> 0, value |-> 0]

InitSurplus ==
    /\ confirmed = {}
    /\ suggestion = [r \in 1..Suggestions |-> NoSuggestion]
    /\ discount = [r \in 1..Suggestions |-> [made |-> 0, live |-> 0]]
    /\ wasteReports = [p \in Plates |-> 0]
    /\ surplusPc = [w \in SurplusStaff |-> "idle"]
    /\ surplusLoc = [w \in SurplusStaff |-> SurplusNothing]

SurplusGo(w, label, held) == /\ surplusPc' = [surplusPc EXCEPT ![w] = label]
                             /\ surplusLoc' = [surplusLoc EXCEPT ![w] = held]

SurplusDone(w) == SurplusGo(w, "idle", SurplusNothing)

-------------------------------------------------------------------------------
(* scanSurplusForRestaurant, its reads: the products with a stock to ask   *)
(* about; those whose ingredients pile up need a waste report.             *)
ReadStock(w) ==
    /\ w \in Scanners /\ surplusPc[w] = "idle"
    /\ \E waste \in SUBSET Plates :
          SurplusGo(w, "report", [SurplusNothing EXCEPT
              !.stock = confirmed, !.todo = waste])
    /\ UNCHANGED <<confirmed, suggestion, discount, wasteReports>>

(* The report of the day is looked up, ... *)
FindReport(w) ==
    /\ surplusPc[w] = "report"
    /\ \E p \in surplusLoc[w].todo :
          SurplusGo(w, IF wasteReports[p] > 0 THEN "report" ELSE "newReport",
                    [surplusLoc[w] EXCEPT !.todo = @ \ {p}, !.product = {p}])
    /\ UNCHANGED <<confirmed, suggestion, discount, wasteReports>>

(* ... and created where there was none: nothing makes it unique. *)
CreateReport(w) ==
    LET p == CHOOSE q \in Plates : surplusLoc[w].product = {q}
    IN  /\ surplusPc[w] = "newReport" /\ wasteReports[p] < MaxReports
        /\ wasteReports' = [wasteReports EXCEPT ![p] = @ + 1]
        /\ SurplusGo(w, "report", surplusLoc[w])
        /\ UNCHANGED <<confirmed, suggestion, discount>>

(* The service names items at risk, of those it was asked about, or fails; *)
(* the reports stay.                                                       *)
AskSurplus(w) ==
    /\ surplusPc[w] = "report" /\ surplusLoc[w].todo = {}
    /\ \/ \E risk \in SUBSET surplusLoc[w].stock :
             SurplusGo(w, "find", [SurplusNothing EXCEPT !.todo = risk])
       \/ SurplusDone(w)
    /\ UNCHANGED <<confirmed, suggestion, discount, wasteReports>>

(* For each item: an open recommendation of the product is looked up, ... *)
FindOpen(w) ==
    /\ surplusPc[w] = "find"
    /\ \E p \in surplusLoc[w].todo, value \in Percents :
          LET open == {r \in 1..Suggestions : /\ suggestion[r].product = {p}
                                              /\ suggestion[r].status \in reusableRecommendationStatuses}
          IN  \E r \in IF open = {} THEN {0} ELSE open :
                 SurplusGo(w, "suggest", [surplusLoc[w] EXCEPT
                     !.todo = @ \ {p}, !.product = {p}, !.id = r, !.value = value])
    /\ UNCHANGED <<confirmed, suggestion, discount, wasteReports>>

(* Mutant: a refreshed recommendation is pending again. *)
SuggestAfresh(w) ==
    LET l == surplusLoc[w]
    IN  /\ surplusPc[w] = "suggest"
        /\ \E r \in 1..Suggestions :
              /\ IF l.id # 0 THEN r = l.id ELSE suggestion[r] = NoSuggestion
              /\ suggestion' = [suggestion EXCEPT ![r] =
                                  [status |-> "pending", product |-> l.product, value |-> l.value]]
        /\ SurplusGo(w, "find", [l EXCEPT !.id = 0])
        /\ UNCHANGED <<confirmed, discount, wasteReports>>

(* ... and gets the new value by _id, whatever became of it; without one a *)
(* new recommendation is pending.                                          *)
Suggest(w) ==
    LET l == surplusLoc[w]
    IN  /\ surplusPc[w] = "suggest"
        /\ IF l.id # 0
           THEN suggestion' = [suggestion EXCEPT ![l.id].value = l.value]
           ELSE \E r \in 1..Suggestions :
                  /\ suggestion[r] = NoSuggestion
                  /\ suggestion' = [suggestion EXCEPT ![r] =
                                      [status |-> "pending", product |-> l.product, value |-> l.value]]
        /\ SurplusGo(w, "find", [l EXCEPT !.id = 0])
        /\ UNCHANGED <<confirmed, discount, wasteReports>>

ScanEnds(w) ==
    /\ surplusPc[w] = "find" /\ surplusLoc[w].todo = {}
    /\ SurplusDone(w)
    /\ UNCHANGED <<confirmed, suggestion, discount, wasteReports>>

-------------------------------------------------------------------------------
(* editRecommendation *)
ReadEdit(w) ==
    /\ w \in Deciders /\ surplusPc[w] = "idle"
    /\ \E r \in 1..Suggestions, value \in Percents :
          /\ suggestion[r] # NoSuggestion /\ suggestion[r].status \notin Closed
          /\ SurplusGo(w, "edit", [SurplusNothing EXCEPT !.id = r, !.value = value])
    /\ UNCHANGED <<confirmed, suggestion, discount, wasteReports>>

EditSuggestion(w) ==
    /\ surplusPc[w] = "edit"
    /\ suggestion' = [suggestion EXCEPT ![surplusLoc[w].id].status = "edited",
                                        ![surplusLoc[w].id].value = surplusLoc[w].value]
    /\ SurplusDone(w)
    /\ UNCHANGED <<confirmed, discount, wasteReports>>

(* dismissRecommendation: of any status. *)
DismissSuggestion(w) ==
    /\ w \in Deciders /\ surplusPc[w] = "idle"
    /\ \E r \in 1..Suggestions :
          /\ suggestion[r] # NoSuggestion
          /\ suggestion' = [suggestion EXCEPT ![r].status = "dismissed"]
    /\ UNCHANGED <<confirmed, discount, wasteReports, surplusPc, surplusLoc>>

LiveOn(p) == \E r \in 1..Suggestions : suggestion[r].product = p /\ discount[r].live > 0

(* approveRecommendation: status and offers of the product are checked, ...*)
ReadSuggestion(w) ==
    /\ w \in Deciders /\ surplusPc[w] = "idle"
    /\ \E r \in 1..Suggestions :
          /\ suggestion[r] # NoSuggestion /\ suggestion[r].status \notin Closed
          /\ ~LiveOn(suggestion[r].product)
          /\ SurplusGo(w, "createOffer", [SurplusNothing EXCEPT !.id = r])
    /\ UNCHANGED <<confirmed, suggestion, discount, wasteReports>>

(* ... the offer is created, ... *)
CreateDiscount(w) ==
    /\ surplusPc[w] = "createOffer"
    /\ discount[surplusLoc[w].id].made < 2
    /\ discount' = [discount EXCEPT ![surplusLoc[w].id].made = @ + 1,
                                    ![surplusLoc[w].id].live = @ + 1]
    /\ SurplusGo(w, "approve", surplusLoc[w])
    /\ UNCHANGED <<confirmed, suggestion, wasteReports>>

(* ... and the recommendation is closed. *)
MarkApproved(w) ==
    /\ surplusPc[w] = "approve"
    /\ suggestion' = [suggestion EXCEPT ![surplusLoc[w].id].status = "approved"]
    /\ SurplusDone(w)
    /\ UNCHANGED <<confirmed, discount, wasteReports>>

-------------------------------------------------------------------------------
(* External: the kitchen confirms its production, an offer ends. *)
ConfirmProduction ==
    /\ \E p \in Plates \ confirmed : confirmed' = confirmed \cup {p}
    /\ UNCHANGED <<suggestion, discount, wasteReports, surplusPc, surplusLoc>>

DiscountEnds ==
    /\ \E r \in 1..Suggestions : discount[r].live > 0 /\ discount' = [discount EXCEPT ![r].live = @ - 1]
    /\ UNCHANGED <<confirmed, suggestion, wasteReports, surplusPc, surplusLoc>>

ScannerStep(w) == ReadStock(w) \/ FindReport(w) \/ CreateReport(w) \/ AskSurplus(w)
                  \/ FindOpen(w) \/ Suggest(w) \/ ScanEnds(w)

DeciderStep(w) == ReadEdit(w) \/ EditSuggestion(w) \/ DismissSuggestion(w) \/ ReadSuggestion(w)
                  \/ CreateDiscount(w) \/ MarkApproved(w)

NextSurplus == \/ \E w \in SurplusStaff : ScannerStep(w) \/ DeciderStep(w)
               \/ ConfirmProduction \/ DiscountEnds

SpecSurplus == InitSurplus /\ [][NextSurplus]_surplusVars

-------------------------------------------------------------------------------
(* With one manager, a recommendation becomes one offer: neither a scan    *)
(* that still holds it, nor an edit, nor the end of the first offer lets   *)
(* it be approved again ('Recommendation has already been approved').      *)
OneOfferEach == \A r \in 1..Suggestions : discount[r].made <= 1
===============================================================================
