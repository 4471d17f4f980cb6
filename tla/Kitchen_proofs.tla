----------------------------- MODULE Kitchen_proofs -----------------------------
(***************************************************************************)
(* The daily work of a restaurant, for any number of products, days,       *)
(* batches and handlers: a recommendation becomes one offer, an ordered    *)
(* item comes in once, what leaves the shelves is on the ledger, a batch   *)
(* of forecasts that calls itself healthy is, and what a plan and the      *)
(* forecasting service say was made was reported.                          *)
(***************************************************************************)
EXTENDS SupplyChain, WeeklyPrediction, SurplusOffers, ProductionPlanning, SumTheorems

-------------------------------------------------------------------------------
(* Surplus.                                                                *)
SuggestionDoc == [status : {"none", "pending", "edited", "approved", "dismissed"},
                  product : SUBSET Plates, value : Percents \cup {0}]

SurplusHeld == [stock : SUBSET Plates, todo : SUBSET Plates, product : SUBSET Plates,
                id : 0..Suggestions, value : Percents \cup {0}]

Deciding == {"edit", "createOffer", "approve"}

SurplusLabels == {"idle", "report", "newReport", "find", "suggest"} \cup Deciding

SurplusTypeOK ==
    /\ confirmed \subseteq Plates
    /\ suggestion \in [1..Suggestions -> SuggestionDoc]
    /\ discount \in [1..Suggestions -> [made : Nat, live : Int]]
    /\ surplusPc \in [SurplusStaff -> SurplusLabels]
    /\ surplusLoc \in [SurplusStaff -> SurplusHeld]
    /\ \A w \in SurplusStaff : surplusPc[w] \in Deciding =>
          w \in Deciders /\ surplusLoc[w].id \in 1..Suggestions

(* A handler that holds a recommendation has seen it. *)
Exists(r) == suggestion[r].status # "none"

SuggestionsOK ==
    /\ \A r \in 1..Suggestions : ~Exists(r) => suggestion[r] = NoSuggestion
    /\ \A w \in SurplusStaff :
          \/ surplusPc[w] \in Deciding
          \/ surplusPc[w] = "suggest" /\ surplusLoc[w].id # 0
          => Exists(surplusLoc[w].id)

LEMMA SurplusWalk ==
    ASSUME SurplusTypeOK, NEW w \in SurplusStaff, NEW label \in SurplusLabels,
           NEW held \in SurplusHeld, SurplusGo(w, label, held),
           label \in Deciding => w \in Deciders /\ held.id \in 1..Suggestions
    PROVE  /\ surplusPc' \in [SurplusStaff -> SurplusLabels]
           /\ surplusLoc' \in [SurplusStaff -> SurplusHeld]
           /\ surplusPc'[w] = label /\ surplusLoc'[w] = held
           /\ \A v \in SurplusStaff : v # w => surplusPc'[v] = surplusPc[v]
                                               /\ surplusLoc'[v] = surplusLoc[v]
           /\ \A v \in SurplusStaff : surplusPc'[v] \in Deciding =>
                 v \in Deciders /\ surplusLoc'[v].id \in 1..Suggestions
BY DEF SurplusTypeOK, SurplusGo

LEMMA FreshHeld ==
    /\ SurplusNothing \in SurplusHeld
    /\ \A x, y \in SUBSET Plates :
          [SurplusNothing EXCEPT !.stock = x, !.todo = y] \in SurplusHeld
    /\ \A x \in SUBSET Plates : [SurplusNothing EXCEPT !.todo = x] \in SurplusHeld
    /\ \A r \in 1..Suggestions :
          /\ [SurplusNothing EXCEPT !.id = r] \in SurplusHeld
          /\ [SurplusNothing EXCEPT !.id = r].id = r
    /\ \A r \in 1..Suggestions, v \in Percents :
          /\ [SurplusNothing EXCEPT !.id = r, !.value = v] \in SurplusHeld
          /\ [SurplusNothing EXCEPT !.id = r, !.value = v].id = r
<1>1. SurplusNothing \in SurplusHeld BY SurplusAssumption DEF SurplusHeld, SurplusNothing
<1>2. ASSUME NEW x \in SUBSET Plates, NEW y \in SUBSET Plates
      PROVE  /\ [SurplusNothing EXCEPT !.stock = x, !.todo = y] \in SurplusHeld
             /\ [SurplusNothing EXCEPT !.todo = x] \in SurplusHeld
  BY <1>1 DEF SurplusHeld
<1>3. ASSUME NEW r \in 1..Suggestions
      PROVE  [SurplusNothing EXCEPT !.id = r] \in SurplusHeld
             /\ [SurplusNothing EXCEPT !.id = r].id = r
  BY <1>1, SurplusAssumption DEF SurplusHeld
<1>4. ASSUME NEW r \in 1..Suggestions, NEW v \in Percents
      PROVE  /\ [SurplusNothing EXCEPT !.id = r, !.value = v] \in SurplusHeld
             /\ [SurplusNothing EXCEPT !.id = r, !.value = v].id = r
  <2>1. [SurplusNothing EXCEPT !.id = r] \in SurplusHeld BY <1>3
  <2>2. \A h \in SurplusHeld : /\ [h EXCEPT !.value = v] \in SurplusHeld
                               /\ [h EXCEPT !.value = v].id = h.id
    BY DEF SurplusHeld
  <2> QED BY <1>3, <2>1, <2>2
<1> QED BY <1>1, <1>2, <1>3, <1>4

LEMMA LaterHeld ==
    ASSUME NEW l \in SurplusHeld, NEW p \in Plates, NEW r \in 0..Suggestions, NEW v \in Percents
    PROVE  /\ [l EXCEPT !.todo = @ \ {p}, !.product = {p}] \in SurplusHeld
           /\ [l EXCEPT !.todo = @ \ {p}, !.product = {p}, !.id = r, !.value = v] \in SurplusHeld
           /\ [l EXCEPT !.id = 0] \in SurplusHeld
<1>1. [l EXCEPT !.todo = @ \ {p}, !.product = {p}] \in SurplusHeld BY DEF SurplusHeld
<1>2. [l EXCEPT !.todo = @ \ {p}, !.product = {p}, !.id = r, !.value = v] \in SurplusHeld
  BY DEF SurplusHeld
<1>3. [l EXCEPT !.id = 0] \in SurplusHeld BY SurplusAssumption DEF SurplusHeld
<1> QED BY <1>1, <1>2, <1>3

LEMMA Rewritten ==
    ASSUME SurplusTypeOK, NEW r \in 1..Suggestions, NEW doc \in SuggestionDoc,
           suggestion' = [suggestion EXCEPT ![r] = doc]
    PROVE  /\ suggestion' \in [1..Suggestions -> SuggestionDoc]
           /\ \A s \in 1..Suggestions : suggestion'[s] = IF s = r THEN doc ELSE suggestion[s]
BY DEF SurplusTypeOK

(* What becomes of the recommendations, and of the process that writes     *)
(* them.                                                                   *)
SuggestionMove(w) ==
    \/ UNCHANGED suggestion /\ surplusPc[w] # "approve"
    \/ /\ surplusPc[w] = "suggest" /\ surplusPc'[w] = "find"
       /\ \A s \in 1..Suggestions : \/ suggestion'[s].status = suggestion[s].status
                                    \/ ~Exists(s) /\ suggestion'[s].status = "pending"
    \/ /\ surplusPc[w] \in {"edit", "approve"} /\ surplusPc'[w] = "idle"
       /\ \A s \in 1..Suggestions :
             suggestion'[s].status =
                IF s # surplusLoc[w].id THEN suggestion[s].status
                ELSE IF surplusPc[w] = "edit" THEN "edited" ELSE "approved"
    \/ /\ surplusPc[w] = "idle" /\ surplusPc'[w] = "idle" /\ w \in Deciders
       /\ \A s \in 1..Suggestions : suggestion'[s].status \in {suggestion[s].status, "dismissed"}

DiscountMove(w) ==
    IF surplusPc'[w] = "approve"
    THEN /\ surplusPc[w] = "createOffer" /\ surplusLoc'[w] = surplusLoc[w]
         /\ UNCHANGED suggestion
         /\ LET r == surplusLoc[w].id
            IN  discount' = [discount EXCEPT ![r].made = @ + 1, ![r].live = @ + 1]
    ELSE UNCHANGED discount

SurplusMove(w) ==
    /\ SurplusTypeOK'
    /\ SuggestionsOK'
    /\ \A v \in SurplusStaff : v # w => surplusPc'[v] = surplusPc[v]
                                        /\ surplusLoc'[v] = surplusLoc[v]
    /\ SuggestionMove(w)
    /\ DiscountMove(w)
    /\ surplusPc'[w] \in {"edit", "createOffer"} =>
          /\ surplusPc[w] = "idle" /\ UNCHANGED suggestion
          /\ suggestion[surplusLoc'[w].id].status \notin Closed

LEMMA SurplusReads ==
    ASSUME SurplusTypeOK, SuggestionsOK, NEW w \in SurplusStaff,
           UNCHANGED <<suggestion, discount, confirmed>>, surplusPc[w] # "approve",
           NEW label \in {"idle", "report", "newReport", "find", "suggest", "edit", "createOffer"},
           NEW held \in SurplusHeld, SurplusGo(w, label, held),
           label = "suggest" /\ held.id # 0 => Exists(held.id),
           label \in {"edit", "createOffer"} =>
              /\ w \in Deciders /\ held.id \in 1..Suggestions /\ surplusPc[w] = "idle"
              /\ Exists(held.id) /\ suggestion[held.id].status \notin Closed
    PROVE  SurplusMove(w)
<1>1. /\ label \in SurplusLabels /\ label # "approve"
      /\ label \in Deciding => label \in {"edit", "createOffer"}
  BY DEF SurplusLabels, Deciding
<1>a. label \in Deciding => w \in Deciders /\ held.id \in 1..Suggestions BY <1>1
<1>2. /\ surplusPc' \in [SurplusStaff -> SurplusLabels]
      /\ surplusLoc' \in [SurplusStaff -> SurplusHeld]
      /\ surplusPc'[w] = label /\ surplusLoc'[w] = held
      /\ \A v \in SurplusStaff : v # w => surplusPc'[v] = surplusPc[v]
                                          /\ surplusLoc'[v] = surplusLoc[v]
      /\ \A v \in SurplusStaff : surplusPc'[v] \in Deciding =>
            v \in Deciders /\ surplusLoc'[v].id \in 1..Suggestions
  BY <1>1, <1>a, SurplusWalk
<1>3. SurplusTypeOK' BY <1>2 DEF SurplusTypeOK
<1>4. SuggestionsOK' BY <1>1, <1>2 DEF SuggestionsOK, Exists
<1> QED BY <1>1, <1>2, <1>3, <1>4 DEF SurplusMove, SuggestionMove, DiscountMove

LEMMA SurplusWrites ==
    ASSUME SurplusTypeOK, SuggestionsOK, NEW w \in SurplusStaff,
           UNCHANGED <<discount, confirmed>>,
           NEW r \in 1..Suggestions, NEW doc \in SuggestionDoc, doc.status # "none",
           suggestion' = [suggestion EXCEPT ![r] = doc],
           NEW label \in {"idle", "find"}, NEW held \in SurplusHeld,
           \/ SurplusGo(w, label, held)
           \/ surplusPc[w] = label /\ UNCHANGED <<surplusPc, surplusLoc>>
    PROVE  /\ SurplusTypeOK' /\ SuggestionsOK'
           /\ \A v \in SurplusStaff : v # w => surplusPc'[v] = surplusPc[v]
                                               /\ surplusLoc'[v] = surplusLoc[v]
           /\ surplusPc'[w] = label
           /\ \A s \in 1..Suggestions : suggestion'[s] = IF s = r THEN doc ELSE suggestion[s]
<1>1. label \in SurplusLabels /\ label \notin Deciding
      /\ label # "suggest"
  BY DEF SurplusLabels, Deciding
<1>2. /\ surplusPc' \in [SurplusStaff -> SurplusLabels]
      /\ surplusLoc' \in [SurplusStaff -> SurplusHeld]
      /\ surplusPc'[w] = label
      /\ \A v \in SurplusStaff : v # w => surplusPc'[v] = surplusPc[v]
                                          /\ surplusLoc'[v] = surplusLoc[v]
      /\ \A v \in SurplusStaff : surplusPc'[v] \in Deciding =>
            v \in Deciders /\ surplusLoc'[v].id \in 1..Suggestions
  <2>1. CASE SurplusGo(w, label, held) BY <1>1, <2>1, SurplusWalk
  <2>2. CASE surplusPc[w] = label /\ UNCHANGED <<surplusPc, surplusLoc>>
    BY <2>2 DEF SurplusTypeOK
  <2> QED BY <2>1, <2>2
<1>3. /\ suggestion' \in [1..Suggestions -> SuggestionDoc]
      /\ \A s \in 1..Suggestions : suggestion'[s] = IF s = r THEN doc ELSE suggestion[s]
  BY Rewritten
<1>4. SurplusTypeOK' BY <1>2, <1>3 DEF SurplusTypeOK
<1>5. \A s \in 1..Suggestions : /\ ~Exists(s)' => suggestion'[s] = NoSuggestion
                                /\ Exists(s) => Exists(s)'
  BY <1>3 DEF SuggestionsOK, Exists
<1>6. ASSUME NEW v \in SurplusStaff,
             \/ surplusPc'[v] \in Deciding
             \/ surplusPc'[v] = "suggest" /\ surplusLoc'[v].id # 0
      PROVE  suggestion'[surplusLoc'[v].id].status # "none"
  <2>1. v # w BY <1>1, <1>2, <1>6
  <2>2. surplusPc'[v] = surplusPc[v] /\ surplusLoc'[v] = surplusLoc[v] BY <1>2, <2>1
  <2>3. surplusLoc[v].id \in 1..Suggestions
    BY <1>6, <2>2, SurplusAssumption DEF SurplusTypeOK, SurplusHeld
  <2> QED BY <1>5, <1>6, <2>2, <2>3 DEF SuggestionsOK, Exists
<1> QED BY <1>2, <1>3, <1>4, <1>5, <1>6 DEF SuggestionsOK, Exists

LEMMA SurplusMoves ==
    ASSUME SurplusTypeOK, SuggestionsOK, NEW w \in SurplusStaff, ScannerStep(w) \/ DeciderStep(w)
    PROVE  SurplusMove(w)
<1>a. /\ surplusLoc[w] \in SurplusHeld
      /\ surplusLoc[w].todo \subseteq Plates
      /\ confirmed \subseteq Plates
      /\ surplusLoc[w].id \in 0..Suggestions /\ surplusLoc[w].value \in Percents \cup {0}
      /\ surplusLoc[w].product \in SUBSET Plates
  BY DEF SurplusTypeOK, SurplusHeld
<1>b. \A r \in 1..Suggestions : /\ suggestion[r] # NoSuggestion => Exists(r)
                                /\ suggestion[r] \in SuggestionDoc
  BY DEF SuggestionsOK, SurplusTypeOK
<1>c. ASSUME UNCHANGED <<suggestion, discount, confirmed>>, surplusPc[w] # "approve",
             NEW label \in {"idle", "report", "newReport", "find"}, NEW held \in SurplusHeld,
             SurplusGo(w, label, held)
      PROVE  SurplusMove(w)
  BY <1>c, SurplusReads
<1>1. CASE ReadStock(w)
  <2>1. PICK waste \in SUBSET Plates :
          SurplusGo(w, "report", [SurplusNothing EXCEPT !.stock = confirmed, !.todo = waste])
    BY <1>1 DEF ReadStock
  <2>2. [SurplusNothing EXCEPT !.stock = confirmed, !.todo = waste] \in SurplusHeld
    BY <1>a, FreshHeld
  <2> QED BY <1>1, <1>c, <2>1, <2>2 DEF ReadStock
<1>2. CASE FindReport(w)
  <2>1. PICK p \in surplusLoc[w].todo :
          SurplusGo(w, IF wasteReports[p] > 0 THEN "report" ELSE "newReport",
                    [surplusLoc[w] EXCEPT !.todo = @ \ {p}, !.product = {p}])
    BY <1>2 DEF FindReport
  <2>2. [surplusLoc[w] EXCEPT !.todo = @ \ {p}, !.product = {p}] \in SurplusHeld
    BY <1>a, <2>1 DEF SurplusHeld
  <2> QED BY <1>2, <1>c, <2>1, <2>2 DEF FindReport
<1>3. CASE CreateReport(w) BY <1>3, <1>a, <1>c DEF CreateReport
<1>4. CASE AskSurplus(w)
  <2>1. \/ \E risk \in SUBSET Plates : SurplusGo(w, "find", [SurplusNothing EXCEPT !.todo = risk])
        \/ SurplusGo(w, "idle", SurplusNothing)
    BY <1>4, <1>a DEF AskSurplus, SurplusDone, SurplusTypeOK, SurplusHeld
  <2> QED BY <1>4, <1>c, <2>1, FreshHeld DEF AskSurplus
<1>5. CASE FindOpen(w)
  <2>1. PICK p \in surplusLoc[w].todo, value \in Percents :
          LET open == {r \in 1..Suggestions : /\ suggestion[r].product = {p}
                                              /\ suggestion[r].status \in reusableRecommendationStatuses}
          IN  \E r \in IF open = {} THEN {0} ELSE open :
                 SurplusGo(w, "suggest", [surplusLoc[w] EXCEPT
                     !.todo = @ \ {p}, !.product = {p}, !.id = r, !.value = value])
    BY <1>5 DEF FindOpen
  <2>2. PICK r \in 0..Suggestions :
          /\ r # 0 => suggestion[r].status \in reusableRecommendationStatuses
          /\ SurplusGo(w, "suggest", [surplusLoc[w] EXCEPT
                     !.todo = @ \ {p}, !.product = {p}, !.id = r, !.value = value])
    <3> DEFINE open == {r \in 1..Suggestions :
                            /\ suggestion[r].product = {p}
                            /\ suggestion[r].status \in reusableRecommendationStatuses}
    <3>1. PICK r \in IF open = {} THEN {0} ELSE open :
            SurplusGo(w, "suggest", [surplusLoc[w] EXCEPT
                     !.todo = @ \ {p}, !.product = {p}, !.id = r, !.value = value])
      BY <2>1
    <3>2. r \in 0..Suggestions /\ (r # 0 => r \in open) BY <3>1, SurplusAssumption
    <3> QED BY <3>1, <3>2
  <2> DEFINE held == [surplusLoc[w] EXCEPT !.todo = @ \ {p}, !.product = {p}, !.id = r, !.value = value]
  <2>3. p \in Plates BY <1>a, <2>1
  <2>4. held \in SurplusHeld BY <1>a, <2>3, LaterHeld
  <2>5. held.id = r BY <1>a DEF SurplusHeld
  <2>6. SurplusGo(w, "suggest", held) BY <2>2
  <2> HIDE DEF held
  <2>7. held.id # 0 => Exists(held.id) BY <2>2, <2>5 DEF Exists, reusableRecommendationStatuses
  <2> QED BY <1>5, <2>4, <2>6, <2>7, SurplusReads DEF FindOpen
<1>6. CASE Suggest(w)
  <2> DEFINE l == surplusLoc[w]
             held == [l EXCEPT !.id = 0]
  <2>1. SurplusGo(w, "find", held) /\ surplusPc[w] = "suggest" /\ UNCHANGED <<confirmed, discount>>
    BY <1>6 DEF Suggest
  <2>2. held \in SurplusHeld BY <1>a, SurplusAssumption DEF SurplusHeld
  <2> HIDE DEF held
  <2>3. PICK r \in 1..Suggestions, doc \in SuggestionDoc :
          /\ suggestion' = [suggestion EXCEPT ![r] = doc]
          /\ \/ Exists(r) /\ doc.status = suggestion[r].status
             \/ ~Exists(r) /\ doc.status = "pending"
    <3>1. CASE l.id # 0
      <4> DEFINE doc == [suggestion[l.id] EXCEPT !.value = l.value]
      <4>1. suggestion' = [suggestion EXCEPT ![l.id] = doc]
        BY <1>6, <3>1 DEF Suggest, SurplusTypeOK
      <4>2. l.id \in 1..Suggestions BY <1>a, <3>1, SurplusAssumption
      <4>3. doc \in SuggestionDoc /\ doc.status = suggestion[l.id].status
        BY <1>a, <1>b, <4>2 DEF SuggestionDoc
      <4>4. Exists(l.id) BY <2>1, <3>1 DEF SuggestionsOK
      <4> QED BY <4>1, <4>2, <4>3, <4>4
    <3>2. CASE l.id = 0
      <4> DEFINE doc == [status |-> "pending", product |-> l.product, value |-> l.value]
      <4>1. PICK r \in 1..Suggestions :
              suggestion[r] = NoSuggestion /\ suggestion' = [suggestion EXCEPT ![r] = doc]
        BY <1>6, <3>2 DEF Suggest
      <4>2. ~Exists(r) BY <4>1 DEF NoSuggestion, Exists
      <4>3. doc \in SuggestionDoc /\ doc.status = "pending" BY <1>a DEF SuggestionDoc
      <4> QED BY <4>1, <4>2, <4>3
    <3> QED BY <3>1, <3>2
  <2>4. doc.status # "none" BY <2>3 DEF Exists
  <2>5. /\ SurplusTypeOK' /\ SuggestionsOK'
        /\ \A v \in SurplusStaff : v # w => surplusPc'[v] = surplusPc[v]
                                            /\ surplusLoc'[v] = surplusLoc[v]
        /\ surplusPc'[w] = "find"
        /\ \A s \in 1..Suggestions : suggestion'[s] = IF s = r THEN doc ELSE suggestion[s]
    BY <2>1, <2>2, <2>3, <2>4, SurplusWrites
  <2>6. SuggestionMove(w) BY <2>1, <2>3, <2>5 DEF SuggestionMove
  <2> QED BY <2>1, <2>5, <2>6 DEF SurplusMove, DiscountMove
<1>7. CASE ScanEnds(w) BY <1>7, <1>c, FreshHeld DEF ScanEnds, SurplusDone
<1>8. CASE ReadEdit(w)
  <2>1. PICK r \in 1..Suggestions, value \in Percents :
          /\ suggestion[r] # NoSuggestion /\ suggestion[r].status \notin Closed
          /\ SurplusGo(w, "edit", [SurplusNothing EXCEPT !.id = r, !.value = value])
    BY <1>8 DEF ReadEdit
  <2> DEFINE held == [SurplusNothing EXCEPT !.id = r, !.value = value]
  <2>2. held \in SurplusHeld /\ held.id = r BY FreshHeld
  <2>3. SurplusGo(w, "edit", held) BY <2>1
  <2> HIDE DEF held
  <2> QED BY <1>8, <1>b, <2>1, <2>2, <2>3, SurplusReads DEF ReadEdit
<1>9. CASE EditSuggestion(w) \/ MarkApproved(w)
  <2> DEFINE r == surplusLoc[w].id
             doc == IF surplusPc[w] = "edit"
                    THEN [suggestion[r] EXCEPT !.status = "edited", !.value = surplusLoc[w].value]
                    ELSE [suggestion[r] EXCEPT !.status = "approved"]
  <2>1. surplusPc[w] \in {"edit", "approve"} /\ SurplusGo(w, "idle", SurplusNothing)
        /\ UNCHANGED <<confirmed, discount>>
    BY <1>9 DEF EditSuggestion, MarkApproved, SurplusDone
  <2>2. r \in 1..Suggestions BY <2>1 DEF SurplusTypeOK, Deciding
  <2>3. suggestion' = [suggestion EXCEPT ![r] = doc]
    BY <1>9, <2>2 DEF EditSuggestion, MarkApproved, SurplusTypeOK
  <2>4. doc \in SuggestionDoc /\ doc.status = IF surplusPc[w] = "edit" THEN "edited" ELSE "approved"
    <3>1. suggestion[r] \in SuggestionDoc BY <1>a, <1>b, <2>2
    <3>2. PICK x : x = suggestion[r] /\ x \in SuggestionDoc BY <3>1
    <3>3. CASE surplusPc[w] = "edit"
      <4>1. PICK y : y = surplusLoc[w].value /\ y \in Percents \cup {0}
        BY <1>a, <1>b DEF SurplusHeld
      <4>2. doc = [x EXCEPT !.status = "edited", !.value = y] BY <3>2, <3>3, <4>1
      <4> QED BY <3>2, <3>3, <4>1, <4>2 DEF SuggestionDoc
    <3>4. CASE surplusPc[w] # "edit"
      <4>1. doc = [x EXCEPT !.status = "approved"] BY <3>2, <3>4
      <4> QED BY <3>2, <3>4, <4>1 DEF SuggestionDoc
    <3> QED BY <3>3, <3>4
  <2> HIDE DEF doc
  <2>5. doc.status # "none" BY <2>4
  <2>6. /\ SurplusTypeOK' /\ SuggestionsOK'
        /\ \A v \in SurplusStaff : v # w => surplusPc'[v] = surplusPc[v]
                                            /\ surplusLoc'[v] = surplusLoc[v]
        /\ surplusPc'[w] = "idle"
        /\ \A s \in 1..Suggestions : suggestion'[s] = IF s = r THEN doc ELSE suggestion[s]
    <3>1. SurplusNothing \in SurplusHeld BY FreshHeld
    <3> QED BY <2>1, <2>2, <2>3, <2>4, <2>5, <3>1, SurplusWrites
  <2>7. SuggestionMove(w) BY <2>1, <2>4, <2>6 DEF SuggestionMove
  <2> QED BY <2>1, <2>6, <2>7 DEF SurplusMove, DiscountMove
<1>10. CASE DismissSuggestion(w)
  <2>1. PICK r \in 1..Suggestions :
          suggestion' = [suggestion EXCEPT ![r] = [suggestion[r] EXCEPT !.status = "dismissed"]]
    BY <1>10 DEF DismissSuggestion, SurplusTypeOK
  <2> DEFINE doc == [suggestion[r] EXCEPT !.status = "dismissed"]
  <2>2. doc \in SuggestionDoc /\ doc.status = "dismissed" BY <1>b DEF SuggestionDoc
  <2>3. suggestion' = [suggestion EXCEPT ![r] = doc] BY <2>1
  <2> HIDE DEF doc
  <2>4. surplusPc[w] = "idle" /\ w \in Deciders
        /\ UNCHANGED <<confirmed, discount, surplusPc, surplusLoc>>
    BY <1>10 DEF DismissSuggestion
  <2>5. doc.status # "none" BY <2>2
  <2>6. /\ SurplusTypeOK' /\ SuggestionsOK'
        /\ \A v \in SurplusStaff : v # w => surplusPc'[v] = surplusPc[v]
                                            /\ surplusLoc'[v] = surplusLoc[v]
        /\ surplusPc'[w] = "idle"
        /\ \A s \in 1..Suggestions : suggestion'[s] = IF s = r THEN doc ELSE suggestion[s]
    BY <1>a, <2>2, <2>3, <2>4, <2>5, SurplusWrites
  <2>7. SuggestionMove(w) BY <2>2, <2>4, <2>6 DEF SuggestionMove
  <2> QED BY <2>4, <2>6, <2>7 DEF SurplusMove, DiscountMove
<1>11. CASE ReadSuggestion(w)
  <2>1. PICK r \in 1..Suggestions :
          /\ suggestion[r] # NoSuggestion /\ suggestion[r].status \notin Closed
          /\ SurplusGo(w, "createOffer", [SurplusNothing EXCEPT !.id = r])
    BY <1>11 DEF ReadSuggestion
  <2> DEFINE held == [SurplusNothing EXCEPT !.id = r]
  <2>2. held \in SurplusHeld /\ held.id = r BY FreshHeld
  <2>3. SurplusGo(w, "createOffer", held) BY <2>1
  <2> HIDE DEF held
  <2> QED BY <1>11, <1>b, <2>1, <2>2, <2>3, SurplusReads DEF ReadSuggestion
<1>12. CASE CreateDiscount(w)
  <2> DEFINE r == surplusLoc[w].id
  <2>1. surplusPc[w] = "createOffer" /\ SurplusGo(w, "approve", surplusLoc[w])
        /\ UNCHANGED <<confirmed, suggestion>>
        /\ discount' = [discount EXCEPT ![r].made = @ + 1, ![r].live = @ + 1]
    BY <1>12 DEF CreateDiscount
  <2>2. w \in Deciders /\ r \in 1..Suggestions /\ Exists(r)
    BY <2>1 DEF SurplusTypeOK, SuggestionsOK, Deciding
  <2>3. "approve" \in SurplusLabels BY DEF SurplusLabels, Deciding
  <2>4. /\ surplusPc' \in [SurplusStaff -> SurplusLabels]
        /\ surplusLoc' \in [SurplusStaff -> SurplusHeld]
        /\ surplusPc'[w] = "approve" /\ surplusLoc'[w] = surplusLoc[w]
        /\ \A v \in SurplusStaff : v # w => surplusPc'[v] = surplusPc[v]
                                            /\ surplusLoc'[v] = surplusLoc[v]
        /\ \A v \in SurplusStaff : surplusPc'[v] \in Deciding =>
              v \in Deciders /\ surplusLoc'[v].id \in 1..Suggestions
    BY <1>a, <2>1, <2>2, <2>3, SurplusWalk
  <2>5. discount' \in [1..Suggestions -> [made : Nat, live : Int]]
    <3>1. discount \in [1..Suggestions -> [made : Nat, live : Int]] BY DEF SurplusTypeOK
    <3>2. discount' = [discount EXCEPT ![r] = [discount[r] EXCEPT !.made = @ + 1, !.live = @ + 1]]
      BY <2>1, <2>2, <3>1
    <3>3. [discount[r] EXCEPT !.made = @ + 1, !.live = @ + 1] \in [made : Nat, live : Int]
      <4>1. /\ discount[r] \in [made : Nat, live : Int]
            /\ discount[r].made + 1 \in Nat /\ discount[r].live + 1 \in Int
        BY <2>2, <3>1
      <4> QED BY <4>1
    <3> QED BY <3>1, <3>2, <3>3
  <2>6. SurplusTypeOK' BY <2>1, <2>4, <2>5 DEF SurplusTypeOK
  <2>7. SuggestionsOK' BY <2>1, <2>2, <2>4 DEF SuggestionsOK, Exists
  <2> QED BY <2>1, <2>4, <2>6, <2>7 DEF SurplusMove, SuggestionMove, DiscountMove
<1> QED BY <1>1, <1>2, <1>3, <1>4, <1>5, <1>6, <1>7, <1>8, <1>9, <1>10, <1>11, <1>12
        DEF ScannerStep, DeciderStep

(* No two managers decide one recommendation at a time.                    *)
DecisionsApart == \A v, w \in SurplusStaff :
    v # w /\ surplusPc[v] \in Deciding /\ surplusPc[w] \in Deciding =>
        surplusLoc[v].id # surplusLoc[w].id

(* A recommendation with an offer is closed, or the manager who made the   *)
(* offer is about to close it.                                             *)
Answered(r) ==
    \/ suggestion[r].status \in Closed
    \/ \E w \in SurplusStaff : surplusPc[w] = "approve" /\ surplusLoc[w].id = r

Unmade(w) ==
    surplusPc[w] \in {"edit", "createOffer"} => discount[surplusLoc[w].id].made = 0

OfferInv ==
    /\ SurplusTypeOK
    /\ SuggestionsOK
    /\ \A r \in 1..Suggestions : /\ discount[r].made <= 1
                                 /\ discount[r].made > 0 => Answered(r)
    /\ \A w \in SurplusStaff : Unmade(w)

LEMMA UnmadeKept ==
    ASSUME OfferInv, DecisionsApart, DecisionsApart', NEW w \in SurplusStaff, SurplusMove(w),
           NEW v \in SurplusStaff
    PROVE  Unmade(v)'
<1> SUFFICES ASSUME surplusPc'[v] \in {"edit", "createOffer"}
             PROVE  discount'[surplusLoc'[v].id].made = 0
  BY DEF Unmade
<1>a. /\ SurplusTypeOK /\ SurplusTypeOK' /\ DiscountMove(w)
      /\ \A u \in SurplusStaff : u # w => surplusPc'[u] = surplusPc[u]
                                          /\ surplusLoc'[u] = surplusLoc[u]
  BY DEF OfferInv, SurplusMove
<1>b. surplusPc'[v] \in Deciding /\ surplusLoc'[v].id \in 1..Suggestions
  BY <1>a DEF SurplusTypeOK, Deciding
<1>1. CASE v = w
  <2>1. /\ surplusPc[v] = "idle" /\ UNCHANGED discount
        /\ suggestion[surplusLoc'[v].id].status \notin Closed
    BY <1>a, <1>1 DEF SurplusMove, DiscountMove
  <2>2. ~ \E u \in SurplusStaff : surplusPc[u] = "approve" /\ surplusLoc[u].id = surplusLoc'[v].id
    <3> SUFFICES ASSUME NEW u \in SurplusStaff, surplusPc[u] = "approve" PROVE surplusLoc[u].id # surplusLoc'[v].id
      OBVIOUS
    <3>1. u # v BY <2>1
    <3>2. surplusPc'[u] \in Deciding /\ surplusLoc'[u] = surplusLoc[u]
      BY <1>a, <1>1, <3>1 DEF Deciding
    <3> QED BY <1>b, <3>1, <3>2 DEF DecisionsApart
  <2>3. ~Answered(surplusLoc'[v].id) BY <2>1, <2>2 DEF Answered
  <2>4. discount[surplusLoc'[v].id].made \in Nat BY <1>b DEF OfferInv, SurplusTypeOK
  <2> QED BY <1>b, <2>1, <2>3, <2>4 DEF OfferInv
<1>2. CASE v # w
  <2>1. discount[surplusLoc'[v].id].made = 0 BY <1>a, <1>2 DEF OfferInv, Unmade
  <2>2. CASE surplusPc'[w] # "approve" BY <1>a, <1>2, <2>1, <2>2 DEF DiscountMove
  <2>3. CASE surplusPc'[w] = "approve"
    <3> DEFINE n == surplusLoc[w].id
    <3>1. /\ surplusLoc'[w].id = n
          /\ discount' = [discount EXCEPT ![n].made = @ + 1, ![n].live = @ + 1]
      BY <1>a, <2>3 DEF DiscountMove
    <3>2. surplusLoc'[v].id # n BY <1>b, <1>2, <2>3, <3>1 DEF DecisionsApart, Deciding
    <3> QED BY <1>a, <1>b, <2>1, <3>1, <3>2 DEF SurplusTypeOK
  <2> QED BY <2>2, <2>3
<1> QED BY <1>1, <1>2

LEMMA AnsweredKept ==
    ASSUME OfferInv, NEW w \in SurplusStaff, SurplusMove(w),
           NEW r \in 1..Suggestions
    PROVE  discount'[r].made <= 1 /\ (discount'[r].made > 0 => Answered(r)')
<1>a. /\ SurplusTypeOK /\ SurplusTypeOK' /\ DiscountMove(w) /\ SuggestionMove(w)
      /\ \A v \in SurplusStaff : v # w => surplusPc'[v] = surplusPc[v]
                                          /\ surplusLoc'[v] = surplusLoc[v]
      /\ discount[r].made \in Nat /\ discount[r].made <= 1
      /\ discount[r].made > 0 => Answered(r)
  BY DEF OfferInv, SurplusMove, SurplusTypeOK
<1>1. CASE surplusPc'[w] = "approve"
  <2> DEFINE n == surplusLoc[w].id
  <2>1. /\ surplusPc[w] = "createOffer" /\ surplusLoc'[w].id = n /\ UNCHANGED suggestion
        /\ discount' = [discount EXCEPT ![n].made = @ + 1, ![n].live = @ + 1]
    BY <1>a, <1>1 DEF DiscountMove
  <2>2. n \in 1..Suggestions /\ discount[n].made = 0
    BY <2>1 DEF OfferInv, SurplusTypeOK, Unmade, Deciding
  <2>3. CASE r = n
    <3>1. discount'[r].made = discount[r].made + 1
      BY <1>a, <2>1, <2>2, <2>3 DEF SurplusTypeOK
    <3>2. Answered(r)' BY <1>1, <2>1, <2>3 DEF Answered
    <3> QED BY <2>2, <2>3, <3>1, <3>2
  <2>4. CASE r # n
    <3>1. discount'[r] = discount[r] BY <1>a, <2>1, <2>2, <2>4 DEF SurplusTypeOK
    <3>2. Answered(r) => Answered(r)' BY <1>a, <2>1 DEF Answered
    <3> QED BY <1>a, <3>1, <3>2
  <2> QED BY <2>3, <2>4
<1>2. CASE surplusPc'[w] # "approve"
  <2>1. UNCHANGED discount BY <1>a, <1>2 DEF DiscountMove
  <2> SUFFICES ASSUME discount[r].made > 0 PROVE Answered(r)' BY <1>a, <2>1
  <2>2. CASE \E v \in SurplusStaff : v # w /\ surplusPc[v] = "approve" /\ surplusLoc[v].id = r
    BY <1>a, <2>2 DEF Answered
  <2>3. CASE surplusPc[w] = "approve" /\ surplusLoc[w].id = r
    <3>1. suggestion'[r].status = "approved" BY <1>a, <2>3 DEF SuggestionMove
    <3> QED BY <3>1 DEF Answered, Closed
  <2>4. CASE suggestion[r].status \in Closed
    <3>1. ~(surplusPc[w] = "edit" /\ surplusLoc[w].id = r)
      BY DEF OfferInv, Unmade
    <3>2. suggestion'[r].status \in Closed
      BY <1>a, <2>4, <3>1 DEF SuggestionMove, Exists, Closed
    <3> QED BY <3>2 DEF Answered
  <2> QED BY <1>a, <2>2, <2>3, <2>4 DEF Answered
<1> QED BY <1>1, <1>2

(* As long as no two managers decide the same recommendation at a time,    *)
(* however many are at work, it becomes one offer: neither a scan that     *)
(* still holds it and refreshes it by _id, nor an edit, nor a dismissal,   *)
(* nor the end of the first offer lets it be approved again                *)
(* (approveRecommendation, editRecommendation).                            *)
THEOREM OneOfferCorrect == SpecSurplus /\ []DecisionsApart => []OneOfferEach
<1>1. InitSurplus => OfferInv
  <2> SUFFICES ASSUME InitSurplus PROVE OfferInv OBVIOUS
  <2>1. /\ confirmed \subseteq Plates
        /\ suggestion \in [1..Suggestions -> SuggestionDoc]
    BY DEF InitSurplus, SuggestionDoc, NoSuggestion
  <2>2. discount \in [1..Suggestions -> [made : Nat, live : Int]] BY DEF InitSurplus
  <2>3. surplusPc \in [SurplusStaff -> SurplusLabels] BY DEF InitSurplus, SurplusLabels
  <2>4. surplusLoc \in [SurplusStaff -> SurplusHeld] BY FreshHeld DEF InitSurplus
  <2>5. \A w \in SurplusStaff : surplusPc[w] = "idle" BY DEF InitSurplus
  <2>6. SurplusTypeOK BY <2>1, <2>2, <2>3, <2>4, <2>5 DEF SurplusTypeOK, Deciding
  <2>7. SuggestionsOK BY DEF InitSurplus, SuggestionsOK, Deciding
  <2> QED BY <2>6, <2>7 DEF InitSurplus, OfferInv, Unmade
<1>2. OfferInv /\ DecisionsApart /\ DecisionsApart' /\ [NextSurplus]_surplusVars => OfferInv'
  <2> SUFFICES ASSUME OfferInv, DecisionsApart, DecisionsApart', [NextSurplus]_surplusVars
               PROVE  OfferInv'
    OBVIOUS
  <2>1. ASSUME NEW w \in SurplusStaff, ScannerStep(w) \/ DeciderStep(w) PROVE OfferInv'
    <3>1. SurplusMove(w) BY <2>1, SurplusMoves DEF OfferInv
    <3> QED BY <3>1, UnmadeKept, AnsweredKept DEF OfferInv, SurplusMove
  <2>2. CASE ConfirmProduction
    BY <2>2 DEF ConfirmProduction, OfferInv, SurplusTypeOK, SuggestionsOK, Exists, Unmade, Answered
  <2>3. CASE DiscountEnds
    <3>1. PICK r \in 1..Suggestions : discount' = [discount EXCEPT ![r].live = @ - 1]
      BY <2>3 DEF DiscountEnds
    <3>2. discount \in [1..Suggestions -> [made : Nat, live : Int]] BY DEF OfferInv, SurplusTypeOK
    <3>3. /\ discount' \in [1..Suggestions -> [made : Nat, live : Int]]
          /\ \A s \in 1..Suggestions : discount'[s].made = discount[s].made
      <4>1. discount' = [discount EXCEPT ![r] = [discount[r] EXCEPT !.live = @ - 1]]
        BY <3>1, <3>2
      <4>2. /\ [discount[r] EXCEPT !.live = @ - 1] \in [made : Nat, live : Int]
            /\ [discount[r] EXCEPT !.live = @ - 1].made = discount[r].made
        BY <3>2
      <4> QED BY <3>2, <4>1, <4>2
    <3>4. UNCHANGED <<confirmed, suggestion, surplusPc, surplusLoc>> BY <2>3 DEF DiscountEnds
    <3>5. \A v \in SurplusStaff : surplusPc[v] \in Deciding => surplusLoc[v].id \in 1..Suggestions
      BY DEF OfferInv, SurplusTypeOK
    <3> QED BY <3>3, <3>4, <3>5
            DEF OfferInv, SurplusTypeOK, SuggestionsOK, Exists, Unmade, Answered, Deciding
  <2>4. CASE UNCHANGED surplusVars
    BY <2>4 DEF surplusVars, OfferInv, SurplusTypeOK, SuggestionsOK, Exists, Unmade, Answered
  <2> QED BY <2>1, <2>2, <2>3, <2>4 DEF NextSurplus
<1>3. OfferInv => OneOfferEach BY DEF OfferInv, OneOfferEach
<1> QED BY <1>1, <1>2, <1>3, PTL DEF SpecSurplus

-------------------------------------------------------------------------------
(* Weekly forecasts.                                                       *)
ForecastLabels == {"idle", "ask", "find", "save", "sales", "errors"}

(* The documents have their fields; what the fields hold is not needed.    *)
ForecastShape ==
    /\ DOMAIN recalculation = DOMAIN NoBatchYet
    /\ DOMAIN recalculation.rows = Menu
    /\ recalculation.kind \in {"none", "unavailable"} \cup Diagnoses
    /\ forecastPc \in [ForecastStaff -> ForecastLabels]
    /\ DOMAIN forecastLoc = ForecastStaff
    /\ \A w \in ForecastStaff : DOMAIN forecastLoc[w] = DOMAIN ForecastNothing

(* The batch says that the row is naive, and with a diagnosis if the row   *)
(* has one.                                                                *)
Told(row) ==
    /\ row.source = "fallback_naive" => recalculation.kind # "none"
    /\ row.reason \in Diagnoses => recalculation.kind \in Diagnoses

Recalculating == {"ask", "find", "save"}

(* A worker works for a running batch, and has reported a naive row before *)
(* it saves it.                                                            *)
WorksForBatch(w) ==
    /\ forecastPc[w] \in Recalculating => recalculation.phase = "running"
    /\ forecastPc[w] \in {"find", "save"} => Told(forecastLoc[w].row)

HealthyInv ==
    /\ ForecastShape
    /\ \A w \in Workers : WorksForBatch(w)
    /\ \A p \in Menu : Told(recalculation.rows[p])

LEMMA Fields ==
    /\ DOMAIN NoBatchYet = {"phase", "todo", "rows", "failed", "degraded", "kind"}
    /\ DOMAIN ForecastNothing = {"product", "row", "seen", "rows", "sold"}
    /\ NoBatchYet.kind = "none" /\ NoBatchYet.rows = [p \in Menu |-> NoRow]
    /\ NoRow.source = "none" /\ NoRow.reason = "none"
    /\ "none" \notin Diagnoses
BY DEF NoBatchYet, ForecastNothing, NoRow, Diagnoses

LEMMA ForecastWalk ==
    ASSUME ForecastShape, NEW w \in ForecastStaff, NEW label \in ForecastLabels, NEW held,
           DOMAIN held = DOMAIN ForecastNothing, ForecastGo(w, label, held)
    PROVE  /\ forecastPc' \in [ForecastStaff -> ForecastLabels]
           /\ DOMAIN forecastLoc' = ForecastStaff
           /\ \A v \in ForecastStaff : DOMAIN forecastLoc'[v] = DOMAIN ForecastNothing
           /\ forecastPc'[w] = label /\ forecastLoc'[w] = held
           /\ \A v \in ForecastStaff : v # w => forecastPc'[v] = forecastPc[v]
                                                /\ forecastLoc'[v] = forecastLoc[v]
BY DEF ForecastShape, ForecastGo

(* A naive row is made exactly when the answer is reported, and what the   *)
(* row says of it is what is reported.                                     *)
LEMMA NaiveIsReported ==
    ASSUME NEW p, NEW answer \in Answers
    PROVE  /\ Reported(answer) \in {"none", "unavailable"} \cup Diagnoses
           /\ Forecast(p, answer).source = "fallback_naive" => Reported(answer) # "none"
           /\ Forecast(p, answer).reason \in Diagnoses => Reported(answer) \in Diagnoses
<1>1. ASSUME NEW t, NEW d, NEW s, NEW r
      PROVE  RowOf(t, d, s, r).source = s /\ RowOf(t, d, s, r).reason = r
  BY DEF RowOf, NoRow
<1>2. answer.kind \in {"rows", "total", "missing", "unavailable", "client_error", "rate_limited"}
  BY DEF Answers
<1>3. CASE answer.kind \in {"rows", "total"}
  <2>1. PICK total, days : Forecast(p, answer) = RowOf(total, days, "ai_model", "none")
    BY <1>3 DEF Forecast
  <2>2. Reported(answer) = "none" BY <1>3 DEF Reported
  <2> QED BY <1>1, <2>1, <2>2, Fields
<1>4. CASE answer.kind \in {"missing", "unavailable", "client_error", "rate_limited"}
  <2>1. PICK total, days : Forecast(p, answer) = RowOf(total, days, "fallback_naive", answer.kind)
    BY <1>4 DEF Forecast
  <2>2. Reported(answer) \in {"unavailable", "client_error", "rate_limited"}
    BY <1>4 DEF Reported
  <2>3. answer.kind \in Diagnoses => Reported(answer) \in Diagnoses
    BY <1>4 DEF Reported, Diagnoses
  <2> QED BY <1>1, <2>1, <2>2, <2>3 DEF Diagnoses
<1> QED BY <1>2, <1>3, <1>4

(* A report leaves what the batch says no weaker than it and what was said *)
(* before.                                                                 *)
LEMMA ReportKept ==
    ASSUME NEW said \in {"none", "unavailable"} \cup Diagnoses,
           NEW report \in {"unavailable"} \cup Diagnoses, NEW kind,
           kind = IF Outranks(report, said) THEN report ELSE said
    PROVE  /\ kind \in {"unavailable"} \cup Diagnoses
           /\ said \in Diagnoses \/ report \in Diagnoses => kind \in Diagnoses
BY DEF Outranks, Diagnoses

(* What a step of a worker or a manager leaves of the batch.               *)
LEMMA BatchTold ==
    ASSUME ForecastShape, NEW kind, NEW d,
           recalculation' = [recalculation EXCEPT !.degraded = d, !.kind = kind]
    PROVE  /\ DOMAIN recalculation' = DOMAIN NoBatchYet
           /\ recalculation'.rows = recalculation.rows
           /\ recalculation'.phase = recalculation.phase
           /\ recalculation'.kind = kind
BY Fields DEF ForecastShape

LEMMA RecalculationKeeps ==
    ASSUME HealthyInv, NEW w \in ForecastStaff, RecalculationStep(w)
    PROVE  HealthyInv'
<1>a. /\ ForecastShape /\ \A v \in Workers : WorksForBatch(v)
      /\ \A p \in Menu : Told(recalculation.rows[p])
      /\ recalculation.kind \in {"none", "unavailable"} \cup Diagnoses
      /\ DOMAIN forecastLoc[w] = DOMAIN ForecastNothing
      /\ Workers \subseteq ForecastStaff
  BY DEF HealthyInv, ForecastShape, ForecastStaff
<1>b. \A x : /\ DOMAIN [ForecastNothing EXCEPT !.product = x] = DOMAIN ForecastNothing
             /\ DOMAIN [forecastLoc[w] EXCEPT !.row = x] = DOMAIN ForecastNothing
             /\ [forecastLoc[w] EXCEPT !.row = x].row = x
             /\ DOMAIN [forecastLoc[w] EXCEPT !.seen = x] = DOMAIN ForecastNothing
             /\ [forecastLoc[w] EXCEPT !.seen = x].row = forecastLoc[w].row
  BY <1>a, Fields
<1>1. CASE TakeProduct(w)
  <2>1. PICK p, f :
          /\ recalculation' = [recalculation EXCEPT !.todo = Tail(@), !.failed = f]
          /\ \/ ForecastGo(w, "ask", [ForecastNothing EXCEPT !.product = {p}])
             \/ ForecastGo(w, "idle", ForecastNothing)
    BY <1>1 DEF TakeProduct, ForecastDone
  <2>2. recalculation.phase = "running" BY <1>1 DEF TakeProduct
  <2>3. /\ DOMAIN recalculation' = DOMAIN NoBatchYet
        /\ recalculation'.rows = recalculation.rows
        /\ recalculation'.phase = "running"
        /\ recalculation'.kind = recalculation.kind
    BY <1>a, <2>1, <2>2, Fields DEF ForecastShape
  <2>4. PICK label, held :
          label \in {"ask", "idle"} /\ DOMAIN held = DOMAIN ForecastNothing /\ ForecastGo(w, label, held)
    BY <1>b, <2>1
  <2>5. label \in ForecastLabels BY <2>4 DEF ForecastLabels
  <2>6. /\ forecastPc' \in [ForecastStaff -> ForecastLabels]
        /\ DOMAIN forecastLoc' = ForecastStaff
        /\ \A v \in ForecastStaff : DOMAIN forecastLoc'[v] = DOMAIN ForecastNothing
        /\ forecastPc'[w] \in {"ask", "idle"}
        /\ \A v \in ForecastStaff : v # w => forecastPc'[v] = forecastPc[v]
                                             /\ forecastLoc'[v] = forecastLoc[v]
    BY <1>a, <2>4, <2>5, ForecastWalk
  <2>7. ForecastShape' BY <1>a, <2>3, <2>6 DEF ForecastShape
  <2>8. \A v \in Workers : WorksForBatch(v)'
    BY <1>a, <2>3, <2>6 DEF WorksForBatch, Recalculating, Told
  <2> QED BY <1>a, <2>3, <2>7, <2>8 DEF HealthyInv, Told
<1>2. CASE RecalculateOne(w)
  <2>1. PICK p : ForecastGo(w, "ask", [ForecastNothing EXCEPT !.product = {p}])
    BY <1>2 DEF RecalculateOne
  <2>2. w \notin Workers /\ UNCHANGED recalculation
    BY <1>2, ForecastAssumption DEF RecalculateOne
  <2>3. "ask" \in ForecastLabels BY DEF ForecastLabels
  <2>4. /\ forecastPc' \in [ForecastStaff -> ForecastLabels]
        /\ DOMAIN forecastLoc' = ForecastStaff
        /\ \A v \in ForecastStaff : DOMAIN forecastLoc'[v] = DOMAIN ForecastNothing
        /\ \A v \in ForecastStaff : v # w => forecastPc'[v] = forecastPc[v]
                                             /\ forecastLoc'[v] = forecastLoc[v]
    BY <1>a, <1>b, <2>1, <2>3, ForecastWalk
  <2>5. ForecastShape' BY <1>a, <2>2, <2>4 DEF ForecastShape
  <2>6. \A v \in Workers : WorksForBatch(v)'
    BY <1>a, <2>2, <2>4 DEF WorksForBatch, Told
  <2> QED BY <1>a, <2>2, <2>5, <2>6 DEF HealthyInv, Told
<1>3. CASE AskModel(w)
  <2>1. PICK answer \in Answers :
          /\ ForecastGo(w, "find", [forecastLoc[w] EXCEPT !.row = Forecast(ProductOf(w), answer)])
          /\ recalculation' = IF w \in Workers /\ Reported(answer) # "none"
                      THEN [recalculation EXCEPT
                              !.degraded = @ \cup {ProductOf(w)},
                              !.kind = IF Outranks(Reported(answer), @) THEN Reported(answer) ELSE @]
                      ELSE recalculation
    BY <1>3 DEF AskModel
  <2> DEFINE row == Forecast(ProductOf(w), answer)
             told == w \in Workers /\ Reported(answer) # "none"
             kind == IF Outranks(Reported(answer), recalculation.kind)
                     THEN Reported(answer) ELSE recalculation.kind
             held == [forecastLoc[w] EXCEPT !.row = row]
  <2>2. held.row = row /\ DOMAIN held = DOMAIN ForecastNothing BY <1>b
  <2>3. ForecastGo(w, "find", held) BY <2>1
  <2>4. /\ Reported(answer) \in {"none", "unavailable"} \cup Diagnoses
        /\ row.source = "fallback_naive" => Reported(answer) # "none"
        /\ row.reason \in Diagnoses => Reported(answer) \in Diagnoses
    BY NaiveIsReported
  <2>5. Reported(answer) # "none" =>
          /\ kind \in {"unavailable"} \cup Diagnoses /\ kind # "none"
          /\ recalculation.kind \in Diagnoses \/ Reported(answer) \in Diagnoses => kind \in Diagnoses
    BY <1>a, <2>4, ReportKept, Fields
  <2>6. told => /\ DOMAIN recalculation' = DOMAIN NoBatchYet
                /\ recalculation'.rows = recalculation.rows
                /\ recalculation'.phase = recalculation.phase
                /\ recalculation'.kind = kind
    BY <1>a, <2>1, BatchTold
  <2>7. ~told => recalculation' = recalculation BY <2>1
  <2> HIDE DEF held, row, kind
  <2>8. /\ forecastPc' \in [ForecastStaff -> ForecastLabels]
        /\ DOMAIN forecastLoc' = ForecastStaff
        /\ \A v \in ForecastStaff : DOMAIN forecastLoc'[v] = DOMAIN ForecastNothing
        /\ forecastPc'[w] = "find" /\ forecastLoc'[w] = held
        /\ \A v \in ForecastStaff : v # w => forecastPc'[v] = forecastPc[v]
                                             /\ forecastLoc'[v] = forecastLoc[v]
    <3>1. "find" \in ForecastLabels BY DEF ForecastLabels
    <3> QED BY <1>a, <2>2, <2>3, <3>1, ForecastWalk
  <2>9. ForecastShape' BY <1>a, <2>5, <2>6, <2>7, <2>8 DEF ForecastShape
  <2>10. /\ recalculation.kind # "none" => recalculation'.kind # "none"
         /\ recalculation.kind \in Diagnoses => recalculation'.kind \in Diagnoses
    BY <2>5, <2>6, <2>7
  <2>11. recalculation'.phase = recalculation.phase /\ recalculation'.rows = recalculation.rows
    BY <2>6, <2>7
  <2>12. forecastPc[w] = "ask" BY <1>3 DEF AskModel
  <2>13. ASSUME NEW v \in Workers PROVE WorksForBatch(v)'
    <3>1. CASE v = w
      <4>1. recalculation'.phase = "running"
        BY <1>a, <2>11, <2>12, <3>1 DEF WorksForBatch, Recalculating
      <4>2. /\ row.source = "fallback_naive" => recalculation'.kind # "none"
            /\ row.reason \in Diagnoses => recalculation'.kind \in Diagnoses
        BY <2>4, <2>5, <2>6, <3>1, Fields
      <4> QED BY <2>2, <2>8, <3>1, <4>1, <4>2 DEF WorksForBatch, Told
    <3>2. CASE v # w BY <1>a, <2>8, <2>10, <2>11, <3>2 DEF WorksForBatch, Told
    <3> QED BY <3>1, <3>2
  <2>14. \A p \in Menu : Told(recalculation.rows[p])' BY <1>a, <2>10, <2>11 DEF Told
  <2> QED BY <2>9, <2>13, <2>14 DEF HealthyInv
<1>4. CASE FindRow(w)
  <2> DEFINE held == [forecastLoc[w] EXCEPT !.seen = prediction[ProductOf(w)]]
  <2>1. forecastPc[w] = "find" /\ ForecastGo(w, "save", held) /\ UNCHANGED recalculation
    BY <1>4 DEF FindRow
  <2>2. DOMAIN held = DOMAIN ForecastNothing /\ held.row = forecastLoc[w].row BY <1>b
  <2> HIDE DEF held
  <2>3. /\ forecastPc' \in [ForecastStaff -> ForecastLabels]
        /\ DOMAIN forecastLoc' = ForecastStaff
        /\ \A v \in ForecastStaff : DOMAIN forecastLoc'[v] = DOMAIN ForecastNothing
        /\ forecastPc'[w] = "save" /\ forecastLoc'[w] = held
        /\ \A v \in ForecastStaff : v # w => forecastPc'[v] = forecastPc[v]
                                             /\ forecastLoc'[v] = forecastLoc[v]
    <3>1. "save" \in ForecastLabels BY DEF ForecastLabels
    <3> QED BY <1>a, <2>1, <2>2, <3>1, ForecastWalk
  <2>4. ForecastShape' BY <1>a, <2>1, <2>3 DEF ForecastShape
  <2>5. \A v \in Workers : WorksForBatch(v)'
    BY <1>a, <2>1, <2>2, <2>3 DEF WorksForBatch, Recalculating, Told
  <2> QED BY <1>a, <2>1, <2>4, <2>5 DEF HealthyInv, Told
<1>5. CASE SaveRow(w)
  <2>1. forecastPc[w] = "save" /\ ForecastGo(w, "idle", ForecastNothing)
    BY <1>5 DEF SaveRow, ForecastDone
  <2>2. /\ forecastPc' \in [ForecastStaff -> ForecastLabels]
        /\ DOMAIN forecastLoc' = ForecastStaff
        /\ \A v \in ForecastStaff : DOMAIN forecastLoc'[v] = DOMAIN ForecastNothing
        /\ forecastPc'[w] = "idle"
        /\ \A v \in ForecastStaff : v # w => forecastPc'[v] = forecastPc[v]
                                             /\ forecastLoc'[v] = forecastLoc[v]
    <3>1. "idle" \in ForecastLabels BY DEF ForecastLabels
    <3> QED BY <1>a, <2>1, <3>1, ForecastWalk
  <2>3. PICK p, f :
          \/ UNCHANGED recalculation
          \/ recalculation' = [recalculation EXCEPT !.failed = f]
          \/ w \in Workers /\ recalculation' = [recalculation EXCEPT !.rows[p] = forecastLoc[w].row]
    BY <1>5 DEF SaveRow
  <2>4. /\ DOMAIN recalculation' = DOMAIN NoBatchYet
        /\ DOMAIN recalculation'.rows = Menu
        /\ recalculation'.phase = recalculation.phase
        /\ recalculation'.kind = recalculation.kind
        /\ \A q \in Menu : \/ recalculation'.rows[q] = recalculation.rows[q]
                           \/ w \in Workers /\ recalculation'.rows[q] = forecastLoc[w].row
    <3>1. CASE UNCHANGED recalculation BY <1>a, <3>1 DEF ForecastShape
    <3>2. CASE recalculation' = [recalculation EXCEPT !.failed = f]
      BY <1>a, <3>2, Fields DEF ForecastShape
    <3>3. CASE /\ w \in Workers
               /\ recalculation' = [recalculation EXCEPT !.rows[p] = forecastLoc[w].row]
      BY <1>a, <3>3, Fields DEF ForecastShape
    <3> QED BY <2>3, <3>1, <3>2, <3>3
  <2>5. ForecastShape' BY <1>a, <2>2, <2>4 DEF ForecastShape
  <2>6. \A v \in Workers : WorksForBatch(v)'
    BY <1>a, <2>2, <2>4 DEF WorksForBatch, Recalculating, Told
  <2>7. w \in Workers => Told(forecastLoc[w].row)
    BY <1>a, <2>1 DEF WorksForBatch
  <2> QED BY <1>a, <2>4, <2>5, <2>6, <2>7 DEF HealthyInv, Told
<1> QED BY <1>1, <1>2, <1>3, <1>4, <1>5 DEF RecalculationStep

(* A batch that answers without a degradation holds no naive row, and one  *)
(* that holds a row with a diagnosis answers with a diagnosis, for any     *)
(* number of workers and products, with managers recalculating single      *)
(* products, deletions and the Sunday cron in between: a worker reports    *)
(* before it saves, what it reports beats an outage only, and a new batch  *)
(* starts with its workers done (batchRecalculate, onAiFailure).           *)
THEOREM HealthyCorrect == SpecForecast => []HealthyBatchIsModelMade
<1>1. InitForecast => HealthyInv
  <2> SUFFICES ASSUME InitForecast PROVE HealthyInv OBVIOUS
  <2>1. /\ recalculation = NoBatchYet
        /\ forecastPc = [w \in ForecastStaff |-> "idle"]
        /\ forecastLoc = [w \in ForecastStaff |-> ForecastNothing]
    BY DEF InitForecast
  <2>2. ForecastShape BY <2>1, Fields DEF ForecastShape, ForecastLabels
  <2>3. \A w \in Workers : WorksForBatch(w)
    BY <2>1 DEF WorksForBatch, Recalculating, ForecastStaff
  <2>4. \A p \in Menu : Told(recalculation.rows[p]) BY <2>1, Fields DEF Told
  <2> QED BY <2>2, <2>3, <2>4 DEF HealthyInv
<1>2. HealthyInv /\ [NextForecast]_forecastVars => HealthyInv'
  <2> SUFFICES ASSUME HealthyInv, [NextForecast]_forecastVars PROVE HealthyInv' OBVIOUS
  <2>a. ForecastShape /\ (\A v \in Workers : WorksForBatch(v)) /\ Workers \subseteq ForecastStaff
    BY DEF HealthyInv, ForecastStaff
  <2>1. CASE StartBatch
    <3>1. PICK menuSeq :
            recalculation' = [NoBatchYet EXCEPT !.phase = "running", !.todo = menuSeq]
      BY <2>1 DEF StartBatch
    <3>2. /\ DOMAIN recalculation' = DOMAIN NoBatchYet
          /\ recalculation'.rows = [p \in Menu |-> NoRow] /\ recalculation'.phase = "running"
          /\ recalculation'.kind = "none"
      BY <3>1, Fields
    <3>3. recalculation.phase # "running" /\ UNCHANGED <<forecastPc, forecastLoc>>
      BY <2>1 DEF StartBatch
    <3>4. \A w \in Workers : forecastPc[w] \notin Recalculating
      BY <2>a, <3>3 DEF WorksForBatch
    <3>5. ForecastShape' BY <2>a, <3>2, <3>3 DEF ForecastShape
    <3>6. \A w \in Workers : WorksForBatch(w)'
      BY <3>2, <3>3, <3>4 DEF WorksForBatch, Recalculating
    <3>7. \A p \in Menu : Told(recalculation.rows[p])' BY <3>2, Fields DEF Told
    <3> QED BY <3>5, <3>6, <3>7 DEF HealthyInv
  <2>2. CASE FinishBatch
    <3>1. /\ recalculation' = [recalculation EXCEPT !.phase = "answered"]
          /\ \A w \in Workers : forecastPc[w] = "idle"
          /\ UNCHANGED <<forecastPc, forecastLoc>>
      BY <2>2 DEF FinishBatch
    <3>2. /\ DOMAIN recalculation' = DOMAIN NoBatchYet
          /\ recalculation'.rows = recalculation.rows
          /\ recalculation'.kind = recalculation.kind
      BY <2>a, <3>1, Fields DEF ForecastShape
    <3>3. ForecastShape' BY <2>a, <3>1, <3>2 DEF ForecastShape
    <3>4. \A w \in Workers : WorksForBatch(w)' BY <3>1 DEF WorksForBatch, Recalculating
    <3> QED BY <3>2, <3>3, <3>4 DEF HealthyInv, Told
  <2>3. ASSUME NEW w \in ForecastStaff, RecalculationStep(w) PROVE HealthyInv'
    BY <2>3, RecalculationKeeps
  <2>4. ASSUME NEW w \in ForecastStaff, ReconciliationStep(w) PROVE HealthyInv'
    <3>1. UNCHANGED recalculation
      BY <2>4 DEF ReconciliationStep, ReadRows, ReadSales, WriteErrors
    <3>2. DOMAIN forecastLoc[w] = DOMAIN ForecastNothing BY <2>a DEF ForecastShape
    <3>e. \E label \in {"sales", "errors", "idle"} : \E held :
             DOMAIN held = DOMAIN ForecastNothing /\ ForecastGo(w, label, held)
      <4>1. CASE ReadRows(w) BY <4>1, Fields DEF ReadRows
      <4>2. CASE ReadSales(w) BY <3>2, <4>2, Fields DEF ReadSales
      <4>3. CASE WriteErrors(w) BY <4>3 DEF WriteErrors, ForecastDone
      <4> QED BY <2>4, <4>1, <4>2, <4>3 DEF ReconciliationStep
    <3>3. PICK label, held :
            /\ label \in {"sales", "errors", "idle"}
            /\ DOMAIN held = DOMAIN ForecastNothing /\ ForecastGo(w, label, held)
      BY <3>e
    <3>4. label \in ForecastLabels BY <3>3 DEF ForecastLabels
    <3>5. /\ forecastPc' \in [ForecastStaff -> ForecastLabels]
          /\ DOMAIN forecastLoc' = ForecastStaff
          /\ \A v \in ForecastStaff : DOMAIN forecastLoc'[v] = DOMAIN ForecastNothing
          /\ forecastPc'[w] \in {"sales", "errors", "idle"}
          /\ \A v \in ForecastStaff : v # w => forecastPc'[v] = forecastPc[v]
                                               /\ forecastLoc'[v] = forecastLoc[v]
      BY <2>a, <3>3, <3>4, ForecastWalk
    <3>6. ForecastShape' BY <2>a, <3>1, <3>5 DEF ForecastShape
    <3>7. \A v \in Workers : WorksForBatch(v)'
      BY <2>a, <3>1, <3>5 DEF WorksForBatch, Recalculating, Told
    <3> QED BY <3>1, <3>6, <3>7 DEF HealthyInv, Told
  <2>5. CASE SellInWeek \/ DeleteFromMenu \/ UNCHANGED forecastVars
    <3>1. UNCHANGED <<recalculation, forecastPc, forecastLoc>>
      BY <2>5 DEF SellInWeek, DeleteFromMenu, forecastVars
    <3> QED BY <3>1 DEF HealthyInv, ForecastShape, WorksForBatch, Told
  <2> QED BY <2>1, <2>2, <2>3, <2>4, <2>5 DEF NextForecast
<1>3. HealthyInv => HealthyBatchIsModelMade
  BY DEF HealthyInv, HealthyBatchIsModelMade, Told
<1> QED BY <1>1, <1>2, <1>3, PTL DEF SpecForecast

-------------------------------------------------------------------------------
(* Purchase orders.                                                        *)
Origins == {<<0, NoSupplier>>} \cup ((0..Purchases) \X Ingredients)

(* The documents have their fields, and a batch has an origin. *)
SupplyDocsOK ==
    /\ DOMAIN batch = 1..Shelf
    /\ \A b \in 1..Shelf : DOMAIN batch[b] = DOMAIN NoBatch /\ batch[b].from \in Origins
    /\ DOMAIN purchase = 1..Purchases
    /\ \A n \in 1..Purchases : /\ DOMAIN purchase[n] = DOMAIN NoPurchase
                               /\ DOMAIN purchase[n].items = Ingredients

HeldShaped(held) == /\ DOMAIN held = DOMAIN SupplyNothing
                    /\ DOMAIN held.doc = DOMAIN NoPurchase
                    /\ DOMAIN held.doc.items = Ingredients

SupplyControlOK ==
    /\ DOMAIN supplyPc = SupplyStaff
    /\ DOMAIN supplyLoc = SupplyStaff
    /\ \A p \in SupplyStaff : HeldShaped(supplyLoc[p])

Marking == {"receive", "setStatus"}

Ordered(b) == batch[b].from[1] # 0

(* A desk that marks an order holds an open one, and what it has received  *)
(* of it is off its list.                                                  *)
MarkingOpen(p) ==
    /\ supplyPc[p] \in Marking =>
          /\ p \in Desks
          /\ supplyLoc[p].id \in 1..Purchases
          /\ purchase[supplyLoc[p].id].status \in OpenStatuses
    /\ supplyPc[p] = "receive" =>
          \A b \in 1..Shelf : batch[b].from[1] = supplyLoc[p].id
                                 => supplyLoc[p].doc.items[batch[b].from[2]] = 0

(* Batches of an order that is not marked yet are its receiver's.          *)
BeingReceived(b) ==
    Ordered(b) /\ purchase[batch[b].from[1]].status \in OpenStatuses \cup {"none"}
       => \E p \in SupplyStaff : supplyPc[p] = "receive" /\ supplyLoc[p].id = batch[b].from[1]

ReceiptInv ==
    /\ SupplyDocsOK /\ SupplyControlOK
    /\ \A p \in SupplyStaff : MarkingOpen(p)
    /\ \A b \in 1..Shelf : BeingReceived(b)
    /\ ReceivedAtMostOnce

(* No two desks receive or mark one order at a time.                       *)
ReceiptsApart == \A p, q \in SupplyStaff :
    p # q /\ supplyPc[p] \in Marking /\ supplyPc[q] \in Marking =>
        supplyLoc[p].id # supplyLoc[q].id

LEMMA SupplyFields ==
    /\ DOMAIN NoBatch = {"of", "got", "left", "expiry", "from"}
    /\ DOMAIN NoPurchase = {"status", "items", "due", "source"}
    /\ DOMAIN SupplyNothing = {"dish", "needs", "of", "qty", "writes", "id", "doc", "todo"}
    /\ NoBatch.from = <<0, NoSupplier>> /\ NoBatch.from \in Origins
    /\ NoPurchase.status = "none" /\ DOMAIN NoPurchase.items = Ingredients
    /\ SupplyNothing.doc = NoPurchase
    /\ HeldShaped(SupplyNothing)
    /\ "none" \notin OpenStatuses
BY SupplyAssumption
DEF NoBatch, NoPurchase, SupplyNothing, NoItems, Origins, HeldShaped, OpenStatuses

LEMMA SupplyWalk ==
    ASSUME SupplyControlOK, NEW p \in SupplyStaff, NEW label, NEW held, HeldShaped(held),
           SupplyGo(p, label, held)
    PROVE  /\ SupplyControlOK'
           /\ supplyPc'[p] = label /\ supplyLoc'[p] = held
           /\ \A q \in SupplyStaff : q # p => supplyPc'[q] = supplyPc[q]
                                              /\ supplyLoc'[q] = supplyLoc[q]
BY DEF SupplyControlOK, SupplyGo, HeldShaped

(* The fields that only the receiver's and the marker's steps care about.  *)
LEMMA HeldRewritten ==
    ASSUME NEW l, HeldShaped(l), NEW v,
           NEW k \in {"dish", "needs", "of", "qty", "writes", "id", "todo"}
    PROVE  /\ DOMAIN [l EXCEPT ![k] = v] = DOMAIN SupplyNothing
           /\ [l EXCEPT ![k] = v].doc = l.doc
           /\ HeldShaped([l EXCEPT ![k] = v])
BY SupplyFields DEF HeldShaped

(* A step that marks no order: orders keep their status or are created,    *)
(* batches keep their origin or are created without an order.              *)
LEMMA QuietStep ==
    ASSUME ReceiptInv, SupplyDocsOK', SupplyControlOK',
           \A n \in 1..Purchases : purchase'[n].status = purchase[n].status
                                   \/ purchase[n].status = "none",
           \A b \in 1..Shelf : batch'[b].from = batch[b].from \/ batch'[b].from[1] = 0,
           \A q \in SupplyStaff :
              \/ supplyPc'[q] = supplyPc[q] /\ supplyLoc'[q] = supplyLoc[q]
              \/ supplyPc[q] \notin Marking /\ supplyPc'[q] \notin Marking
    PROVE  ReceiptInv'
<1>1. ASSUME NEW p \in SupplyStaff PROVE MarkingOpen(p)'
  <2> SUFFICES ASSUME supplyPc'[p] \in Marking PROVE MarkingOpen(p)'
    BY DEF MarkingOpen, Marking
  <2>1. supplyPc'[p] = supplyPc[p] /\ supplyLoc'[p] = supplyLoc[p] OBVIOUS
  <2>2. MarkingOpen(p) BY DEF ReceiptInv
  <2>3. supplyLoc[p].id \in 1..Purchases BY <2>1, <2>2 DEF MarkingOpen
  <2>4. purchase'[supplyLoc[p].id].status \in OpenStatuses
    BY <2>1, <2>2, <2>3, SupplyFields DEF MarkingOpen
  <2>5. supplyLoc[p].id # 0 BY <2>3, SupplyAssumption
  <2> QED BY <2>1, <2>2, <2>3, <2>4, <2>5 DEF MarkingOpen
<1>2. ASSUME NEW b \in 1..Shelf PROVE BeingReceived(b)'
  <2> DEFINE n == batch[b].from[1]
  <2> SUFFICES ASSUME batch'[b].from = batch[b].from, n # 0,
                      purchase'[n].status \in OpenStatuses \cup {"none"}
               PROVE  \E p \in SupplyStaff : supplyPc'[p] = "receive" /\ supplyLoc'[p].id = n
    BY DEF BeingReceived, Ordered
  <2>1. n \in 1..Purchases BY SupplyAssumption DEF ReceiptInv, SupplyDocsOK, Origins
  <2>2. PICK p \in SupplyStaff : supplyPc[p] = "receive" /\ supplyLoc[p].id = n
    BY <2>1, SupplyFields DEF ReceiptInv, BeingReceived, Ordered
  <2> QED BY <2>2 DEF Marking
<1>3. ReceivedAtMostOnce' BY DEF ReceiptInv, ReceivedAtMostOnce
<1> QED BY <1>1, <1>2, <1>3 DEF ReceiptInv

LEMMA SupplyDoneGoes ==
    ASSUME NEW p, SupplyDone(p) PROVE SupplyGo(p, "idle", SupplyNothing)
BY DEF SupplyDone, SupplyGo

(* A handler that marks nothing goes on, and the documents it may not      *)
(* touch stay.                                                             *)
LEMMA QuietWalk ==
    ASSUME ReceiptInv, NEW p \in SupplyStaff, NEW label, NEW held, SupplyGo(p, label, held),
           HeldShaped(held), supplyPc[p] \notin Marking, label \notin Marking,
           SupplyDocsOK',
           \A n \in 1..Purchases : purchase'[n].status = purchase[n].status
                                   \/ purchase[n].status = "none",
           \A b \in 1..Shelf : batch'[b].from = batch[b].from \/ batch'[b].from[1] = 0
    PROVE  ReceiptInv'
<1>1. SupplyControlOK BY DEF ReceiptInv
<1>2. SupplyControlOK' BY <1>1, SupplyWalk
<1>3. \A q \in SupplyStaff :
         \/ supplyPc'[q] = supplyPc[q] /\ supplyLoc'[q] = supplyLoc[q]
         \/ supplyPc[q] \notin Marking /\ supplyPc'[q] \notin Marking
  BY <1>1, SupplyWalk
<1> QED BY <1>2, <1>3, QuietStep

(* The same when no document changes at all.                               *)
LEMMA QuietMove ==
    ASSUME ReceiptInv, NEW p \in SupplyStaff, NEW label, NEW held, SupplyGo(p, label, held),
           HeldShaped(held), supplyPc[p] \notin Marking, label \notin Marking,
           UNCHANGED <<batch, purchase>>
    PROVE  ReceiptInv'
<1>1. SupplyDocsOK' BY DEF ReceiptInv, SupplyDocsOK
<1> QED BY <1>1, QuietWalk

LEMMA NothingRewritten ==
    ASSUME NEW v, NEW w, NEW x, NEW y
    PROVE  /\ HeldShaped([SupplyNothing EXCEPT !.of = v, !.qty = w])
           /\ HeldShaped([SupplyNothing EXCEPT !.of = v, !.qty = w, !.id = x])
           /\ HeldShaped([SupplyNothing EXCEPT !.writes = v])
           /\ HeldShaped([SupplyNothing EXCEPT !.dish = v, !.needs = w])
BY SupplyFields DEF HeldShaped

LEMMA CookReceipt ==
    ASSUME ReceiptInv, NEW p \in SupplyStaff, CookStep(p)
    PROVE  ReceiptInv'
<1> DEFINE l == supplyLoc[p]
<1>l. HeldShaped(l) BY DEF ReceiptInv, SupplyControlOK
<1>n. HeldShaped(SupplyNothing) BY SupplyFields, Zenon
<1>1. CASE RecordUse(p)
  <2>1. UNCHANGED <<batch, purchase>> /\ supplyPc[p] \notin Marking BY <1>1 DEF RecordUse, Marking
  <2>2. PICK i, q, b :
           \/ SupplyGo(p, "read", [SupplyNothing EXCEPT !.of = i, !.qty = q])
           \/ SupplyGo(p, "readNamed", [SupplyNothing EXCEPT !.of = i, !.qty = q, !.id = b])
    BY <1>1 DEF RecordUse
  <2>3. "read" \notin Marking /\ "readNamed" \notin Marking BY DEF Marking
  <2> QED BY <2>1, <2>2, <2>3, NothingRewritten, QuietMove, Zenon
<1>2. CASE ReadNamedBatch(p)
  <2>1. UNCHANGED <<batch, purchase>> /\ supplyPc[p] \notin Marking
    BY <1>2 DEF ReadNamedBatch, Marking
  <2>2. PICK w : \/ SupplyGo(p, "write", [SupplyNothing EXCEPT !.writes = w])
                 \/ SupplyGo(p, "idle", SupplyNothing)
    BY <1>2, SupplyDoneGoes, Zenon DEF ReadNamedBatch
  <2>3. "write" \notin Marking /\ "idle" \notin Marking BY DEF Marking
  <2> QED BY <1>n, <2>1, <2>2, <2>3, NothingRewritten, QuietMove, Zenon
<1>3. CASE ServeDish(p)
  <2>1. UNCHANGED <<batch, purchase>> /\ supplyPc[p] \notin Marking BY <1>3 DEF ServeDish, Marking
  <2>2. PICK d, needs : SupplyGo(p, "take", [SupplyNothing EXCEPT !.dish = d, !.needs = needs])
    BY <1>3 DEF ServeDish
  <2>3. "take" \notin Marking BY DEF Marking
  <2> QED BY <2>1, <2>2, <2>3, NothingRewritten, QuietMove, Zenon
<1>4. CASE RecordServing(p)
  <2>1. UNCHANGED <<batch, purchase>> /\ supplyPc[p] \notin Marking
    BY <1>4 DEF RecordServing, Marking
  <2>2. PICK i, q : SupplyGo(p, "read", [l EXCEPT !.needs = @ \ {i}, !.of = i, !.qty = q])
    BY <1>4 DEF RecordServing
  <2>3. HeldShaped([l EXCEPT !.needs = @ \ {i}, !.of = i, !.qty = q])
    BY <1>l, SupplyFields DEF HeldShaped
  <2>4. "read" \notin Marking BY DEF Marking
  <2> QED BY <2>1, <2>2, <2>3, <2>4, QuietMove
<1>5. CASE ReadBatches(p)
  <2>1. UNCHANGED <<batch, purchase>> /\ supplyPc[p] \notin Marking
    BY <1>5 DEF ReadBatches, Marking
  <2>2. PICK w : SupplyGo(p, "write", [l EXCEPT !.writes = w]) BY <1>5 DEF ReadBatches
  <2>3. HeldShaped([l EXCEPT !.writes = w]) BY <1>l, HeldRewritten
  <2>4. "write" \notin Marking BY DEF Marking
  <2> QED BY <2>1, <2>2, <2>3, <2>4, QuietMove
<1>6. CASE WriteBatch(p)
  <2>1. UNCHANGED purchase /\ supplyPc[p] \notin Marking BY <1>6 DEF WriteBatch, Marking
  <2>2. PICK c, w :
           /\ batch' = [batch EXCEPT ![c].left = l.writes[c]]
           /\ SupplyGo(p, "write", [l EXCEPT !.writes = w])
    BY <1>6 DEF WriteBatch
  <2>3. DOMAIN batch' = DOMAIN batch BY <2>2
  <2>4. \A b \in 1..Shelf : DOMAIN batch'[b] = DOMAIN batch[b] /\ batch'[b].from = batch[b].from
    BY <2>2, SupplyFields DEF ReceiptInv, SupplyDocsOK
  <2>5. SupplyDocsOK' BY <2>1, <2>3, <2>4 DEF ReceiptInv, SupplyDocsOK
  <2>6. HeldShaped([l EXCEPT !.writes = w]) BY <1>l, HeldRewritten
  <2>7. "write" \notin Marking BY DEF Marking
  <2> QED BY <2>1, <2>2, <2>4, <2>5, <2>6, <2>7, QuietWalk
<1>7. CASE FinishTaking(p)
  <2>1. UNCHANGED <<batch, purchase>> /\ supplyPc[p] \notin Marking
    BY <1>7 DEF FinishTaking, Marking
  <2>2. SupplyGo(p, "idle", SupplyNothing) \/ SupplyGo(p, "take", l)
    BY <1>7, SupplyDoneGoes DEF FinishTaking
  <2>3. "take" \notin Marking /\ "idle" \notin Marking BY DEF Marking
  <2> QED BY <1>l, <1>n, <2>1, <2>2, <2>3, QuietMove
<1> QED BY <1>1, <1>2, <1>3, <1>4, <1>5, <1>6, <1>7 DEF CookStep

LEMMA ForecasterReceipt ==
    ASSUME ReceiptInv, NEW p \in SupplyStaff, ForecasterStep(p)
    PROVE  ReceiptInv'
<1> DEFINE l == supplyLoc[p]
<1>l. HeldShaped(l) BY DEF ReceiptInv, SupplyControlOK
<1>n. HeldShaped(SupplyNothing) BY SupplyFields
<1>m. {"compare", "findDraft", "saveDraft", "idle"} \cap Marking = {} BY DEF Marking
<1>1. CASE Recalculate(p)
  <2>1. UNCHANGED <<batch, purchase>> /\ supplyPc[p] \notin Marking
    BY <1>1 DEF Recalculate, Marking
  <2>2. SupplyGo(p, "compare", SupplyNothing) BY <1>1 DEF Recalculate
  <2> QED BY <1>m, <1>n, <2>1, <2>2, QuietMove
<1>2. CASE CompareStock(p)
  <2>1. UNCHANGED <<batch, purchase>> /\ supplyPc[p] \notin Marking
    BY <1>2 DEF CompareStock, Marking
  <2> DEFINE short == Shortfall
  <2>2. DOMAIN short = Ingredients BY DEF Shortfall
  <2> HIDE DEF short
  <2>3. PICK t : SupplyGo(p, "findDraft", [SupplyNothing EXCEPT !.doc.items = short, !.todo = t])
    BY <1>2 DEF CompareStock, short
  <2>4. HeldShaped([SupplyNothing EXCEPT !.doc.items = short, !.todo = t])
    BY <2>2, SupplyFields DEF HeldShaped
  <2> QED BY <1>m, <2>1, <2>3, <2>4, QuietMove
<1>3. CASE FindDraft(p)
  <2>1. UNCHANGED <<batch, purchase>> /\ supplyPc[p] \notin Marking
    BY <1>3 DEF FindDraft, Marking
  <2>2. PICK s, n : SupplyGo(p, "saveDraft", [l EXCEPT !.todo = @ \ {s}, !.dish = s, !.id = n])
    BY <1>3 DEF FindDraft
  <2>3. HeldShaped([l EXCEPT !.todo = @ \ {s}, !.dish = s, !.id = n])
    BY <1>l, SupplyFields DEF HeldShaped
  <2> QED BY <1>m, <2>1, <2>2, <2>3, QuietMove
<1>4. CASE SaveDraft(p)
  <2> DEFINE items == ItemsFor(l.dish, l.doc.items)
             draft == [status |-> "draft", items |-> items, due |-> Week, source |-> "ai_forecast"]
  <2>1. DOMAIN items = Ingredients BY DEF ItemsFor
  <2>2. UNCHANGED batch /\ supplyPc[p] \notin Marking /\ SupplyGo(p, "findDraft", l)
    BY <1>4 DEF SaveDraft, Marking
  <2>3. PICK n : \/ purchase' = [purchase EXCEPT ![n].items = items]
                 \/ purchase[n] = NoPurchase /\ purchase' = [purchase EXCEPT ![n] = draft]
    BY <1>4 DEF SaveDraft
  <2>4. DOMAIN draft = DOMAIN NoPurchase /\ draft.items = items BY SupplyFields
  <2> HIDE DEF items, draft
  <2>5. DOMAIN purchase' = 1..Purchases BY <2>3 DEF ReceiptInv, SupplyDocsOK
  <2>6. \A m \in 1..Purchases : /\ DOMAIN purchase'[m] = DOMAIN NoPurchase
                                /\ DOMAIN purchase'[m].items = Ingredients
                                /\ \/ purchase'[m].status = purchase[m].status
                                   \/ purchase[m].status = "none"
    <3> SUFFICES ASSUME NEW m \in 1..Purchases
                 PROVE  /\ DOMAIN purchase'[m] = DOMAIN NoPurchase
                        /\ DOMAIN purchase'[m].items = Ingredients
                        /\ \/ purchase'[m].status = purchase[m].status
                           \/ purchase[m].status = "none"
      OBVIOUS
    <3>1. /\ DOMAIN purchase = 1..Purchases /\ DOMAIN purchase[m] = DOMAIN NoPurchase
          /\ DOMAIN purchase[m].items = Ingredients
      BY DEF ReceiptInv, SupplyDocsOK
    <3>2. CASE purchase' = [purchase EXCEPT ![n].items = items]
      BY <2>1, <3>1, <3>2, SupplyFields
    <3>3. CASE purchase[n] = NoPurchase /\ purchase' = [purchase EXCEPT ![n] = draft]
      BY <2>1, <2>4, <3>1, <3>3, SupplyFields
    <3> QED BY <2>3, <3>2, <3>3
  <2>7. SupplyDocsOK' BY <2>2, <2>5, <2>6 DEF ReceiptInv, SupplyDocsOK
  <2> QED BY <1>l, <1>m, <2>2, <2>6, <2>7, QuietWalk
<1>5. CASE DraftsDone(p)
  <2>1. UNCHANGED <<batch, purchase>> /\ supplyPc[p] \notin Marking
    BY <1>5 DEF DraftsDone, Marking
  <2>2. SupplyGo(p, "idle", SupplyNothing) BY <1>5, SupplyDoneGoes DEF DraftsDone
  <2> QED BY <1>m, <1>n, <2>1, <2>2, QuietMove
<1> QED BY <1>1, <1>2, <1>3, <1>4, <1>5 DEF ForecasterStep

(* A desk that starts to mark an open order: when no other is at it,       *)
(* nothing of that order is on a shelf yet.                                *)
LEMMA MarkingStarts ==
    ASSUME ReceiptInv, ReceiptsApart', NEW p \in Desks, supplyPc[p] = "idle",
           NEW label \in Marking, NEW held, SupplyGo(p, label, held), HeldShaped(held),
           held.id \in 1..Purchases, purchase[held.id].status \in OpenStatuses,
           UNCHANGED <<batch, purchase>>
    PROVE  ReceiptInv'
<1>0. p \in SupplyStaff /\ SupplyControlOK BY DEF SupplyStaff, ReceiptInv
<1>1. SupplyDocsOK' /\ ReceivedAtMostOnce' BY DEF ReceiptInv, SupplyDocsOK, ReceivedAtMostOnce
<1>2. SupplyControlOK' BY <1>0, SupplyWalk
<1>3. supplyPc'[p] = label /\ supplyLoc'[p] = held BY <1>0, SupplyWalk
<1>4. \A q \in SupplyStaff : q # p => supplyPc'[q] = supplyPc[q] /\ supplyLoc'[q] = supplyLoc[q]
  BY <1>0, SupplyWalk
<1>5. \A q \in SupplyStaff : supplyPc[q] \in Marking => supplyLoc[q].id # held.id
  <2> SUFFICES ASSUME NEW q \in SupplyStaff, supplyPc[q] \in Marking
               PROVE  supplyLoc[q].id # held.id
    OBVIOUS
  <2>1. q # p BY DEF Marking
  <2> QED BY <1>0, <1>3, <1>4, <2>1 DEF ReceiptsApart
<1>6. ASSUME NEW q \in SupplyStaff PROVE MarkingOpen(q)'
  <2>1. CASE q # p BY <1>4, <2>1 DEF ReceiptInv, MarkingOpen, Marking
  <2>2. CASE q = p
    <3>1. ASSUME NEW b \in 1..Shelf PROVE batch[b].from[1] # held.id
      <4> SUFFICES ASSUME batch[b].from[1] = held.id PROVE FALSE OBVIOUS
      <4>1. Ordered(b) BY SupplyAssumption DEF Ordered
      <4> QED BY <1>5, <4>1 DEF ReceiptInv, BeingReceived, Marking
    <3> QED BY <1>3, <2>2, <3>1 DEF MarkingOpen
  <2> QED BY <2>1, <2>2
<1>7. ASSUME NEW b \in 1..Shelf PROVE BeingReceived(b)'
  <2>1. \A q \in SupplyStaff : supplyPc[q] = "receive" => q # p OBVIOUS
  <2> QED BY <1>4, <2>1 DEF ReceiptInv, BeingReceived, Ordered
<1> QED BY <1>1, <1>2, <1>6, <1>7 DEF ReceiptInv

(* The desk that marks an order gives it its status and is idle again: the *)
(* order is closed, or nothing of it has come in.                          *)
LEMMA MarkingEnds ==
    ASSUME ReceiptInv, ReceiptsApart, NEW p \in SupplyStaff, NEW status,
           \/ supplyPc[p] = "receive" /\ status = "received"
           \/ supplyPc[p] = "setStatus",
           SetPurchase(p, status), SupplyDone(p), UNCHANGED batch
    PROVE  ReceiptInv'
<1> DEFINE id == supplyLoc[p].id
<1>0. SupplyControlOK /\ SupplyDocsOK BY DEF ReceiptInv
<1>1. p \in Desks /\ id \in 1..Purchases BY DEF ReceiptInv, MarkingOpen, Marking
<1>2. SupplyGo(p, "idle", SupplyNothing) BY SupplyDoneGoes
<1>3. SupplyControlOK' BY <1>0, <1>2, SupplyFields, SupplyWalk
<1>4. /\ supplyPc'[p] = "idle"
      /\ \A q \in SupplyStaff : q # p => supplyPc'[q] = supplyPc[q] /\ supplyLoc'[q] = supplyLoc[q]
  BY <1>0, <1>2, SupplyFields, SupplyWalk
<1>5. purchase' = [purchase EXCEPT ![id].status = status] BY DEF SetPurchase
<1>6. SupplyDocsOK' BY <1>0, <1>5, SupplyFields DEF SupplyDocsOK
<1>7. \A n \in 1..Purchases : n # id => purchase'[n] = purchase[n] BY <1>0, <1>5 DEF SupplyDocsOK
<1>8. purchase'[id].status = status BY <1>0, <1>1, <1>5, SupplyFields DEF SupplyDocsOK
<1>9. \A q \in SupplyStaff : q # p /\ supplyPc[q] \in Marking => supplyLoc[q].id # id
  BY DEF ReceiptsApart, Marking
<1>10. ASSUME NEW q \in SupplyStaff PROVE MarkingOpen(q)'
  <2>1. CASE q = p BY <1>4, <2>1 DEF MarkingOpen, Marking
  <2>2. CASE q # p
    <3>1. MarkingOpen(q) /\ supplyPc'[q] = supplyPc[q] /\ supplyLoc'[q] = supplyLoc[q]
      BY <1>4, <2>2 DEF ReceiptInv
    <3>2. supplyPc[q] \in Marking =>
             purchase'[supplyLoc[q].id] = purchase[supplyLoc[q].id]
      BY <1>7, <1>9, <2>2, <3>1 DEF MarkingOpen
    <3> QED BY <3>1, <3>2 DEF MarkingOpen, Marking
  <2> QED BY <2>1, <2>2
<1>11. ASSUME NEW b \in 1..Shelf PROVE BeingReceived(b)'
  <2> DEFINE n == batch[b].from[1]
  <2> SUFFICES ASSUME n # 0, purchase'[n].status \in OpenStatuses \cup {"none"}
               PROVE  \E q \in SupplyStaff : supplyPc'[q] = "receive" /\ supplyLoc'[q].id = n
    BY DEF BeingReceived, Ordered
  <2>1. n \in 1..Purchases BY <1>0, SupplyAssumption DEF SupplyDocsOK, Origins
  <2>2. CASE n # id
    <3>1. PICK q \in SupplyStaff : supplyPc[q] = "receive" /\ supplyLoc[q].id = n
      BY <1>7, <2>1, <2>2 DEF ReceiptInv, BeingReceived, Ordered
    <3>2. q # p BY <2>2, <3>1
    <3> QED BY <1>4, <3>1, <3>2
  <2>3. CASE n = id
    <3>1. status # "received" BY <1>8, <2>3 DEF OpenStatuses
    <3>2. supplyPc[p] = "setStatus" BY <3>1
    <3>3. purchase[n].status \in OpenStatuses BY <2>3, <3>2 DEF ReceiptInv, MarkingOpen, Marking
    <3>4. PICK q \in SupplyStaff : supplyPc[q] = "receive" /\ supplyLoc[q].id = n
      BY <3>3 DEF ReceiptInv, BeingReceived, Ordered
    <3>5. q # p BY <3>2, <3>4
    <3>6. supplyLoc[q].id # id BY <1>9, <3>4, <3>5 DEF Marking
    <3> QED BY <2>3, <3>4, <3>6
  <2> QED BY <2>2, <2>3
<1>12. ReceivedAtMostOnce' BY DEF ReceiptInv, ReceivedAtMostOnce
<1> QED BY <1>3, <1>6, <1>10, <1>11, <1>12 DEF ReceiptInv

(* One item of the order becomes a batch and leaves the desk's list.       *)
LEMMA ItemReceipt ==
    ASSUME ReceiptInv, ReceiptsApart, NEW p \in SupplyStaff, ReceiveItem(p)
    PROVE  ReceiptInv'
<1> DEFINE l == supplyLoc[p]
           id == supplyLoc[p].id
<1>0. SupplyControlOK /\ SupplyDocsOK /\ HeldShaped(l) BY DEF ReceiptInv, SupplyControlOK
<1>1. supplyPc[p] = "receive" /\ UNCHANGED purchase BY DEF ReceiveItem
<1>2. /\ p \in Desks /\ id \in 1..Purchases /\ purchase[id].status \in OpenStatuses
      /\ \A b \in 1..Shelf : batch[b].from[1] = id => l.doc.items[batch[b].from[2]] = 0
  BY <1>1 DEF ReceiptInv, MarkingOpen, Marking
<1>3. PICK i, c, e :
         /\ i \in Ingredients /\ c \in 1..Shelf
         /\ l.doc.items[i] > 0 /\ batch[c] = NoBatch
         /\ batch' = [batch EXCEPT ![c] = [of |-> i, got |-> l.doc.items[i],
                                           left |-> l.doc.items[i], expiry |-> e,
                                           from |-> <<id, i>>]]
         /\ SupplyGo(p, "receive", [l EXCEPT !.doc.items[i] = 0])
  BY DEF ReceiveItem
<1> DEFINE held == [l EXCEPT !.doc.items[i] = 0]
<1>4. /\ HeldShaped(held) /\ held.id = id
      /\ \A j \in Ingredients : held.doc.items[j] = IF j = i THEN 0 ELSE l.doc.items[j]
  BY <1>0, SupplyFields DEF HeldShaped
<1> HIDE DEF held
<1>5. SupplyControlOK' /\ supplyPc'[p] = "receive" /\ supplyLoc'[p] = held
  BY <1>0, <1>3, <1>4, SupplyWalk DEF held
<1>6. \A q \in SupplyStaff : q # p => supplyPc'[q] = supplyPc[q] /\ supplyLoc'[q] = supplyLoc[q]
  BY <1>0, <1>3, <1>4, SupplyWalk DEF held
<1>7. /\ DOMAIN batch' = 1..Shelf
      /\ DOMAIN batch'[c] = DOMAIN NoBatch /\ batch'[c].from = <<id, i>>
      /\ \A b \in 1..Shelf : b # c => batch'[b] = batch[b]
  BY <1>0, <1>3, SupplyFields DEF SupplyDocsOK
<1>8. <<id, i>> \in Origins BY <1>2, <1>3, SupplyAssumption DEF Origins
<1>9. SupplyDocsOK' BY <1>0, <1>1, <1>7, <1>8 DEF SupplyDocsOK
<1>10. \A q \in SupplyStaff : q # p /\ supplyPc[q] \in Marking => supplyLoc[q].id # id
  BY <1>1 DEF ReceiptsApart, Marking
<1>11. ASSUME NEW b \in 1..Shelf, b # c, batch[b].from[1] = id
       PROVE  batch[b].from[2] \in Ingredients /\ batch[b].from # <<id, i>>
  <2>1. id # 0 BY <1>2, SupplyAssumption
  <2> QED BY <1>0, <1>2, <1>3, <1>11, <2>1 DEF SupplyDocsOK, Origins
<1>12. ASSUME NEW q \in SupplyStaff PROVE MarkingOpen(q)'
  <2>1. CASE q # p
    <3>1. MarkingOpen(q) /\ supplyPc'[q] = supplyPc[q] /\ supplyLoc'[q] = supplyLoc[q]
      BY <1>6, <2>1 DEF ReceiptInv
    <3>2. supplyPc[q] = "receive" =>
            \A b \in 1..Shelf : batch'[b].from[1] = supplyLoc[q].id => batch'[b] = batch[b]
      BY <1>7, <1>10, <2>1 DEF Marking
    <3> QED BY <1>1, <3>1, <3>2 DEF MarkingOpen
  <2>2. CASE q = p
    <3>1. ASSUME NEW b \in 1..Shelf, batch'[b].from[1] = id
          PROVE  held.doc.items[batch'[b].from[2]] = 0
      <4>1. CASE b = c BY <1>3, <1>4, <1>7, <4>1
      <4>2. CASE b # c
        <5>1. batch'[b] = batch[b] /\ batch[b].from[1] = id BY <1>7, <3>1, <4>2
        <5>2. l.doc.items[batch[b].from[2]] = 0 BY <1>2, <5>1
        <5>3. batch[b].from[2] \in Ingredients BY <1>11, <4>2, <5>1
        <5> QED BY <1>4, <5>1, <5>2, <5>3
      <4> QED BY <4>1, <4>2
    <3> QED BY <1>1, <1>2, <1>4, <1>5, <2>2, <3>1 DEF MarkingOpen
  <2> QED BY <2>1, <2>2
<1>13. ASSUME NEW b \in 1..Shelf PROVE BeingReceived(b)'
  <2>1. CASE b = c BY <1>4, <1>5, <1>7, <2>1 DEF BeingReceived
  <2>2. CASE b # c
    <3>1. batch'[b] = batch[b] BY <1>7, <2>2
    <3>2. BeingReceived(b) BY DEF ReceiptInv
    <3>3. \A q \in SupplyStaff : supplyPc[q] = "receive"
              => supplyPc'[q] = "receive" /\ supplyLoc'[q].id = supplyLoc[q].id
      BY <1>4, <1>5, <1>6
    <3> QED BY <1>1, <3>1, <3>2, <3>3 DEF BeingReceived, Ordered
  <2> QED BY <2>1, <2>2
<1>14. ReceivedAtMostOnce'
  <2> SUFFICES ASSUME NEW a \in 1..Shelf, NEW b \in 1..Shelf,
                      batch'[a].from = batch'[b].from, batch'[a].from[1] # 0
               PROVE  a = b
    BY DEF ReceivedAtMostOnce
  <2>1. CASE a # c /\ b # c BY <1>7, <2>1 DEF ReceiptInv, ReceivedAtMostOnce
  <2>2. CASE a = c /\ b # c BY <1>7, <1>11, <2>2
  <2>3. CASE a # c /\ b = c BY <1>7, <1>11, <2>3
  <2> QED BY <2>1, <2>2, <2>3
<1> QED BY <1>5, <1>9, <1>12, <1>13, <1>14 DEF ReceiptInv

LEMMA DeskReceipt ==
    ASSUME ReceiptInv, ReceiptsApart, ReceiptsApart', NEW p \in SupplyStaff, DeskStep(p)
    PROVE  ReceiptInv'
<1>n. HeldShaped(SupplyNothing) /\ SupplyNothing.doc = NoPurchase BY SupplyFields
<1>1. CASE CreateBatch(p)
  <2>1. PICK c \in 1..Shelf, i \in Ingredients, q \in Quantities, e \in 0..LastDay :
           /\ batch[c] = NoBatch
           /\ batch' = [batch EXCEPT ![c] = [of |-> i, got |-> q, left |-> q, expiry |-> e,
                                             from |-> <<0, i>>]]
    BY <1>1 DEF CreateBatch
  <2>2. UNCHANGED <<purchase, supplyPc, supplyLoc>> BY <1>1 DEF CreateBatch
  <2>3. <<0, i>> \in Origins BY <2>1, SupplyAssumption DEF Origins
  <2>4. /\ DOMAIN batch' = 1..Shelf
        /\ DOMAIN batch'[c] = DOMAIN NoBatch /\ batch'[c].from = <<0, i>>
        /\ \A b \in 1..Shelf : b # c => batch'[b] = batch[b]
    BY <2>1, SupplyFields DEF ReceiptInv, SupplyDocsOK
  <2>5. SupplyDocsOK' BY <2>2, <2>3, <2>4 DEF ReceiptInv, SupplyDocsOK
  <2>6. SupplyControlOK' BY <2>2 DEF ReceiptInv, SupplyControlOK
  <2>7. \A b \in 1..Shelf : batch'[b].from = batch[b].from \/ batch'[b].from[1] = 0 BY <2>4
  <2> QED BY <2>2, <2>5, <2>6, <2>7, QuietStep
<1>2. CASE CreatePurchase(p)
  <2>1. PICK n, items, status, due :
           /\ n \in 1..Purchases /\ items \in [Ingredients -> Quantities \cup {0}]
           /\ purchase[n] = NoPurchase
           /\ purchase' = [purchase EXCEPT ![n] = [status |-> status, items |-> items,
                                                   due |-> due, source |-> "manual"]]
    BY <1>2 DEF CreatePurchase
  <2>2. UNCHANGED <<batch, supplyPc, supplyLoc>> BY <1>2 DEF CreatePurchase
  <2>3. /\ DOMAIN purchase' = 1..Purchases
        /\ DOMAIN purchase'[n] = DOMAIN NoPurchase /\ purchase'[n].items = items
        /\ \A m \in 1..Purchases : m # n => purchase'[m] = purchase[m]
    BY <2>1, SupplyFields DEF ReceiptInv, SupplyDocsOK
  <2>4. SupplyDocsOK' BY <2>1, <2>2, <2>3 DEF ReceiptInv, SupplyDocsOK
  <2>5. SupplyControlOK' BY <2>2 DEF ReceiptInv, SupplyControlOK
  <2>6. \A m \in 1..Purchases : purchase'[m].status = purchase[m].status
                                \/ purchase[m].status = "none"
    BY <2>1, <2>3, SupplyFields
  <2> QED BY <2>2, <2>4, <2>5, <2>6, QuietStep
<1>3. CASE ReadReceipt(p)
  <2>1. PICK n \in 1..Purchases :
           /\ purchase[n].status \in OpenStatuses
           /\ SupplyGo(p, "receive", [SupplyNothing EXCEPT !.id = n, !.doc = purchase[n]])
    BY <1>3 DEF ReadReceipt
  <2> DEFINE held == [SupplyNothing EXCEPT !.id = n, !.doc = purchase[n]]
  <2>2. HeldShaped(held) /\ held.id = n
    BY SupplyFields DEF HeldShaped, ReceiptInv, SupplyDocsOK
  <2> HIDE DEF held
  <2>3. p \in Desks /\ supplyPc[p] = "idle" /\ UNCHANGED <<batch, purchase>> BY <1>3 DEF ReadReceipt
  <2>4. "receive" \in Marking BY DEF Marking
  <2> QED BY <2>1, <2>2, <2>3, <2>4, MarkingStarts DEF held
<1>4. CASE ReceiveItem(p) BY <1>4, ItemReceipt
<1>5. CASE MarkReceived(p) BY <1>5, MarkingEnds DEF MarkReceived
<1>6. CASE ReadStatus(p)
  <2>1. PICK n, status :
           /\ n \in 1..Purchases
           /\ purchase[n].status \in OpenStatuses
           /\ SupplyGo(p, "setStatus", [SupplyNothing EXCEPT !.id = n, !.doc.status = status])
    BY <1>6 DEF ReadStatus
  <2> DEFINE held == [SupplyNothing EXCEPT !.id = n, !.doc.status = status]
  <2>2. HeldShaped(held) /\ held.id = n BY SupplyFields DEF HeldShaped
  <2> HIDE DEF held
  <2>3. p \in Desks /\ supplyPc[p] = "idle" /\ UNCHANGED <<batch, purchase>> BY <1>6 DEF ReadStatus
  <2>4. "setStatus" \in Marking BY DEF Marking
  <2> QED BY <2>1, <2>2, <2>3, <2>4, MarkingStarts DEF held
<1>7. CASE SetStatus(p) BY <1>7, MarkingEnds DEF SetStatus
<1> QED BY <1>1, <1>2, <1>3, <1>4, <1>5, <1>6, <1>7 DEF DeskStep

(* What was ordered comes in once: no item of a purchase order becomes two *)
(* batches, whatever status updates, cooks and forecasters do in between,  *)
(* for any number of desks of which no two work on one order at a time     *)
(* (receivePurchaseOrder, 'Purchase order is already received').  Two      *)
(* receipts of one order that overlap both read it open and bring it in.   *)
THEOREM ReceivedCorrect == SpecSupply /\ []ReceiptsApart => []ReceivedAtMostOnce
<1>1. InitSupply => ReceiptInv
  <2> SUFFICES ASSUME InitSupply PROVE ReceiptInv OBVIOUS
  <2>1. \A b \in 1..Shelf : batch[b].from[1] = 0 BY SupplyFields DEF InitSupply
  <2>2. SupplyDocsOK BY SupplyFields DEF InitSupply, SupplyDocsOK
  <2>3. SupplyControlOK BY SupplyFields DEF InitSupply, SupplyControlOK
  <2>4. \A p \in SupplyStaff : MarkingOpen(p) BY DEF InitSupply, MarkingOpen, Marking
  <2> QED BY <2>1, <2>2, <2>3, <2>4 DEF ReceiptInv, BeingReceived, Ordered, ReceivedAtMostOnce
<1>2. ReceiptInv /\ ReceiptsApart /\ ReceiptsApart' /\ [NextSupply]_supplyVars => ReceiptInv'
  <2> SUFFICES ASSUME ReceiptInv, ReceiptsApart, ReceiptsApart', [NextSupply]_supplyVars
               PROVE  ReceiptInv'
    OBVIOUS
  <2>1. CASE \E p \in SupplyStaff : CookStep(p) \/ DeskStep(p) \/ ForecasterStep(p)
    BY <2>1, CookReceipt, DeskReceipt, ForecasterReceipt
  <2>2. CASE NextDay \/ UNCHANGED supplyVars
    <3>1. UNCHANGED <<batch, purchase, supplyPc, supplyLoc>> BY <2>2 DEF NextDay, supplyVars
    <3>2. SupplyDocsOK' /\ SupplyControlOK'
      BY <3>1 DEF ReceiptInv, SupplyDocsOK, SupplyControlOK
    <3> QED BY <3>1, <3>2, QuietStep
  <2> QED BY <2>1, <2>2 DEF NextSupply
<1>3. ReceiptInv => ReceivedAtMostOnce BY DEF ReceiptInv
<1> QED BY <1>1, <1>2, <1>3, PTL DEF SpecSupply

-------------------------------------------------------------------------------
(* The stock.  What a handler has put on the ledger and not read the       *)
(* batches for yet is owed; from the read on each batch it will write has  *)
(* the difference to its credit, whoever else writes the batch.            *)
Made == {b \in 1..Shelf : batch[b].got > 0}

Owing == {"read", "readNamed"}

Serving == {"take", "read", "write"}

StockDocsOK ==
    /\ SupplyDocsOK
    /\ \A b \in 1..Shelf : /\ batch[b].got \in Nat /\ batch[b].left \in Nat
                           /\ batch[b].expiry \in Int
                           /\ batch[b].left > 0 => batch[b].got > 0
    /\ \A n \in 1..Purchases, i \in Ingredients : purchase[n].items[i] \in Int
    /\ ledger \in [Ingredients -> Nat]
    /\ forecast \in [Ingredients -> Int]
    /\ day \in Nat

StockHeld(label, held, made) ==
    /\ HeldShaped(held)
    /\ \A i \in Ingredients : held.doc.items[i] \in Int
    /\ label \in Owing => held.qty \in Nat
    /\ label = "readNamed" => held.id \in 1..Shelf
    /\ label = "receive" => held.id \in 1..Purchases
    /\ label = "write" => /\ DOMAIN held.writes \subseteq made
                          /\ \A b \in DOMAIN held.writes : held.writes[b] \in Nat
    /\ label \in Serving /\ held.needs # {} =>
          held.dish \in Dishes /\ held.needs \subseteq Ingredients

StockTypeOK ==
    /\ StockDocsOK /\ SupplyControlOK
    /\ supplyPc = [p \in SupplyStaff |-> supplyPc[p]]
    /\ supplyLoc = [p \in SupplyStaff |-> supplyLoc[p]]
    /\ \A p \in SupplyStaff : StockHeld(supplyPc[p], supplyLoc[p], Made)

Owed(label, held) == IF label \in Owing THEN held.qty ELSE 0

AllOwed == SumFunctionOnSet([p \in SupplyStaff |-> Owed(supplyPc[p], supplyLoc[p])], SupplyStaff)

OnLedger == SumFunctionOnSet(ledger, Ingredients)

(* A division of the ledger among the batches and the handlers that have   *)
(* not read yet: each batch's share covers what has left it, and what will *)
(* have left it after any write that is pending.                           *)
Covers(share) ==
    /\ share \in [1..Shelf -> Nat]
    /\ SumFunctionOnSet(share, 1..Shelf) + AllOwed <= OnLedger
    /\ \A b \in 1..Shelf : batch[b].got - batch[b].left <= share[b]
    /\ \A p \in SupplyStaff : supplyPc[p] = "write" =>
          \A b \in DOMAIN supplyLoc[p].writes : batch[b].got - supplyLoc[p].writes[b] <= share[b]

StockInv == StockTypeOK /\ \E share : Covers(share)

-------------------------------------------------------------------------------
LEMMA ShelfFinite == IsFiniteSet(1..Shelf) /\ IsFiniteSet(1..Purchases)
<1>1. 1 \in Int /\ Shelf \in Int /\ Purchases \in Int BY SupplyAssumption
<1> QED BY <1>1, FS_Interval

LEMMA MaxOfTwo == ASSUME NEW x \in Int PROVE Max({0, x}) = IF x <= 0 THEN 0 ELSE x
<1> DEFINE m == IF x <= 0 THEN 0 ELSE x
<1>1. m \in {0, x} /\ \A y \in {0, x} : m >= y OBVIOUS
<1>2. \A c \in {0, x} : (\A y \in {0, x} : c >= y) => c = m OBVIOUS
<1> HIDE DEF m
<1>3. Max({0, x}) \in {0, x} /\ \A y \in {0, x} : Max({0, x}) >= y BY <1>1, Zenon DEF Max
<1>4. Max({0, x}) = m BY <1>2, <1>3
<1> QED BY <1>4 DEF m

LEMMA LeftInTyped ==
    ASSUME StockDocsOK, NEW S \in SUBSET (1..Shelf)
    PROVE  LeftIn(S) \in Nat
<1>1. IsFiniteSet(S) BY ShelfFinite, FS_Subset
<1> DEFINE f == [b \in 1..Shelf |-> batch[b].left]
<1>2. \A b \in S : f[b] \in Nat BY DEF StockDocsOK
<1> HIDE DEF f
<1>3. SumFunctionOnSet(f, S) \in Nat BY <1>1, <1>2, SumNat
<1> QED BY <1>3 DEF LeftIn, f

(* A non-empty set of batches has a last one in the order of expiry.       *)
LEMMA LastBatch ==
    ASSUME StockDocsOK, NEW S \in SUBSET (1..Shelf), S # {}
    PROVE  \E m \in S : \A c \in S : c = m \/ Before(c, m)
<1> DEFINE HasLast(s) == \E m \in s : \A c \in s : c = m \/ Before(c, m)
           Bad == {s \in SUBSET S : s # {} /\ ~ HasLast(s)}
<1>1. \A b, c \in 1..Shelf : b = c \/ Before(b, c) \/ Before(c, b)
  <2> SUFFICES ASSUME NEW b \in 1..Shelf, NEW c \in 1..Shelf
               PROVE  b = c \/ Before(b, c) \/ Before(c, b)
    OBVIOUS
  <2>1. b \in Int /\ c \in Int /\ batch[b].expiry \in Int /\ batch[c].expiry \in Int
    BY DEF StockDocsOK
  <2> QED BY <2>1 DEF Before
<1>2. \A a, b, c \in 1..Shelf : Before(a, b) /\ Before(b, c) => Before(a, c)
  <2> SUFFICES ASSUME NEW a \in 1..Shelf, NEW b \in 1..Shelf, NEW c \in 1..Shelf,
                      Before(a, b), Before(b, c)
               PROVE  Before(a, c)
    OBVIOUS
  <2>1. /\ a \in Int /\ b \in Int /\ c \in Int
        /\ batch[a].expiry \in Int /\ batch[b].expiry \in Int /\ batch[c].expiry \in Int
    BY DEF StockDocsOK
  <2> QED BY <2>1 DEF Before
<1>3. Bad = {}
  <2> SUFFICES ASSUME Bad # {} PROVE FALSE OBVIOUS
  <2>1. PICK s \in Bad : IsFiniteSet(s) /\ \A x \in s : s \ {x} \notin Bad
    <3>1. Bad \subseteq SUBSET S /\ IsFiniteSet(S) BY ShelfFinite, FS_Subset
    <3> HIDE DEF Bad
    <3> QED BY <3>1, MinimalSubset
  <2>2. PICK x \in s : TRUE OBVIOUS
  <2>3. CASE s = {x}
    <3>1. HasLast(s) BY <2>3
    <3> QED BY <3>1
  <2>4. CASE s # {x}
    <3>1. s \ {x} # {} /\ s \ {x} \in SUBSET S BY <2>2, <2>4
    <3>2. HasLast(s \ {x}) BY <2>1, <2>2, <3>1
    <3>3. PICK m \in s \ {x} : \A c \in s \ {x} : c = m \/ Before(c, m) BY <3>2
    <3>4. s \subseteq 1..Shelf OBVIOUS
    <3>5. CASE Before(x, m)
      <4>1. HasLast(s) BY <3>3, <3>5
      <4> QED BY <4>1
    <3>6. CASE Before(m, x)
      <4>1. \A c \in s : c = x \/ Before(c, x) BY <1>2, <3>3, <3>4, <3>6
      <4>2. HasLast(s) BY <2>2, <4>1
      <4> QED BY <4>2
    <3> QED BY <1>1, <3>3, <3>4, <3>5, <3>6
  <2> QED BY <2>3, <2>4
<1>4. S \in SUBSET S OBVIOUS
<1> QED BY <1>3, <1>4

(* A first-expired-first-out pass takes no more than was asked for: all    *)
(* batches it touches but the last are needed whole.                       *)
LEMMA FefoTakes ==
    ASSUME StockDocsOK, NEW i, NEW q \in Nat, NEW w, w = FefoWrites(i, q)
    PROVE  /\ DOMAIN w \subseteq Made
           /\ \A b \in DOMAIN w : w[b] \in Nat /\ w[b] <= batch[b].left
           /\ SumFunctionOnSet([b \in 1..Shelf |-> IF b \in DOMAIN w THEN batch[b].left - w[b]
                                                   ELSE 0], 1..Shelf) <= q
<1> DEFINE earlier(b) == {c \in Usable(i) : Before(c, b)}
           need(b)    == q - LeftIn(earlier(b))
           take == [b \in 1..Shelf |-> IF b \in DOMAIN w THEN batch[b].left - w[b] ELSE 0]
           left == [b \in 1..Shelf |-> batch[b].left]
<1>1. Usable(i) \subseteq Made /\ Usable(i) \subseteq 1..Shelf BY DEF Usable, Made, StockDocsOK
<1>2. DOMAIN w = {b \in Usable(i) : LeftIn(earlier(b)) < q} BY DEF FefoWrites
<1>3. \A b \in DOMAIN w : w[b] = Max({0, batch[b].left - need(b)}) BY DEF FefoWrites
<1>4. \A b \in 1..Shelf : LeftIn(earlier(b)) \in Nat /\ batch[b].left \in Nat
  <2> SUFFICES ASSUME NEW b \in 1..Shelf PROVE LeftIn(earlier(b)) \in Nat BY DEF StockDocsOK
  <2>1. earlier(b) \in SUBSET (1..Shelf) BY <1>1
  <2> HIDE DEF earlier
  <2> QED BY <2>1, LeftInTyped
<1> HIDE DEF earlier
<1>5. \A b \in DOMAIN w : /\ b \in 1..Shelf /\ b \in Usable(i) /\ need(b) \in Nat /\ need(b) > 0
                          /\ w[b] \in Nat /\ w[b] <= batch[b].left
                          /\ batch[b].left - w[b] <= need(b)
  <2> SUFFICES ASSUME NEW b \in DOMAIN w
               PROVE  /\ need(b) \in Nat /\ need(b) > 0
                      /\ w[b] \in Nat /\ w[b] <= batch[b].left
                      /\ batch[b].left - w[b] <= need(b)
    BY <1>1, <1>2
  <2>1. b \in 1..Shelf /\ LeftIn(earlier(b)) < q BY <1>1, <1>2
  <2>2. need(b) \in Nat /\ need(b) > 0 BY <1>4, <2>1
  <2>3. PICK n \in Nat : n = batch[b].left BY <1>4, <2>1
  <2> HIDE DEF need
  <2>4. n - need(b) \in Int BY <2>2
  <2>5. w[b] = IF n - need(b) <= 0 THEN 0 ELSE n - need(b) BY <1>3, <2>3, <2>4, MaxOfTwo
  <2> QED BY <2>2, <2>3, <2>5
<1>6. IsFiniteSet(DOMAIN w) /\ DOMAIN w \in SUBSET (1..Shelf) BY <1>5, ShelfFinite, FS_Subset
<1>7. \A b \in DOMAIN w : take[b] \in Nat /\ take[b] <= left[b] /\ take[b] <= need(b)
                          /\ left[b] \in Nat
  <2> SUFFICES ASSUME NEW b \in DOMAIN w
               PROVE  take[b] \in Nat /\ take[b] <= left[b] /\ take[b] <= need(b) /\ left[b] \in Nat
    OBVIOUS
  <2>1. /\ b \in 1..Shelf /\ w[b] \in Nat /\ w[b] <= batch[b].left
        /\ batch[b].left - w[b] <= need(b) /\ batch[b].left \in Nat
    BY <1>4, <1>5
  <2>2. take[b] = batch[b].left - w[b] /\ left[b] = batch[b].left BY <2>1
  <2> HIDE DEF need, take, left
  <2> QED BY <2>1, <2>2
<1>8. \A b \in (1..Shelf) \ DOMAIN w : take[b] = 0 OBVIOUS
<1>9. \A b \in 1..Shelf : left[b] \in Nat BY <1>4
<1>10. SumFunctionOnSet(take, 1..Shelf) = SumFunctionOnSet(take, DOMAIN w)
  <2> HIDE DEF take, left, need
  <2>1. \A b \in DOMAIN w : take[b] \in Int BY <1>7
  <2> QED BY <1>6, <1>8, <2>1, ShelfFinite, SumSupport
<1>11. SumFunctionOnSet(take, DOMAIN w) <= q
  <2>1. CASE DOMAIN w = {} BY <2>1, SumEmpty
  <2>2. CASE DOMAIN w # {}
    <3>1. PICK m \in DOMAIN w : \A c \in DOMAIN w : c = m \/ Before(c, m)
      BY <1>6, <2>2, LastBatch
    <3> DEFINE t == DOMAIN w \ {m}
    <3>2. t \subseteq earlier(m) BY <1>2, <3>1 DEF earlier
    <3>3. earlier(m) \subseteq 1..Shelf BY <1>1 DEF earlier
    <3>4. IsFiniteSet(earlier(m)) /\ IsFiniteSet(t) BY <1>6, <3>3, ShelfFinite, FS_Subset
    <3>5. \A b \in t : take[b] \in Nat /\ take[b] <= left[b] /\ left[b] \in Nat BY <1>7
    <3> HIDE DEF t, take, left
    <3>6. SumFunctionOnSet(take, t) <= SumFunctionOnSet(left, t)
      <4>1. \A b \in t : take[b] \in Int /\ left[b] \in Int /\ take[b] <= left[b] BY <3>5
      <4> QED BY <3>4, <4>1, SumMonotone
    <3>7. SumFunctionOnSet(left, t) <= SumFunctionOnSet(left, earlier(m))
      <4>1. \A b \in earlier(m) : left[b] \in Nat BY <1>9, <3>3
      <4> QED BY <3>2, <3>4, <4>1, SumSubset
    <3>8. SumFunctionOnSet(left, earlier(m)) = LeftIn(earlier(m)) BY DEF LeftIn, left
    <3>9. SumFunctionOnSet(take, DOMAIN w) = take[m] + SumFunctionOnSet(take, t)
      <4>1. \A b \in DOMAIN w : take[b] \in Int BY <1>7
      <4> QED BY <1>6, <4>1, SumPeel DEF t
    <3>10. take[m] \in Nat /\ take[m] <= need(m) BY <1>7
    <3>11. LeftIn(earlier(m)) \in Nat BY <1>4, <1>5
    <3>12. SumFunctionOnSet(take, t) \in Int /\ SumFunctionOnSet(left, t) \in Int
      <4>1. \A b \in t : take[b] \in Int /\ left[b] \in Int BY <3>5
      <4> QED BY <3>4, <4>1, SumInt
    <3> QED BY <3>6, <3>7, <3>8, <3>9, <3>10, <3>11, <3>12
  <2> QED BY <2>1, <2>2
<1> QED BY <1>1, <1>5, <1>10, <1>11

LEMMA OwedTyped ==
    ASSUME NEW label, NEW held, NEW made, StockHeld(label, held, made)
    PROVE  Owed(label, held) \in Nat
BY DEF StockHeld, Owed

(* One handler's step: it goes on with what it holds, the batches that     *)
(* exist stay, and a new division of the ledger covers them.               *)
LEMMA StockStep ==
    ASSUME StockTypeOK, IsFiniteSet(SupplyStaff),
           NEW share, Covers(share), NEW p \in SupplyStaff, NEW label, NEW held,
           SupplyGo(p, label, held), StockDocsOK',
           \A b \in Made : batch'[b].got = batch[b].got,
           StockHeld(label, held, Made'),
           NEW u, u \in [1..Shelf -> Nat],
           \A b \in 1..Shelf : share[b] <= u[b] /\ batch'[b].got - batch'[b].left <= u[b],
           label = "write" =>
              \A b \in DOMAIN held.writes : batch'[b].got - held.writes[b] <= u[b],
           SumFunctionOnSet(u, 1..Shelf) - SumFunctionOnSet(share, 1..Shelf)
              + Owed(label, held) - Owed(supplyPc[p], supplyLoc[p])
                 <= SumFunctionOnSet(ledger', Ingredients) - OnLedger
    PROVE  StockInv'
<1>0. SupplyControlOK /\ HeldShaped(held) BY DEF StockTypeOK, StockHeld
<1>1. SupplyControlOK' BY <1>0, SupplyWalk
<1>2. supplyPc'[p] = label /\ supplyLoc'[p] = held BY <1>0, SupplyWalk
<1>3. \A q \in SupplyStaff : q # p => supplyPc'[q] = supplyPc[q] /\ supplyLoc'[q] = supplyLoc[q]
  BY <1>0, SupplyWalk
<1>4. Made \subseteq Made' BY DEF Made
<1>5. ASSUME NEW q \in SupplyStaff
      PROVE  StockHeld(supplyPc'[q], supplyLoc'[q], Made')
  <2>1. CASE q = p BY <1>2, <2>1
  <2>2. CASE q # p
    <3>1. StockHeld(supplyPc[q], supplyLoc[q], Made) BY DEF StockTypeOK
    <3>2. StockHeld(supplyPc[q], supplyLoc[q], Made') BY <1>4, <3>1 DEF StockHeld
    <3> QED BY <1>3, <2>2, <3>2
  <2> QED BY <2>1, <2>2
<1>6. StockTypeOK'
  <2>1. supplyPc' = [q \in SupplyStaff |-> supplyPc'[q]] BY <1>0 DEF SupplyGo, SupplyControlOK
  <2>2. supplyLoc' = [q \in SupplyStaff |-> supplyLoc'[q]] BY <1>0 DEF SupplyGo, SupplyControlOK
  <2> QED BY <1>1, <1>5, <2>1, <2>2 DEF StockTypeOK
<1>7. AllOwed' = AllOwed + Owed(label, held) - Owed(supplyPc[p], supplyLoc[p])
  <2> DEFINE f == [q \in SupplyStaff |-> Owed(supplyPc[q], supplyLoc[q])]
             g == [q \in SupplyStaff |-> Owed(supplyPc'[q], supplyLoc'[q])]
  <2>1. \A q \in SupplyStaff : f[q] \in Int /\ g[q] \in Int
    <3> SUFFICES ASSUME NEW q \in SupplyStaff PROVE f[q] \in Int /\ g[q] \in Int OBVIOUS
    <3>1. StockHeld(supplyPc[q], supplyLoc[q], Made) BY DEF StockTypeOK
    <3>2. Owed(supplyPc[q], supplyLoc[q]) \in Nat /\ Owed(supplyPc'[q], supplyLoc'[q]) \in Nat
      BY <1>5, <3>1, OwedTyped
    <3> QED BY <3>2
  <2>2. \A q \in SupplyStaff \ {p} : f[q] = g[q] BY <1>3
  <2>3. f[p] = Owed(supplyPc[p], supplyLoc[p]) /\ g[p] = Owed(label, held) BY <1>2
  <2>4. AllOwed = SumFunctionOnSet(f, SupplyStaff) /\ AllOwed' = SumFunctionOnSet(g, SupplyStaff)
    BY DEF AllOwed, Owed
  <2> HIDE DEF f, g
  <2>5. SumFunctionOnSet(g, SupplyStaff) = SumFunctionOnSet(f, SupplyStaff) + g[p] - f[p]
    BY <2>1, <2>2, SumChange
  <2> QED BY <2>3, <2>4, <2>5
<1>8. SumFunctionOnSet(u, 1..Shelf) + AllOwed' <= OnLedger'
  <2>1. /\ SumFunctionOnSet(u, 1..Shelf) \in Int /\ SumFunctionOnSet(share, 1..Shelf) \in Int
    <3>1. \A b \in 1..Shelf : u[b] \in Int /\ share[b] \in Int BY DEF Covers
    <3> QED BY <3>1, ShelfFinite, SumInt
  <2>2. AllOwed \in Int
    <3> DEFINE f == [q \in SupplyStaff |-> Owed(supplyPc[q], supplyLoc[q])]
    <3>1. \A q \in SupplyStaff : f[q] \in Int BY OwedTyped DEF StockTypeOK
    <3> HIDE DEF f
    <3>2. SumFunctionOnSet(f, SupplyStaff) \in Int BY <3>1, SumInt
    <3> QED BY <3>2 DEF f, AllOwed
  <2>3. OnLedger \in Int /\ OnLedger' \in Int
    <3>1. \A i \in Ingredients : ledger[i] \in Int /\ ledger'[i] \in Int
      BY DEF StockTypeOK, StockDocsOK
    <3>2. SumFunctionOnSet(ledger, Ingredients) \in Int /\ SumFunctionOnSet(ledger', Ingredients) \in Int
      BY <3>1, SupplyAssumption, SumInt
    <3> QED BY <3>2 DEF OnLedger
  <2>4. SumFunctionOnSet(ledger', Ingredients) = OnLedger' BY DEF OnLedger
  <2>5. Owed(label, held) \in Int /\ Owed(supplyPc[p], supplyLoc[p]) \in Int
    BY OwedTyped DEF StockTypeOK
  <2>6. SumFunctionOnSet(share, 1..Shelf) + AllOwed <= OnLedger BY DEF Covers
  <2> DEFINE a == SumFunctionOnSet(u, 1..Shelf)
             b == SumFunctionOnSet(share, 1..Shelf)
             c == Owed(label, held)
             d == Owed(supplyPc[p], supplyLoc[p])
  <2>7. a - b + c - d <= OnLedger' - OnLedger BY <2>4
  <2>8. b + AllOwed <= OnLedger /\ AllOwed' = AllOwed + c - d BY <1>7, <2>6
  <2>9. a \in Int /\ b \in Int /\ c \in Int /\ d \in Int BY <2>1, <2>5
  <2> HIDE DEF a, b, c, d
  <2>10. PICK x, y, m, n : x = AllOwed /\ y = AllOwed' /\ m = OnLedger /\ n = OnLedger' OBVIOUS
  <2>11. x \in Int /\ m \in Int /\ n \in Int BY <2>2, <2>3, <2>10
  <2>12. a - b + c - d <= n - m /\ b + x <= m /\ y = x + c - d BY <2>7, <2>8, <2>10
  <2>13. a + y <= n BY <2>9, <2>11, <2>12
  <2> QED BY <2>10, <2>13 DEF a
<1>9. ASSUME NEW q \in SupplyStaff, supplyPc'[q] = "write",
             NEW b \in DOMAIN supplyLoc'[q].writes
      PROVE  batch'[b].got - supplyLoc'[q].writes[b] <= u[b]
  <2>1. CASE q = p BY <1>2, <1>9, <2>1
  <2>2. CASE q # p
    <3>1. supplyPc[q] = "write" /\ b \in DOMAIN supplyLoc[q].writes BY <1>3, <1>9, <2>2
    <3>2. b \in Made /\ supplyLoc[q].writes[b] \in Nat BY <3>1 DEF StockTypeOK, StockHeld
    <3>3. batch[b].got - supplyLoc[q].writes[b] <= share[b] BY <3>1 DEF Covers
    <3>4. b \in 1..Shelf /\ batch[b].got \in Nat BY <3>2 DEF Made, StockTypeOK, StockDocsOK
    <3>5. share[b] <= u[b] /\ share[b] \in Nat /\ u[b] \in Nat BY <3>4 DEF Covers
    <3>6. batch'[b].got = batch[b].got /\ supplyLoc'[q] = supplyLoc[q] BY <1>3, <2>2, <3>2
    <3> QED BY <3>2, <3>3, <3>4, <3>5, <3>6
  <2> QED BY <2>1, <2>2
<1>10. Covers(u)' BY <1>8, <1>9 DEF Covers
<1> QED BY <1>6, <1>10 DEF StockInv

LEMMA ShareTyped ==
    ASSUME NEW share, share \in [1..Shelf -> Nat]
    PROVE  SumFunctionOnSet(share, 1..Shelf) \in Int
<1>1. \A b \in 1..Shelf : share[b] \in Int OBVIOUS
<1> QED BY <1>1, ShelfFinite, SumInt

LEMMA LedgerTyped ==
    ASSUME NEW f, f \in [Ingredients -> Nat] PROVE SumFunctionOnSet(f, Ingredients) \in Int
<1>1. \A i \in Ingredients : f[i] \in Int OBVIOUS
<1> QED BY <1>1, SupplyAssumption, SumInt

LEMMA OldOwed ==
    ASSUME StockTypeOK, NEW p \in SupplyStaff
    PROVE  Owed(supplyPc[p], supplyLoc[p]) \in Nat
BY OwedTyped DEF StockTypeOK

LEMMA MadeSame == ASSUME batch' = batch PROVE Made' = Made
BY DEF Made

(* A handler that takes nothing goes on.                                   *)
LEMMA StockMove ==
    ASSUME StockInv, IsFiniteSet(SupplyStaff), NEW p \in SupplyStaff,
           NEW label, label \notin Owing, label # "write", NEW held,
           SupplyGo(p, label, held), UNCHANGED <<batch, ledger>>,
           StockDocsOK', StockHeld(label, held, Made)
    PROVE  StockInv'
<1>1. StockTypeOK BY DEF StockInv
<1>2. PICK share : Covers(share) BY DEF StockInv
<1>3. share \in [1..Shelf -> Nat] /\ \A b \in 1..Shelf : batch[b].got - batch[b].left <= share[b]
  BY <1>2 DEF Covers
<1>4. \A b \in 1..Shelf : share[b] <= share[b] BY <1>3
<1>5. SumFunctionOnSet(ledger', Ingredients) = OnLedger /\ OnLedger \in Int
  BY <1>1, LedgerTyped DEF OnLedger, StockTypeOK, StockDocsOK
<1>6. SumFunctionOnSet(share, 1..Shelf) \in Int BY <1>3, ShareTyped
<1>7. Owed(label, held) = 0 /\ Owed(supplyPc[p], supplyLoc[p]) \in Nat
  BY <1>1, OldOwed DEF Owed
<1>8. SumFunctionOnSet(share, 1..Shelf) - SumFunctionOnSet(share, 1..Shelf)
         + Owed(label, held) - Owed(supplyPc[p], supplyLoc[p])
            <= SumFunctionOnSet(ledger', Ingredients) - OnLedger
  BY <1>5, <1>6, <1>7
<1>9. Made' = Made BY MadeSame
<1> QED BY <1>1, <1>2, <1>3, <1>4, <1>8, <1>9, StockStep

(* The ledger row comes first: the quantity is owed.                       *)
LEMMA StockRecorded ==
    ASSUME StockInv, IsFiniteSet(SupplyStaff), NEW p \in SupplyStaff,
           NEW label \in Owing, NEW held, SupplyGo(p, label, held), supplyPc[p] \notin Owing,
           NEW i \in Ingredients, NEW q \in Nat, held.qty = q,
           ledger' = [ledger EXCEPT ![i] = @ + q], UNCHANGED <<batch, purchase, forecast, day>>,
           StockHeld(label, held, Made)
    PROVE  StockInv'
<1>1. StockTypeOK BY DEF StockInv
<1>2. PICK share : Covers(share) BY DEF StockInv
<1>3. share \in [1..Shelf -> Nat] /\ \A b \in 1..Shelf : batch[b].got - batch[b].left <= share[b]
  BY <1>2 DEF Covers
<1>4. \A b \in 1..Shelf : share[b] <= share[b] BY <1>3
<1>5. ledger \in [Ingredients -> Nat] /\ ledger' \in [Ingredients -> Nat]
  BY <1>1 DEF StockTypeOK, StockDocsOK
<1>6. SumFunctionOnSet(ledger', Ingredients) = OnLedger + q /\ OnLedger \in Int
  <2>1. PICK f, g, m : f = ledger /\ g = ledger' /\ m = OnLedger OBVIOUS
  <2>2. \A j \in Ingredients : f[j] \in Int /\ g[j] \in Int BY <1>5, <2>1
  <2>3. \A j \in Ingredients \ {i} : f[j] = g[j] BY <1>5, <2>1
  <2>4. g[i] = f[i] + q BY <1>5, <2>1
  <2>5. IsFiniteSet(Ingredients) BY SupplyAssumption
  <2>6. SumFunctionOnSet(g, Ingredients) = SumFunctionOnSet(f, Ingredients) + g[i] - f[i]
    BY <2>2, <2>3, <2>5, SumChange
  <2>7. SumFunctionOnSet(f, Ingredients) = m /\ m \in Int BY <1>5, <2>1, LedgerTyped DEF OnLedger
  <2>8. f[i] \in Int BY <2>2
  <2>9. SumFunctionOnSet(g, Ingredients) = m + q BY <2>4, <2>6, <2>7, <2>8
  <2> QED BY <2>1, <2>7, <2>9
<1>7. SumFunctionOnSet(share, 1..Shelf) \in Int BY <1>3, ShareTyped
<1>8. Owed(label, held) = q /\ Owed(supplyPc[p], supplyLoc[p]) = 0 BY DEF Owed
<1>9. SumFunctionOnSet(share, 1..Shelf) - SumFunctionOnSet(share, 1..Shelf)
         + Owed(label, held) - Owed(supplyPc[p], supplyLoc[p])
            <= SumFunctionOnSet(ledger', Ingredients) - OnLedger
  BY <1>6, <1>7, <1>8
<1>10. StockDocsOK'
  <2>1. StockDocsOK BY <1>1 DEF StockTypeOK
  <2>2. SupplyDocsOK' BY <2>1 DEF StockDocsOK, SupplyDocsOK
  <2> QED BY <1>5, <2>1, <2>2 DEF StockDocsOK
<1>11. Made' = Made BY MadeSame
<1>12. label # "write" BY DEF Owing
<1> QED BY <1>1, <1>2, <1>3, <1>4, <1>9, <1>10, <1>11, <1>12, StockStep

(* The read: what will be written takes no more than is owed.              *)
LEMMA StockRead ==
    ASSUME StockInv, IsFiniteSet(SupplyStaff), NEW p \in SupplyStaff,
           NEW held, SupplyGo(p, "write", held), supplyPc[p] \in Owing,
           NEW w, held.writes = w, StockHeld("write", held, Made),
           \A b \in DOMAIN w : w[b] <= batch[b].left,
           SumFunctionOnSet([b \in 1..Shelf |-> IF b \in DOMAIN w THEN batch[b].left - w[b] ELSE 0],
                            1..Shelf) <= supplyLoc[p].qty,
           UNCHANGED <<batch, purchase, ledger, forecast, day>>
    PROVE  StockInv'
<1> DEFINE take == [b \in 1..Shelf |-> IF b \in DOMAIN w THEN batch[b].left - w[b] ELSE 0]
<1>1. StockTypeOK BY DEF StockInv
<1>2. PICK share : Covers(share) BY DEF StockInv
<1> DEFINE u == [b \in 1..Shelf |-> share[b] + take[b]]
<1>3. \A b \in 1..Shelf : /\ share[b] \in Nat /\ batch[b].got \in Nat /\ batch[b].left \in Nat
                          /\ batch[b].got - batch[b].left <= share[b]
  BY <1>1, <1>2 DEF Covers, StockTypeOK, StockDocsOK
<1>4. \A b \in DOMAIN w : b \in 1..Shelf /\ w[b] \in Nat BY DEF StockHeld, Made
<1>5. \A b \in 1..Shelf : take[b] \in Nat
  <2> SUFFICES ASSUME NEW b \in 1..Shelf PROVE take[b] \in Nat OBVIOUS
  <2>1. CASE b \in DOMAIN w
    <3>1. w[b] \in Nat /\ w[b] <= batch[b].left /\ batch[b].left \in Nat BY <1>3, <1>4, <2>1
    <3>2. take[b] = batch[b].left - w[b] BY <2>1
    <3> HIDE DEF take
    <3> QED BY <3>1, <3>2
  <2>2. CASE b \notin DOMAIN w BY <2>2
  <2> QED BY <2>1, <2>2
<1>6. \A b \in DOMAIN w : take[b] = batch[b].left - w[b] BY <1>4
<1>7. SumFunctionOnSet(take, 1..Shelf) <= supplyLoc[p].qty OBVIOUS
<1> HIDE DEF take
<1>8. /\ u \in [1..Shelf -> Nat]
      /\ \A b \in 1..Shelf : u[b] = share[b] + take[b]
  BY <1>3, <1>5
<1> HIDE DEF u
<1>9. \A b \in 1..Shelf : share[b] <= u[b] /\ batch[b].got - batch[b].left <= u[b]
  BY <1>3, <1>5, <1>8
<1>10. ASSUME NEW b \in DOMAIN w PROVE batch[b].got - w[b] <= u[b]
  <2>1. /\ b \in 1..Shelf /\ w[b] \in Nat /\ take[b] = batch[b].left - w[b]
        /\ u[b] = share[b] + take[b]
    BY <1>4, <1>6, <1>8
  <2>2. /\ share[b] \in Nat /\ batch[b].got \in Nat /\ batch[b].left \in Nat
        /\ batch[b].got - batch[b].left <= share[b]
    BY <1>3, <2>1
  <2>3. PICK x, y, z, v : x = batch[b].got /\ y = batch[b].left /\ z = share[b] /\ v = w[b] OBVIOUS
  <2>4. x - v <= z + (y - v) BY <2>1, <2>2, <2>3
  <2> QED BY <2>1, <2>3, <2>4
<1>11. SumFunctionOnSet(u, 1..Shelf)
          = SumFunctionOnSet(share, 1..Shelf) + SumFunctionOnSet(take, 1..Shelf)
  <2>1. \A b \in 1..Shelf : share[b] \in Int /\ take[b] \in Int /\ u[b] = share[b] + take[b]
    BY <1>3, <1>5, <1>8
  <2>2. PICK S : S = 1..Shelf OBVIOUS
  <2>3. IsFiniteSet(S) BY <2>2, ShelfFinite
  <2>4. \A b \in S : share[b] \in Int /\ take[b] \in Int /\ u[b] = share[b] + take[b]
    BY <2>1, <2>2
  <2>5. SumFunctionOnSet(u, S) = SumFunctionOnSet(share, S) + SumFunctionOnSet(take, S)
    BY <2>3, <2>4, SumPlus
  <2> QED BY <2>2, <2>5
<1>12. SumFunctionOnSet(share, 1..Shelf) \in Int /\ SumFunctionOnSet(take, 1..Shelf) \in Int
  <2>1. \A b \in 1..Shelf : share[b] \in Int /\ take[b] \in Int BY <1>3, <1>5
  <2> QED BY <2>1, ShelfFinite, SumInt
<1>13. SumFunctionOnSet(ledger', Ingredients) = OnLedger /\ OnLedger \in Int
  BY <1>1, LedgerTyped DEF OnLedger, StockTypeOK, StockDocsOK
<1>14. Owed("write", held) = 0 /\ Owed(supplyPc[p], supplyLoc[p]) = supplyLoc[p].qty
  BY DEF Owed, Owing
<1>15. supplyLoc[p].qty \in Nat BY <1>1 DEF StockTypeOK, StockHeld
<1>16. SumFunctionOnSet(u, 1..Shelf) - SumFunctionOnSet(share, 1..Shelf)
         + Owed("write", held) - Owed(supplyPc[p], supplyLoc[p])
            <= SumFunctionOnSet(ledger', Ingredients) - OnLedger
  BY <1>7, <1>11, <1>12, <1>13, <1>14, <1>15
<1>17. StockDocsOK' BY <1>1 DEF StockTypeOK, StockDocsOK, SupplyDocsOK
<1>18. Made' = Made BY MadeSame
<1> QED BY <1>1, <1>2, <1>8, <1>9, <1>10, <1>16, <1>17, <1>18, StockStep

(* A batch is written, or a new one comes in: nobody owes more or less.    *)
LEMMA StockChanged ==
    ASSUME StockInv, IsFiniteSet(SupplyStaff), NEW p \in SupplyStaff,
           NEW label, label \notin Owing, NEW held, SupplyGo(p, label, held),
           StockDocsOK', StockHeld(label, held, Made'), ledger' = ledger,
           \A b \in Made : batch'[b].got = batch[b].got,
           NEW share, Covers(share),
           \A b \in 1..Shelf : batch'[b].got - batch'[b].left <= share[b],
           label = "write" =>
              \A b \in DOMAIN held.writes : batch'[b].got - held.writes[b] <= share[b]
    PROVE  StockInv'
<1>1. StockTypeOK BY DEF StockInv
<1>2. share \in [1..Shelf -> Nat] BY DEF Covers
<1>3. \A b \in 1..Shelf : share[b] <= share[b] BY <1>2
<1>4. SumFunctionOnSet(ledger', Ingredients) = OnLedger /\ OnLedger \in Int
  BY <1>1, LedgerTyped DEF OnLedger, StockTypeOK, StockDocsOK
<1>5. SumFunctionOnSet(share, 1..Shelf) \in Int BY <1>2, ShareTyped
<1>6. Owed(label, held) = 0 /\ Owed(supplyPc[p], supplyLoc[p]) \in Nat
  BY <1>1, OldOwed DEF Owed
<1>7. SumFunctionOnSet(share, 1..Shelf) - SumFunctionOnSet(share, 1..Shelf)
         + Owed(label, held) - Owed(supplyPc[p], supplyLoc[p])
            <= SumFunctionOnSet(ledger', Ingredients) - OnLedger
  BY <1>4, <1>5, <1>6
<1> QED BY <1>1, <1>2, <1>3, <1>7, StockStep

-------------------------------------------------------------------------------
LEMMA EmptyFields ==
    /\ NoBatch.got = 0 /\ NoBatch.left = 0 /\ NoBatch.expiry = 0
    /\ \A i \in Ingredients : NoPurchase.items[i] = 0
    /\ SupplyNothing.needs = {} /\ DOMAIN SupplyNothing.writes = {} /\ SupplyNothing.qty = 0
BY DEF NoBatch, NoPurchase, NoItems, SupplyNothing, NoWrites

LEMMA NothingHeld ==
    ASSUME NEW label, label \notin {"readNamed", "receive"}, NEW made
    PROVE  StockHeld(label, SupplyNothing, made)
BY SupplyFields, EmptyFields DEF StockHeld

(* The first read of a use, without and with a named batch. *)
LEMMA UseHeld ==
    ASSUME NEW i, NEW q \in Nat, NEW made
    PROVE  /\ StockHeld("read", [SupplyNothing EXCEPT !.of = i, !.qty = q], made)
           /\ [SupplyNothing EXCEPT !.of = i, !.qty = q].qty = q
<1> DEFINE h == [SupplyNothing EXCEPT !.of = i, !.qty = q]
<1>1. /\ HeldShaped(h) /\ h.doc = NoPurchase /\ h.qty = q /\ h.needs = {}
  BY SupplyFields, EmptyFields DEF HeldShaped
<1> HIDE DEF h
<1>2. StockHeld("read", h, made) BY <1>1, EmptyFields DEF StockHeld, Serving, Owing
<1> QED BY <1>1, <1>2 DEF h

LEMMA NamedUseHeld ==
    ASSUME NEW i, NEW q \in Nat, NEW b \in 1..Shelf, NEW made
    PROVE  /\ StockHeld("readNamed", [SupplyNothing EXCEPT !.of = i, !.qty = q, !.id = b], made)
           /\ [SupplyNothing EXCEPT !.of = i, !.qty = q, !.id = b].qty = q
<1> DEFINE h == [SupplyNothing EXCEPT !.of = i, !.qty = q, !.id = b]
<1>1. HeldShaped(h) /\ h.doc = NoPurchase /\ h.qty = q /\ h.needs = {} /\ h.id = b
  BY SupplyFields, EmptyFields DEF HeldShaped
<1> HIDE DEF h
<1>2. StockHeld("readNamed", h, made) BY <1>1, EmptyFields DEF StockHeld, Serving, Owing
<1> QED BY <1>1, <1>2 DEF h

(* What a handler works on besides its writes, its ingredient and its      *)
(* quantity stays as it was.                                               *)
LEMMA RestHeld ==
    ASSUME NEW label, NEW held, NEW made, StockHeld(label, held, made)
    PROVE  /\ HeldShaped(held)
           /\ \A i \in Ingredients : held.doc.items[i] \in Int
BY DEF StockHeld

LEMMA UseRecorded ==
    ASSUME StockInv, IsFiniteSet(SupplyStaff), NEW p \in SupplyStaff,
           RecordUse(p) \/ RecordServing(p)
    PROVE  StockInv'
<1> DEFINE l == supplyLoc[p]
<1>0. StockHeld(supplyPc[p], l, Made) BY DEF StockInv, StockTypeOK
<1>1. CASE RecordUse(p)
  <2>1. PICK i \in Ingredients, q \in Quantities, b \in 1..Shelf \cup {0} :
           /\ ledger' = [ledger EXCEPT ![i] = @ + q]
           /\ \/ SupplyGo(p, "read", [SupplyNothing EXCEPT !.of = i, !.qty = q])
              \/ /\ b \in 1..Shelf
                 /\ SupplyGo(p, "readNamed", [SupplyNothing EXCEPT !.of = i, !.qty = q, !.id = b])
    BY <1>1 DEF RecordUse
  <2>2. UNCHANGED <<batch, purchase, forecast, day>> /\ supplyPc[p] \notin Owing
    BY <1>1 DEF RecordUse, Owing
  <2>3. q \in Nat BY SupplyAssumption
  <2>4. "read" \in Owing /\ "readNamed" \in Owing BY DEF Owing
  <2>5. CASE SupplyGo(p, "read", [SupplyNothing EXCEPT !.of = i, !.qty = q])
    <3> DEFINE h == [SupplyNothing EXCEPT !.of = i, !.qty = q]
    <3>1. StockHeld("read", h, Made) /\ h.qty = q BY <2>3, UseHeld
    <3>2. SupplyGo(p, "read", h) BY <2>5
    <3> HIDE DEF h
    <3> QED BY <2>1, <2>2, <2>3, <2>4, <3>1, <3>2, StockRecorded
  <2>6. CASE /\ b \in 1..Shelf
             /\ SupplyGo(p, "readNamed", [SupplyNothing EXCEPT !.of = i, !.qty = q, !.id = b])
    <3> DEFINE h == [SupplyNothing EXCEPT !.of = i, !.qty = q, !.id = b]
    <3>1. StockHeld("readNamed", h, Made) /\ h.qty = q BY <2>3, <2>6, NamedUseHeld
    <3>2. SupplyGo(p, "readNamed", h) BY <2>6
    <3> HIDE DEF h
    <3> QED BY <2>1, <2>2, <2>3, <2>4, <3>1, <3>2, StockRecorded
  <2> QED BY <2>1, <2>5, <2>6
<1>2. CASE RecordServing(p)
  <2>1. PICK i \in l.needs :
           /\ ledger' = [ledger EXCEPT ![i] = @ + Recipe[l.dish][i]]
           /\ SupplyGo(p, "read", [l EXCEPT !.needs = @ \ {i}, !.of = i, !.qty = Recipe[l.dish][i]])
    BY <1>2 DEF RecordServing
  <2>2. UNCHANGED <<batch, purchase, forecast, day>> /\ supplyPc[p] = "take" /\ supplyPc[p] \notin Owing
    BY <1>2 DEF RecordServing, Owing
  <2>3. l.dish \in Dishes /\ l.needs \subseteq Ingredients
    BY <1>0, <2>1, <2>2 DEF StockHeld, Serving
  <2>4. PICK q : q = Recipe[l.dish][i] OBVIOUS
  <2>5. q \in Nat /\ i \in Ingredients BY <2>1, <2>3, <2>4, SupplyAssumption
  <2> DEFINE h == [l EXCEPT !.needs = @ \ {i}, !.of = i, !.qty = q]
  <2>6. HeldShaped(l) BY <1>0, RestHeld
  <2>7. /\ HeldShaped(h) /\ h.doc = l.doc /\ h.qty = q /\ h.needs = l.needs \ {i}
        /\ h.dish = l.dish
    BY <2>6, SupplyFields DEF HeldShaped
  <2>8. SupplyGo(p, "read", h) BY <2>1, <2>4
  <2> HIDE DEF h
  <2>9. StockHeld("read", h, Made)
    BY <1>0, <2>3, <2>5, <2>7, RestHeld DEF StockHeld, Serving, Owing
  <2>10. "read" \in Owing BY DEF Owing
  <2>11. ledger' = [ledger EXCEPT ![i] = @ + q] BY <2>1, <2>4
  <2> QED BY <2>2, <2>5, <2>7, <2>8, <2>9, <2>10, <2>11, StockRecorded
<1> QED BY <1>1, <1>2

LEMMA BatchesRead ==
    ASSUME StockInv, IsFiniteSet(SupplyStaff), NEW p \in SupplyStaff,
           ReadNamedBatch(p) \/ ReadBatches(p)
    PROVE  StockInv'
<1> DEFINE l == supplyLoc[p]
<1>0. StockHeld(supplyPc[p], l, Made) /\ StockDocsOK BY DEF StockInv, StockTypeOK
<1>1. CASE ReadNamedBatch(p)
  <2>1. /\ supplyPc[p] = "readNamed" /\ supplyPc[p] \in Owing
        /\ UNCHANGED <<batch, purchase, ledger, forecast, day>>
    BY <1>1 DEF ReadNamedBatch, Owing
  <2>2. PICK b : b = l.id OBVIOUS
  <2>3. b \in 1..Shelf /\ l.qty \in Nat BY <1>0, <2>1, <2>2 DEF StockHeld
  <2>4. CASE batch[b].left > 0
    <3> DEFINE w == [c \in {b} |-> Max({0, batch[b].left - l.qty})]
               h == [SupplyNothing EXCEPT !.writes = w]
               take == [c \in 1..Shelf |-> IF c \in DOMAIN w THEN batch[c].left - w[c] ELSE 0]
    <3>1. SupplyGo(p, "write", h) BY <1>1, <2>2, <2>4 DEF ReadNamedBatch
    <3>2. HeldShaped(h) /\ h.doc = NoPurchase /\ h.needs = {} /\ h.writes = w
      BY SupplyFields, EmptyFields DEF HeldShaped
    <3>3. b \in Made BY <1>0, <2>3, <2>4 DEF Made, StockDocsOK
    <3>4. PICK n \in Nat : n = batch[b].left BY <1>0, <2>3 DEF StockDocsOK
    <3>5. PICK q \in Nat : q = l.qty BY <2>3
    <3>6. n - q \in Int BY <3>4, <3>5
    <3>7. w[b] = IF n - q <= 0 THEN 0 ELSE n - q BY <3>4, <3>5, <3>6, MaxOfTwo
    <3>8. DOMAIN w = {b} OBVIOUS
    <3>9. \A c \in 1..Shelf : take[c] = IF c = b THEN batch[b].left - w[b] ELSE 0 BY <3>8
    <3>10. w[b] \in Nat /\ w[b] <= n /\ n - w[b] \in Nat /\ n - w[b] <= q
      <4> HIDE DEF w
      <4> QED BY <3>7
    <3> HIDE DEF w, h
    <3>11. SumFunctionOnSet(take, 1..Shelf) <= q
      <4>1. take[b] = n - w[b] BY <2>3, <3>4, <3>9
      <4>2. \A c \in (1..Shelf) \ {b} : take[c] = 0 BY <3>9
      <4> HIDE DEF take
      <4>3. \A c \in {b} : take[c] \in Int BY <3>10, <4>1
      <4>4. {b} \subseteq 1..Shelf /\ IsFiniteSet(1..Shelf) BY <2>3, ShelfFinite
      <4>5. PICK S : S = 1..Shelf OBVIOUS
      <4>6. SumFunctionOnSet(take, S) = SumFunctionOnSet(take, {b})
        BY <4>2, <4>3, <4>4, <4>5, SumSupport
      <4>7. SumFunctionOnSet(take, {b}) = take[b]
        <5>1. IsFiniteSet({}) /\ b \notin {} BY FS_EmptySet
        <5>2. {} \cup {b} = {b} /\ \A c \in {} \cup {b} : take[c] \in Int BY <4>3
        <5>3. SumFunctionOnSet(take, {} \cup {b}) = SumFunctionOnSet(take, {}) + take[b]
          BY <5>1, <5>2, SumAdd
        <5>4. take[b] \in Int BY <4>3
        <5> QED BY <5>2, <5>3, <5>4, SumEmpty
      <4> QED BY <3>10, <4>1, <4>5, <4>6, <4>7
    <3>12. StockHeld("write", h, Made)
      BY <3>2, <3>3, <3>8, <3>10, EmptyFields DEF StockHeld, Serving, Owing
    <3>13. \A c \in DOMAIN w : w[c] <= batch[c].left BY <3>4, <3>8, <3>10
    <3>14. SumFunctionOnSet(take, 1..Shelf) <= l.qty BY <3>5, <3>11
    <3> QED BY <2>1, <3>1, <3>2, <3>12, <3>13, <3>14, StockRead
  <2>5. CASE ~ (batch[b].left > 0)
    <3>1. SupplyGo(p, "idle", SupplyNothing) BY <1>1, <2>2, <2>5, SupplyDoneGoes DEF ReadNamedBatch
    <3>2. StockDocsOK' BY <1>0, <2>1 DEF StockDocsOK, SupplyDocsOK
    <3>3. "idle" \notin Owing BY DEF Owing
    <3>4. StockHeld("idle", SupplyNothing, Made) BY NothingHeld
    <3> QED BY <2>1, <3>1, <3>2, <3>3, <3>4, StockMove
  <2> QED BY <2>4, <2>5
<1>2. CASE ReadBatches(p)
  <2>1. /\ supplyPc[p] = "read" /\ supplyPc[p] \in Owing
        /\ UNCHANGED <<batch, purchase, ledger, forecast, day>>
    BY <1>2 DEF ReadBatches, Owing
  <2>2. PICK w : w = FefoWrites(l.of, l.qty) OBVIOUS
  <2> DEFINE h == [l EXCEPT !.writes = w]
  <2>3. SupplyGo(p, "write", h) BY <1>2, <2>2 DEF ReadBatches
  <2>4. HeldShaped(l) /\ l.qty \in Nat BY <1>0, <2>1 DEF StockHeld
  <2>5. /\ HeldShaped(h) /\ h.doc = l.doc /\ h.needs = l.needs /\ h.dish = l.dish /\ h.writes = w
    BY <2>4, SupplyFields DEF HeldShaped
  <2>6. PICK i, q : i = l.of /\ q = l.qty OBVIOUS
  <2>7. q \in Nat /\ w = FefoWrites(i, q) BY <2>2, <2>4, <2>6
  <2>8. /\ DOMAIN w \subseteq Made
        /\ \A b \in DOMAIN w : w[b] \in Nat /\ w[b] <= batch[b].left
        /\ SumFunctionOnSet([b \in 1..Shelf |-> IF b \in DOMAIN w THEN batch[b].left - w[b]
                                                ELSE 0], 1..Shelf) <= q
    BY <1>0, <2>7, FefoTakes
  <2> HIDE DEF h
  <2>9. StockHeld("write", h, Made)
    BY <1>0, <2>1, <2>5, <2>8 DEF StockHeld, Serving, Owing
  <2> QED BY <2>1, <2>3, <2>5, <2>6, <2>8, <2>9, StockRead
<1> QED BY <1>1, <1>2

LEMMA BatchWritten ==
    ASSUME StockInv, IsFiniteSet(SupplyStaff), NEW p \in SupplyStaff, WriteBatch(p)
    PROVE  StockInv'
<1> DEFINE l == supplyLoc[p]
           w == supplyLoc[p].writes
<1>0. StockHeld(supplyPc[p], l, Made) /\ StockDocsOK BY DEF StockInv, StockTypeOK
<1>1. /\ supplyPc[p] = "write"
      /\ UNCHANGED <<purchase, ledger, forecast, day>>
  BY DEF WriteBatch
<1>2. PICK b \in DOMAIN w :
         /\ batch' = [batch EXCEPT ![b].left = w[b]]
         /\ SupplyGo(p, "write", [l EXCEPT !.writes = Restrict(@, DOMAIN @ \ {b})])
  BY DEF WriteBatch
<1>3. b \in Made /\ w[b] \in Nat /\ DOMAIN w \subseteq Made /\ HeldShaped(l)
  BY <1>0, <1>1 DEF StockHeld
<1>4. /\ DOMAIN batch' = 1..Shelf
      /\ \A c \in 1..Shelf : /\ DOMAIN batch'[c] = DOMAIN batch[c]
                             /\ batch'[c].from = batch[c].from
                             /\ batch'[c].got = batch[c].got
                             /\ batch'[c].expiry = batch[c].expiry
                             /\ batch'[c].left = IF c = b THEN w[b] ELSE batch[c].left
  BY <1>0, <1>2, SupplyFields DEF StockDocsOK, SupplyDocsOK
<1>5. SupplyDocsOK' BY <1>0, <1>1, <1>4 DEF StockDocsOK, SupplyDocsOK
<1>6. StockDocsOK' BY <1>0, <1>1, <1>3, <1>4, <1>5 DEF StockDocsOK, Made
<1>7. Made' = Made BY <1>4 DEF Made
<1>8. PICK v : v = Restrict(w, DOMAIN w \ {b}) OBVIOUS
<1>9. DOMAIN v \subseteq DOMAIN w /\ \A c \in DOMAIN v : v[c] = w[c] BY <1>8 DEF Restrict
<1> DEFINE h == [l EXCEPT !.writes = v]
<1>10. SupplyGo(p, "write", h) BY <1>2, <1>8
<1>11. /\ HeldShaped(h) /\ h.doc = l.doc /\ h.needs = l.needs /\ h.dish = l.dish /\ h.writes = v
  BY <1>3, SupplyFields DEF HeldShaped
<1> HIDE DEF h
<1>12. StockHeld("write", h, Made')
  BY <1>0, <1>1, <1>7, <1>9, <1>11 DEF StockHeld, Serving, Owing
<1>13. PICK share : Covers(share) BY DEF StockInv
<1>14. \A c \in DOMAIN w : batch[c].got - w[c] <= share[c] BY <1>1, <1>13 DEF Covers
<1>15. \A c \in 1..Shelf : batch'[c].got - batch'[c].left <= share[c]
  BY <1>4, <1>13, <1>14 DEF Covers
<1>16. \A c \in DOMAIN h.writes : batch'[c].got - h.writes[c] <= share[c]
  BY <1>3, <1>4, <1>9, <1>11, <1>14 DEF Made
<1>17. \A c \in Made : batch'[c].got = batch[c].got BY <1>4 DEF Made
<1>18. "write" \notin Owing BY DEF Owing
<1> QED BY <1>1, <1>6, <1>10, <1>12, <1>13, <1>15, <1>16, <1>17, <1>18, StockChanged

LEMMA DocsSame ==
    ASSUME StockDocsOK, UNCHANGED <<batch, purchase, ledger, forecast, day>> PROVE StockDocsOK'
BY DEF StockDocsOK, SupplyDocsOK

LEMMA CookStock ==
    ASSUME StockInv, IsFiniteSet(SupplyStaff), NEW p \in SupplyStaff, CookStep(p)
    PROVE  StockInv'
<1> DEFINE l == supplyLoc[p]
<1>0. StockHeld(supplyPc[p], l, Made) /\ StockDocsOK BY DEF StockInv, StockTypeOK
<1>1. CASE ServeDish(p)
  <2>1. UNCHANGED <<batch, purchase, ledger, forecast, day>> BY <1>1 DEF ServeDish
  <2>2. PICK d \in Dishes :
           SupplyGo(p, "take", [SupplyNothing EXCEPT
                                  !.dish = d, !.needs = {i \in Ingredients : Recipe[d][i] > 0}])
    BY <1>1 DEF ServeDish
  <2>3. PICK needs : needs = {i \in Ingredients : Recipe[d][i] > 0} OBVIOUS
  <2> DEFINE h == [SupplyNothing EXCEPT !.dish = d, !.needs = needs]
  <2>4. SupplyGo(p, "take", h) BY <2>2, <2>3
  <2>5. /\ HeldShaped(h) /\ h.doc = NoPurchase /\ h.dish = d /\ h.needs = needs
    BY SupplyFields DEF HeldShaped
  <2> HIDE DEF h
  <2>6. needs \subseteq Ingredients BY <2>3
  <2>7. StockHeld("take", h, Made) BY <2>5, <2>6, EmptyFields DEF StockHeld, Owing
  <2>8. "take" \notin Owing BY DEF Owing
  <2> QED BY <1>0, <2>1, <2>4, <2>7, <2>8, DocsSame, StockMove
<1>2. CASE FinishTaking(p)
  <2>1. UNCHANGED <<batch, purchase, ledger, forecast, day>> /\ supplyPc[p] = "write"
    BY <1>2 DEF FinishTaking
  <2>2. "idle" \notin Owing /\ "take" \notin Owing BY DEF Owing
  <2>3. StockDocsOK' BY <1>0, <2>1, DocsSame
  <2>4. CASE l.needs = {}
    <3>1. SupplyGo(p, "idle", SupplyNothing) BY <1>2, <2>4, SupplyDoneGoes DEF FinishTaking
    <3>2. StockHeld("idle", SupplyNothing, Made) BY NothingHeld
    <3> QED BY <2>1, <2>2, <2>3, <3>1, <3>2, StockMove
  <2>5. CASE l.needs # {}
    <3>1. SupplyGo(p, "take", l) BY <1>2, <2>5 DEF FinishTaking
    <3>2. StockHeld("take", l, Made) BY <1>0, <2>1 DEF StockHeld, Serving, Owing
    <3> QED BY <2>1, <2>2, <2>3, <3>1, <3>2, StockMove
  <2> QED BY <2>4, <2>5
<1> QED BY <1>1, <1>2, UseRecorded, BatchesRead, BatchWritten DEF CookStep

(* A batch that comes in is whole, and nobody is about to write it.        *)
LEMMA BatchComesIn ==
    ASSUME StockInv, IsFiniteSet(SupplyStaff), NEW p \in SupplyStaff,
           NEW label, label \notin Owing, label # "write", NEW held, SupplyGo(p, label, held),
           NEW c \in 1..Shelf, NEW i \in Ingredients, NEW q \in Int, q > 0, NEW e \in Int,
           NEW n \in 0..Purchases,
           batch[c] = NoBatch,
           batch' = [batch EXCEPT ![c] = [of |-> i, got |-> q, left |-> q, expiry |-> e,
                                          from |-> <<n, i>>]],
           UNCHANGED <<purchase, ledger, forecast, day>>,
           \A made : StockHeld(label, held, made)
    PROVE  StockInv'
<1>0. StockDocsOK BY DEF StockInv, StockTypeOK
<1>1. /\ DOMAIN batch' = 1..Shelf
      /\ DOMAIN batch'[c] = DOMAIN NoBatch
      /\ batch'[c].got = q /\ batch'[c].left = q /\ batch'[c].expiry = e /\ batch'[c].from = <<n, i>>
      /\ \A b \in 1..Shelf : b # c => batch'[b] = batch[b]
  BY <1>0, SupplyFields DEF StockDocsOK, SupplyDocsOK
<1>2. <<n, i>> \in Origins BY DEF Origins
<1>3. SupplyDocsOK' BY <1>0, <1>1, <1>2 DEF StockDocsOK, SupplyDocsOK
<1>4. q \in Nat OBVIOUS
<1>5. StockDocsOK' BY <1>0, <1>1, <1>3, <1>4 DEF StockDocsOK
<1>6. c \notin Made BY EmptyFields DEF Made
<1>7. \A b \in Made : batch'[b].got = batch[b].got BY <1>1, <1>6 DEF Made
<1>8. PICK share : Covers(share) BY DEF StockInv
<1>9. \A b \in 1..Shelf : batch'[b].got - batch'[b].left <= share[b]
  <2> SUFFICES ASSUME NEW b \in 1..Shelf PROVE batch'[b].got - batch'[b].left <= share[b] OBVIOUS
  <2>1. CASE b = c
    <3>1. share[b] \in Nat BY <1>8 DEF Covers
    <3> QED BY <1>1, <2>1, <3>1
  <2>2. CASE b # c BY <1>1, <1>8, <2>2 DEF Covers
  <2> QED BY <2>1, <2>2
<1>10. StockHeld(label, held, Made') OBVIOUS
<1> QED BY <1>5, <1>7, <1>8, <1>9, <1>10, StockChanged

LEMMA StandsStill ==
    ASSUME StockInv, UNCHANGED <<supplyPc, supplyLoc>>, NEW p \in SupplyStaff
    PROVE  SupplyGo(p, supplyPc[p], supplyLoc[p])
<1>1. StockTypeOK BY DEF StockInv
<1>2. supplyPc = [supplyPc EXCEPT ![p] = supplyPc[p]] BY <1>1 DEF StockTypeOK
<1>3. supplyLoc = [supplyLoc EXCEPT ![p] = supplyLoc[p]] BY <1>1 DEF StockTypeOK
<1> QED BY <1>2, <1>3 DEF SupplyGo

(* The purchase orders may change as long as their quantities stay numbers.*)
LEMMA PurchaseDocs ==
    ASSUME StockDocsOK, SupplyDocsOK', UNCHANGED <<batch, ledger, forecast, day>>,
           \A n \in 1..Purchases, i \in Ingredients : purchase'[n].items[i] \in Int
    PROVE  StockDocsOK'
BY DEF StockDocsOK

LEMMA DeskStock ==
    ASSUME StockInv, IsFiniteSet(SupplyStaff), NEW p \in SupplyStaff, DeskStep(p)
    PROVE  StockInv'
<1> DEFINE l == supplyLoc[p]
<1>0. StockHeld(supplyPc[p], l, Made) /\ StockDocsOK /\ SupplyDocsOK /\ HeldShaped(l)
  BY RestHeld DEF StockInv, StockTypeOK, StockDocsOK
<1>m. {"idle", "receive", "setStatus"} \cap Owing = {} BY DEF Owing
<1>1. CASE CreateBatch(p)
  <2>1. PICK c \in 1..Shelf, i \in Ingredients, q \in Quantities, e \in 0..LastDay :
           /\ batch[c] = NoBatch
           /\ batch' = [batch EXCEPT ![c] = [of |-> i, got |-> q, left |-> q, expiry |-> e,
                                             from |-> <<0, i>>]]
    BY <1>1 DEF CreateBatch
  <2>2. /\ supplyPc[p] = "idle" /\ UNCHANGED <<supplyPc, supplyLoc>>
        /\ UNCHANGED <<purchase, ledger, forecast, day>>
    BY <1>1 DEF CreateBatch
  <2>3. SupplyGo(p, "idle", l) BY <2>2, StandsStill
  <2>4. q \in Int /\ q > 0 /\ e \in Int /\ 0 \in 0..Purchases BY SupplyAssumption
  <2>5. \A made : StockHeld("idle", l, made) BY <1>0, <2>2 DEF StockHeld, Serving
  <2> QED BY <1>m, <2>1, <2>2, <2>3, <2>4, <2>5, BatchComesIn
<1>2. CASE CreatePurchase(p)
  <2>1. PICK n, items, status, due :
           /\ n \in 1..Purchases /\ items \in [Ingredients -> Quantities \cup {0}]
           /\ purchase' = [purchase EXCEPT ![n] = [status |-> status, items |-> items,
                                                   due |-> due, source |-> "manual"]]
    BY <1>2 DEF CreatePurchase
  <2>2. /\ supplyPc[p] = "idle" /\ UNCHANGED <<supplyPc, supplyLoc>>
        /\ UNCHANGED <<batch, ledger, forecast, day>>
    BY <1>2 DEF CreatePurchase
  <2>3. /\ DOMAIN purchase' = 1..Purchases
        /\ DOMAIN purchase'[n] = DOMAIN NoPurchase /\ purchase'[n].items = items
        /\ \A m \in 1..Purchases : m # n => purchase'[m] = purchase[m]
    BY <1>0, <2>1, SupplyFields DEF SupplyDocsOK
  <2>4. SupplyDocsOK' BY <1>0, <2>1, <2>2, <2>3 DEF SupplyDocsOK
  <2>5. \A i \in Ingredients : items[i] \in Int
    <3>1. \A i \in Ingredients : items[i] \in Quantities \cup {0} BY <2>1
    <3>2. Quantities \cup {0} \subseteq Int BY SupplyAssumption
    <3> QED BY <3>1, <3>2
  <2>6. \A m \in 1..Purchases, i \in Ingredients : purchase'[m].items[i] \in Int
    BY <1>0, <2>3, <2>5 DEF StockDocsOK
  <2>7. StockDocsOK' BY <1>0, <2>2, <2>4, <2>6, PurchaseDocs
  <2>8. SupplyGo(p, "idle", l) BY <2>2, StandsStill
  <2>9. StockHeld("idle", l, Made) BY <1>0, <2>2
  <2> QED BY <1>m, <2>2, <2>7, <2>8, <2>9, StockMove
<1>3. CASE ReadReceipt(p)
  <2>1. PICK n \in 1..Purchases :
           SupplyGo(p, "receive", [SupplyNothing EXCEPT !.id = n, !.doc = purchase[n]])
    BY <1>3 DEF ReadReceipt
  <2> DEFINE h == [SupplyNothing EXCEPT !.id = n, !.doc = purchase[n]]
  <2>2. HeldShaped(h) /\ h.doc = purchase[n] /\ h.id = n
    BY <1>0, SupplyFields DEF HeldShaped, SupplyDocsOK
  <2>3. SupplyGo(p, "receive", h) BY <2>1
  <2> HIDE DEF h
  <2>4. \A i \in Ingredients : h.doc.items[i] \in Int BY <1>0, <2>2 DEF StockDocsOK
  <2>5. StockHeld("receive", h, Made) BY <1>m, <2>2, <2>4 DEF StockHeld, Serving
  <2>6. UNCHANGED <<batch, purchase, ledger, forecast, day>> BY <1>3 DEF ReadReceipt
  <2> QED BY <1>0, <1>m, <2>3, <2>5, <2>6, DocsSame, StockMove
<1>4. CASE ReceiveItem(p)
  <2>1. PICK i, c, e :
           /\ i \in Ingredients /\ c \in 1..Shelf /\ e \in day..LastDay
           /\ l.doc.items[i] > 0 /\ batch[c] = NoBatch
           /\ batch' = [batch EXCEPT ![c] = [of |-> i, got |-> l.doc.items[i],
                                             left |-> l.doc.items[i], expiry |-> e,
                                             from |-> <<l.id, i>>]]
           /\ SupplyGo(p, "receive", [l EXCEPT !.doc.items[i] = 0])
    BY <1>4 DEF ReceiveItem
  <2>2. UNCHANGED <<purchase, ledger, forecast, day>> /\ supplyPc[p] = "receive"
    BY <1>4 DEF ReceiveItem
  <2>3. PICK n, q : n = l.id /\ q = l.doc.items[i] OBVIOUS
  <2>4. q \in Int /\ q > 0 /\ e \in Int
    BY <1>0, <2>1, <2>3, SupplyAssumption DEF StockHeld, StockDocsOK
  <2>5. n \in 0..Purchases BY <1>0, <2>2, <2>3 DEF StockHeld
  <2> DEFINE h == [l EXCEPT !.doc.items[i] = 0]
  <2>6. /\ HeldShaped(h)
        /\ \A j \in Ingredients : h.doc.items[j] = IF j = i THEN 0 ELSE l.doc.items[j]
        /\ h.id = n
    BY <1>0, <2>3, SupplyFields DEF HeldShaped
  <2>7. SupplyGo(p, "receive", h) BY <2>1
  <2> HIDE DEF h
  <2>8. \A made : StockHeld("receive", h, made)
    BY <1>0, <1>m, <2>2, <2>3, <2>6 DEF StockHeld, Serving
  <2>9. batch' = [batch EXCEPT ![c] = [of |-> i, got |-> q, left |-> q, expiry |-> e,
                                       from |-> <<n, i>>]]
    BY <2>1, <2>3
  <2> QED BY <1>m, <2>1, <2>2, <2>4, <2>5, <2>7, <2>8, <2>9, BatchComesIn
<1>5. CASE MarkReceived(p) \/ SetStatus(p)
  <2>1. PICK status : SetPurchase(p, status) BY <1>5 DEF MarkReceived, SetStatus
  <2>2. SupplyGo(p, "idle", SupplyNothing) /\ UNCHANGED <<batch, ledger, forecast, day>>
    BY <1>5, SupplyDoneGoes DEF MarkReceived, SetStatus
  <2>3. purchase' = [purchase EXCEPT ![l.id].status = status] BY <2>1 DEF SetPurchase
  <2>4. /\ DOMAIN purchase' = 1..Purchases
        /\ \A m \in 1..Purchases : /\ DOMAIN purchase'[m] = DOMAIN purchase[m]
                                   /\ purchase'[m].items = purchase[m].items
    BY <1>0, <2>3, SupplyFields DEF SupplyDocsOK
  <2>5. SupplyDocsOK' BY <1>0, <2>2, <2>4 DEF SupplyDocsOK
  <2>6. \A m \in 1..Purchases, i \in Ingredients : purchase'[m].items[i] \in Int
    BY <1>0, <2>4 DEF StockDocsOK
  <2>7. StockDocsOK' BY <1>0, <2>2, <2>5, <2>6, PurchaseDocs
  <2>8. StockHeld("idle", SupplyNothing, Made) BY NothingHeld
  <2> QED BY <1>m, <2>2, <2>7, <2>8, StockMove
<1>6. CASE ReadStatus(p)
  <2>1. PICK n, status :
           SupplyGo(p, "setStatus", [SupplyNothing EXCEPT !.id = n, !.doc.status = status])
    BY <1>6 DEF ReadStatus
  <2> DEFINE h == [SupplyNothing EXCEPT !.id = n, !.doc.status = status]
  <2>2. HeldShaped(h) /\ h.doc.items = NoPurchase.items
    BY SupplyFields DEF HeldShaped
  <2>3. SupplyGo(p, "setStatus", h) BY <2>1
  <2> HIDE DEF h
  <2>4. StockHeld("setStatus", h, Made) BY <1>m, <2>2, EmptyFields DEF StockHeld, Serving
  <2>5. UNCHANGED <<batch, purchase, ledger, forecast, day>> BY <1>6 DEF ReadStatus
  <2> QED BY <1>0, <1>m, <2>3, <2>4, <2>5, DocsSame, StockMove
<1> QED BY <1>1, <1>2, <1>3, <1>4, <1>5, <1>6 DEF DeskStep

LEMMA AvailableTyped ==
    ASSUME StockDocsOK, NEW i \in Ingredients
    PROVE  AvailableFor(i) \in Int
<1> DEFINE S == {b \in 1..Shelf : batch[b].of = i /\ batch[b].expiry > Week}
           O == {n \in 1..Purchases : purchase[n].status = "sent" /\ purchase[n].due <= Week}
           f == [n \in 1..Purchases |-> purchase[n].items[i]]
<1>1. S \in SUBSET (1..Shelf) /\ O \subseteq 1..Purchases OBVIOUS
<1>2. \A n \in O : f[n] \in Int BY DEF StockDocsOK
<1>3. AvailableFor(i) = LeftIn(S) + SumFunctionOnSet(f, O) BY DEF AvailableFor
<1> HIDE DEF S, O, f
<1>4. LeftIn(S) \in Nat BY <1>1, LeftInTyped
<1>5. IsFiniteSet(O) BY <1>1, ShelfFinite, FS_Subset
<1>6. SumFunctionOnSet(f, O) \in Int BY <1>2, <1>5, SumInt
<1> QED BY <1>3, <1>4, <1>6

LEMMA ForecasterStock ==
    ASSUME StockInv, IsFiniteSet(SupplyStaff), NEW p \in SupplyStaff, ForecasterStep(p)
    PROVE  StockInv'
<1> DEFINE l == supplyLoc[p]
<1>0. StockHeld(supplyPc[p], l, Made) /\ StockDocsOK /\ SupplyDocsOK /\ HeldShaped(l)
  BY RestHeld DEF StockInv, StockTypeOK, StockDocsOK
<1>m. {"idle", "compare", "findDraft", "saveDraft"} \cap Owing = {} BY DEF Owing
<1>1. CASE Recalculate(p)
  <2>1. /\ SupplyGo(p, "compare", SupplyNothing) /\ UNCHANGED <<batch, purchase, ledger, day>>
        /\ forecast' \in [Ingredients -> Quantities \cup {0}]
    BY <1>1 DEF Recalculate
  <2>2. Quantities \cup {0} \subseteq Int BY SupplyAssumption
  <2>3. forecast' \in [Ingredients -> Int] BY <2>1, <2>2
  <2>4. SupplyDocsOK' BY <1>0, <2>1 DEF SupplyDocsOK
  <2>5. StockDocsOK' BY <1>0, <2>1, <2>3, <2>4 DEF StockDocsOK
  <2>6. StockHeld("compare", SupplyNothing, Made) BY NothingHeld
  <2> QED BY <1>m, <2>1, <2>5, <2>6, StockMove
<1>2. CASE CompareStock(p)
  <2>1. UNCHANGED <<batch, purchase, ledger, forecast, day>> BY <1>2 DEF CompareStock
  <2>2. PICK short : short = Shortfall OBVIOUS
  <2>3. DOMAIN short = Ingredients /\ \A i \in Ingredients : short[i] \in Int
    <3>1. ASSUME NEW i \in Ingredients PROVE short[i] \in Int
      <4>1. CASE Supplier[i] = NoSupplier BY <2>2, <4>1 DEF Shortfall
      <4>2. CASE Supplier[i] # NoSupplier
        <5>1. PICK x : x = forecast[i] - AvailableFor(i) OBVIOUS
        <5>2. x \in Int BY <1>0, <5>1, AvailableTyped DEF StockDocsOK
        <5>3. short[i] = Max({0, x}) BY <2>2, <4>2, <5>1 DEF Shortfall
        <5> QED BY <5>2, <5>3, MaxOfTwo
      <4> QED BY <4>1, <4>2
    <3> QED BY <2>2, <3>1 DEF Shortfall
  <2>4. PICK t : SupplyGo(p, "findDraft", [SupplyNothing EXCEPT !.doc.items = short, !.todo = t])
    BY <1>2, <2>2 DEF CompareStock
  <2> DEFINE h == [SupplyNothing EXCEPT !.doc.items = short, !.todo = t]
  <2>5. HeldShaped(h) /\ h.doc.items = short BY <2>3, SupplyFields DEF HeldShaped
  <2>6. SupplyGo(p, "findDraft", h) BY <2>4
  <2> HIDE DEF h
  <2>7. StockHeld("findDraft", h, Made) BY <1>m, <2>3, <2>5 DEF StockHeld, Serving
  <2> QED BY <1>0, <1>m, <2>1, <2>6, <2>7, DocsSame, StockMove
<1>3. CASE FindDraft(p)
  <2>1. UNCHANGED <<batch, purchase, ledger, forecast, day>> BY <1>3 DEF FindDraft
  <2>2. PICK s, n : SupplyGo(p, "saveDraft", [l EXCEPT !.todo = @ \ {s}, !.dish = s, !.id = n])
    BY <1>3 DEF FindDraft
  <2> DEFINE h == [l EXCEPT !.todo = @ \ {s}, !.dish = s, !.id = n]
  <2>3. HeldShaped(h) /\ h.doc = l.doc BY <1>0, SupplyFields DEF HeldShaped
  <2>4. SupplyGo(p, "saveDraft", h) BY <2>2
  <2> HIDE DEF h
  <2>5. StockHeld("saveDraft", h, Made) BY <1>0, <1>m, <2>3 DEF StockHeld, Serving
  <2> QED BY <1>0, <1>m, <2>1, <2>4, <2>5, DocsSame, StockMove
<1>4. CASE SaveDraft(p)
  <2> DEFINE items == ItemsFor(l.dish, l.doc.items)
             draft == [status |-> "draft", items |-> items, due |-> Week, source |-> "ai_forecast"]
  <2>1. DOMAIN items = Ingredients /\ \A i \in Ingredients : items[i] \in Int
    BY <1>0 DEF ItemsFor, StockHeld
  <2>2. SupplyGo(p, "findDraft", l) /\ UNCHANGED <<batch, ledger, forecast, day>>
    BY <1>4 DEF SaveDraft
  <2>3. PICK n : \/ purchase' = [purchase EXCEPT ![n].items = items]
                 \/ purchase' = [purchase EXCEPT ![n] = draft]
    BY <1>4 DEF SaveDraft
  <2>4. DOMAIN draft = DOMAIN NoPurchase /\ draft.items = items BY SupplyFields
  <2> HIDE DEF items, draft
  <2>5. DOMAIN purchase' = 1..Purchases BY <1>0, <2>3 DEF SupplyDocsOK
  <2>6. ASSUME NEW m \in 1..Purchases
        PROVE  /\ DOMAIN purchase'[m] = DOMAIN NoPurchase
               /\ DOMAIN purchase'[m].items = Ingredients
               /\ \A i \in Ingredients : purchase'[m].items[i] \in Int
    <3>1. /\ DOMAIN purchase = 1..Purchases /\ DOMAIN purchase[m] = DOMAIN NoPurchase
          /\ DOMAIN purchase[m].items = Ingredients
          /\ \A i \in Ingredients : purchase[m].items[i] \in Int
      BY <1>0 DEF SupplyDocsOK, StockDocsOK
    <3>2. CASE purchase' = [purchase EXCEPT ![n].items = items]
      BY <2>1, <3>1, <3>2, SupplyFields
    <3>3. CASE purchase' = [purchase EXCEPT ![n] = draft]
      BY <2>1, <2>4, <3>1, <3>3
    <3> QED BY <2>3, <3>2, <3>3
  <2>7. SupplyDocsOK' BY <1>0, <2>2, <2>5, <2>6 DEF SupplyDocsOK
  <2>8. StockDocsOK' BY <1>0, <2>2, <2>6, <2>7, PurchaseDocs
  <2>9. StockHeld("findDraft", l, Made) BY <1>0, <1>m DEF StockHeld, Serving
  <2> QED BY <1>m, <2>2, <2>8, <2>9, StockMove
<1>5. CASE DraftsDone(p)
  <2>1. SupplyGo(p, "idle", SupplyNothing) /\ UNCHANGED <<batch, purchase, ledger, forecast, day>>
    BY <1>5, SupplyDoneGoes DEF DraftsDone
  <2>2. StockHeld("idle", SupplyNothing, Made) BY NothingHeld
  <2> QED BY <1>0, <1>m, <2>1, <2>2, DocsSame, StockMove
<1> QED BY <1>1, <1>2, <1>3, <1>4, <1>5 DEF ForecasterStep

LEMMA StockInit == ASSUME IsFiniteSet(SupplyStaff), InitSupply PROVE StockInv
<1>1. SupplyDocsOK BY SupplyFields DEF InitSupply, SupplyDocsOK
<1>2. StockDocsOK
  <2>1. \A b \in 1..Shelf : batch[b].got = 0 /\ batch[b].left = 0 /\ batch[b].expiry = 0
    BY EmptyFields DEF InitSupply
  <2>2. \A n \in 1..Purchases, i \in Ingredients : purchase[n].items[i] \in Int
    BY EmptyFields DEF InitSupply
  <2>3. ledger \in [Ingredients -> Nat] /\ forecast \in [Ingredients -> Int] /\ day \in Nat
    BY DEF InitSupply, NoItems
  <2> QED BY <1>1, <2>1, <2>2, <2>3 DEF StockDocsOK
<1>3. SupplyControlOK BY SupplyFields DEF InitSupply, SupplyControlOK
<1>4. \A p \in SupplyStaff : supplyPc[p] = "idle" /\ supplyLoc[p] = SupplyNothing BY DEF InitSupply
<1>5. \A p \in SupplyStaff : StockHeld(supplyPc[p], supplyLoc[p], Made) BY <1>4, NothingHeld
<1>6. StockTypeOK BY <1>2, <1>3, <1>5 DEF StockTypeOK, InitSupply
<1> DEFINE share == [b \in 1..Shelf |-> 0]
           owed == [p \in SupplyStaff |-> Owed(supplyPc[p], supplyLoc[p])]
<1>7. \A p \in SupplyStaff : owed[p] = 0 BY <1>4 DEF Owed, Owing
<1>8. \A b \in 1..Shelf : share[b] = 0 OBVIOUS
<1>9. \A i \in Ingredients : ledger[i] = 0 BY DEF InitSupply
<1>10. AllOwed = SumFunctionOnSet(owed, SupplyStaff) BY DEF AllOwed
<1> HIDE DEF owed
<1>11. AllOwed = 0 BY <1>7, <1>10, SumZero
<1>12. OnLedger = 0 BY <1>9, SupplyAssumption, SumZero DEF OnLedger
<1>13. share \in [1..Shelf -> Nat] OBVIOUS
<1> HIDE DEF share
<1>14. SumFunctionOnSet(share, 1..Shelf) = 0 BY <1>8, ShelfFinite, SumZero
<1>15. \A b \in 1..Shelf : batch[b].got - batch[b].left <= share[b]
  BY <1>8, EmptyFields DEF InitSupply
<1>16. Covers(share) BY <1>4, <1>11, <1>12, <1>13, <1>14, <1>15 DEF Covers
<1> QED BY <1>6, <1>16 DEF StockInv

LEMMA StockNext ==
    ASSUME StockInv, IsFiniteSet(SupplyStaff), [NextSupply]_supplyVars
    PROVE  StockInv'
<1>1. CASE \E p \in SupplyStaff : CookStep(p) \/ DeskStep(p) \/ ForecasterStep(p)
  BY <1>1, CookStock, DeskStock, ForecasterStock
<1>2. CASE NextDay \/ UNCHANGED supplyVars
  <2>1. UNCHANGED <<batch, purchase, ledger, forecast, supplyPc, supplyLoc>>
    BY <1>2 DEF NextDay, supplyVars
  <2>2. day' \in Nat BY <1>2 DEF NextDay, supplyVars, StockInv, StockTypeOK, StockDocsOK
  <2>3. StockTypeOK BY DEF StockInv
  <2>4. SupplyDocsOK' /\ SupplyControlOK'
    BY <2>1, <2>3 DEF StockTypeOK, StockDocsOK, SupplyDocsOK, SupplyControlOK
  <2>5. StockDocsOK' BY <2>1, <2>2, <2>3, <2>4 DEF StockTypeOK, StockDocsOK
  <2>6. Made' = Made BY <2>1, MadeSame
  <2>7. StockTypeOK' BY <2>1, <2>3, <2>4, <2>5, <2>6 DEF StockTypeOK
  <2>8. PICK share : Covers(share) BY DEF StockInv
  <2>9. AllOwed' = AllOwed /\ OnLedger' = OnLedger BY <2>1 DEF AllOwed, OnLedger
  <2>10. Covers(share)' BY <2>1, <2>8, <2>9 DEF Covers
  <2> QED BY <2>7, <2>10 DEF StockInv
<1> QED BY <1>1, <1>2 DEF NextSupply

(* The shares cover what has left the shelves.                             *)
LEMMA StockCovered == ASSUME StockInv, IsFiniteSet(SupplyStaff) PROVE LedgerCoversStock
<1>1. PICK share : Covers(share) BY DEF StockInv
<1>2. StockTypeOK BY DEF StockInv
<1> DEFINE gone == [b \in 1..Shelf |-> batch[b].got - batch[b].left]
           owed == [p \in SupplyStaff |-> Owed(supplyPc[p], supplyLoc[p])]
<1>3. \A b \in 1..Shelf : gone[b] \in Int /\ share[b] \in Int /\ gone[b] <= share[b]
  BY <1>1, <1>2 DEF Covers, StockTypeOK, StockDocsOK
<1>4. \A p \in SupplyStaff : owed[p] \in Nat BY <1>2, OldOwed
<1>5. AllOwed = SumFunctionOnSet(owed, SupplyStaff) BY DEF AllOwed
<1>6. SumFunction(gone) = SumFunctionOnSet(gone, 1..Shelf) BY SumOfFunction
<1>7. LedgerCoversStock <=> SumFunction(gone) <= SumFunction(ledger) BY DEF LedgerCoversStock
<1> HIDE DEF gone, owed
<1>8. AllOwed \in Nat BY <1>4, <1>5, SumNat
<1>9. SumFunctionOnSet(gone, 1..Shelf) <= SumFunctionOnSet(share, 1..Shelf)
  <2>1. PICK S : S = 1..Shelf OBVIOUS
  <2>2. IsFiniteSet(S) BY <2>1, ShelfFinite
  <2> QED BY <1>3, <2>1, <2>2, SumMonotone
<1>10. SumFunctionOnSet(gone, 1..Shelf) \in Int /\ SumFunctionOnSet(share, 1..Shelf) \in Int
  BY <1>3, ShelfFinite, SumInt
<1>11. SumFunctionOnSet(share, 1..Shelf) + AllOwed <= OnLedger BY <1>1 DEF Covers
<1>12. ledger \in [Ingredients -> Nat] BY <1>2 DEF StockTypeOK, StockDocsOK
<1>13. SumFunction(ledger) = OnLedger
  <2>1. DOMAIN ledger = Ingredients BY <1>12
  <2> QED BY <2>1, SumOfFunction DEF OnLedger
<1>14. OnLedger \in Int BY <1>12, LedgerTyped DEF OnLedger
<1> QED BY <1>6, <1>7, <1>8, <1>9, <1>10, <1>11, <1>13, <1>14

(* Whatever has left the shelves is on the ledger, for any number of cooks *)
(* whose reads and writes of the same batches interleave, and with any     *)
(* recipes, receipts and expiries in between (createStockTransaction,      *)
(* createWasteEvent and deductInventoryForDeliveredOrder write the row     *)
(* before the batches; deductIngredientStock).                             *)
THEOREM StockCorrect ==
    ASSUME IsFiniteSet(SupplyStaff) PROVE SpecSupply => []LedgerCoversStock
<1>1. InitSupply => StockInv BY StockInit
<1>2. StockInv /\ [NextSupply]_supplyVars => StockInv' BY StockNext
<1>3. StockInv => LedgerCoversStock BY StockCovered
<1> QED BY <1>1, <1>2, <1>3, PTL DEF SpecSupply
-------------------------------------------------------------------------------
(* Plans.  Quantities travel between plans, handlers and the service, and  *)
(* each place keeps them with the date and product they were reported for, *)
(* or that a sale carried them for.                                        *)
ItemDoc == [rec : Int, made : Int]

PlanDoc == [exists : BOOLEAN, items : [Goods -> ItemDoc]]

RowDoc == [made : Int, said : Int]

RowsDoc == [PlanDates -> [Goods -> RowDoc]]

HeldDoc == [date : PlanDates, force : BOOLEAN, seen : PlanDoc, items : [Goods -> ItemDoc],
            rows : RowsDoc]

PlanLabels == {"idle", "ask", "write", "actual", "send"}

PlanningTypeOK ==
    /\ goods \subseteq Goods
    /\ plan \in [PlanDates -> PlanDoc]
    /\ lastSale \in [PlanDates -> [Goods -> Int]]
    /\ learned \in RowsDoc
    /\ planDay \in PlanDates
    /\ planPc \in [PlanStaff -> PlanLabels]
    /\ planLoc \in [PlanStaff -> HeldDoc]

(* No quantity, or one that was reported. *)
WasReported(d, p, made) == made # Unreported => <<d, p, made>> \in reports

(* No row, or a quantity that was reported or that a sale carried.         *)
WasTold(d, p, row) == row # NotLearned => <<d, p, row.made>> \in reports \cup carried

SalesCarry == \A d \in PlanDates, p \in Goods :
    lastSale[d][p] # NotSold => <<d, p, lastSale[d][p]>> \in carried

(* What a handler took from a plan is still what was reported. *)
HeldReported(label, held) ==
    /\ label = "ask"   => \A p \in Goods : WasReported(held.date, p, held.seen.items[p].made)
    /\ label = "write" => \A p \in Goods : WasReported(held.date, p, held.items[p].made)
    /\ label = "send"  => \A d \in PlanDates, p \in Goods : WasTold(d, p, held.rows[d][p])

PlanningInv ==
    /\ PlanningTypeOK /\ SalesCarry
    /\ \A d \in PlanDates, p \in Goods : /\ WasReported(d, p, plan[d].items[p].made)
                                         /\ WasTold(d, p, learned[d][p])
    /\ \A w \in PlanStaff : HeldReported(planPc[w], planLoc[w])

-------------------------------------------------------------------------------
LEMMA ZeroIsADate == 0 \in PlanDates
BY PlanningAssumption DEF PlanDates

LEMMA AmountTyped == ASSUME NEW q \in Amounts PROVE q \in Int
BY PlanningAssumption

LEMMA NothingTyped == /\ NotPlanned \in ItemDoc /\ NothingPlanned \in [Goods -> ItemDoc]
                      /\ NoPlan \in PlanDoc /\ PlanNothing \in HeldDoc
<1>1. NotPlanned \in ItemDoc BY DEF NotPlanned, ItemDoc, Unreported
<1>2. NothingPlanned \in [Goods -> ItemDoc] BY <1>1 DEF NothingPlanned
<1>3. NoPlan \in PlanDoc BY <1>2 DEF NoPlan, PlanDoc
<1>4. [d \in PlanDates |-> [p \in Goods |-> NotLearned]] \in RowsDoc
  BY DEF RowsDoc, RowDoc, NotLearned, NotSold, Unreported
<1>5. PlanNothing \in HeldDoc BY <1>2, <1>3, <1>4, ZeroIsADate DEF PlanNothing, HeldDoc
<1> QED BY <1>1, <1>2, <1>3, <1>5

LEMMA PlanningInit == InitPlanning => PlanningInv
<1> SUFFICES ASSUME InitPlanning PROVE PlanningInv OBVIOUS
<1>1. PlanningTypeOK
  <2>1. plan \in [PlanDates -> PlanDoc] BY NothingTyped DEF InitPlanning
  <2>2. learned \in RowsDoc BY DEF InitPlanning, RowsDoc, RowDoc, NotLearned, NotSold, Unreported
  <2>3. planPc \in [PlanStaff -> PlanLabels] /\ planLoc \in [PlanStaff -> HeldDoc]
    BY NothingTyped DEF InitPlanning, PlanLabels
  <2>4. lastSale \in [PlanDates -> [Goods -> Int]] BY DEF InitPlanning, NotSold
  <2> QED BY <2>1, <2>2, <2>3, <2>4, ZeroIsADate DEF InitPlanning, PlanningTypeOK
<1>2. \A d \in PlanDates, p \in Goods : /\ WasReported(d, p, plan[d].items[p].made)
                                        /\ WasTold(d, p, learned[d][p])
  BY DEF InitPlanning, WasReported, WasTold, NoPlan, NothingPlanned, NotPlanned, NotLearned
<1>3. \A w \in PlanStaff : HeldReported(planPc[w], planLoc[w])
  BY DEF InitPlanning, HeldReported
<1>4. SalesCarry BY DEF InitPlanning, SalesCarry
<1> QED BY <1>1, <1>2, <1>3, <1>4 DEF PlanningInv

(* A handler moves on: with what it holds, and perhaps a new plan, what    *)
(* was learned and reports.                                                *)
LEMMA HandlerStep ==
    ASSUME PlanningInv, NEW w \in PlanStaff, NEW label \in PlanLabels, NEW held \in HeldDoc,
           PlanGo(w, label, held), UNCHANGED <<goods, lastSale, carried, planDay>>,
           reports \subseteq reports', HeldReported(label, held)',
           plan' \in [PlanDates -> PlanDoc], learned' \in RowsDoc,
           \A d \in PlanDates, p \in Goods : /\ WasReported(d, p, plan[d].items[p].made)'
                                             /\ WasTold(d, p, learned[d][p])'
    PROVE  PlanningInv'
<1>1. /\ planPc' \in [PlanStaff -> PlanLabels] /\ planLoc' \in [PlanStaff -> HeldDoc]
      /\ planPc'[w] = label /\ planLoc'[w] = held
      /\ \A v \in PlanStaff \ {w} : planPc'[v] = planPc[v] /\ planLoc'[v] = planLoc[v]
  BY DEF PlanningInv, PlanningTypeOK, PlanGo
<1>2. PlanningTypeOK' BY <1>1 DEF PlanningInv, PlanningTypeOK
<1>3. ASSUME NEW v \in PlanStaff PROVE HeldReported(planPc[v], planLoc[v])'
  <2>1. CASE v = w BY <1>1, <2>1 DEF HeldReported
  <2>2. CASE v # w
    <3>1. HeldReported(planPc[v], planLoc[v]) BY DEF PlanningInv
    <3> QED BY <1>1, <2>2, <3>1 DEF HeldReported, WasReported, WasTold
  <2> QED BY <2>1, <2>2
<1>4. SalesCarry' BY DEF PlanningInv, SalesCarry
<1> QED BY <1>2, <1>3, <1>4 DEF PlanningInv

(* Steps that only read. *)
LEMMA HandlerReads ==
    ASSUME PlanningInv, NEW w \in PlanStaff, NEW label \in PlanLabels, NEW held \in HeldDoc,
           PlanGo(w, label, held), UNCHANGED <<goods, plan, lastSale, learned, reports, carried, planDay>>,
           HeldReported(label, held)
    PROVE  PlanningInv'
<1>1. HeldReported(label, held)' BY DEF HeldReported, WasReported, WasTold
<1>2. \A d \in PlanDates, p \in Goods : /\ WasReported(d, p, plan[d].items[p].made)'
                                        /\ WasTold(d, p, learned[d][p])'
  BY DEF PlanningInv, WasReported, WasTold
<1>3. plan' \in [PlanDates -> PlanDoc] /\ learned' \in RowsDoc BY DEF PlanningInv, PlanningTypeOK
<1> QED BY <1>1, <1>2, <1>3, HandlerStep

LEMMA HandlerTyped ==
    ASSUME PlanningInv, NEW w \in PlanStaff
    PROVE  planLoc[w] \in HeldDoc /\ HeldReported(planPc[w], planLoc[w])
BY DEF PlanningInv, PlanningTypeOK

-------------------------------------------------------------------------------
LEMMA OpenPlanSafe == ASSUME PlanningInv, NEW w \in PlanStaff, OpenPlan(w) PROVE PlanningInv'
<1>1. PICK d \in PlanDates :
        PlanGo(w, "ask", [PlanNothing EXCEPT !.date = d, !.force = TRUE, !.seen = plan[d]])
  BY DEF OpenPlan
<1> DEFINE held == [PlanNothing EXCEPT !.date = d, !.force = TRUE, !.seen = plan[d]]
<1>2. held \in HeldDoc /\ held.date = d /\ held.seen = plan[d]
  <2>1. plan[d] \in PlanDoc /\ PlanNothing \in HeldDoc
    BY NothingTyped DEF PlanningInv, PlanningTypeOK
  <2> QED BY <2>1 DEF HeldDoc
<1>3. PlanGo(w, "ask", held) /\ "ask" \in PlanLabels BY <1>1 DEF PlanLabels
<1> HIDE DEF held
<1>4. HeldReported("ask", held) BY <1>2 DEF HeldReported, PlanningInv
<1> QED BY <1>2, <1>3, <1>4, HandlerReads DEF OpenPlan

LEMMA PlanByCronSafe == ASSUME PlanningInv, NEW w \in PlanStaff, PlanByCron(w) PROVE PlanningInv'
<1> DEFINE held == [PlanNothing EXCEPT !.date = planDay]
<1>1. held \in HeldDoc /\ held.seen = NoPlan
  <2>1. planDay \in PlanDates /\ PlanNothing \in HeldDoc /\ PlanNothing.seen = NoPlan
    BY NothingTyped DEF PlanningInv, PlanningTypeOK, PlanNothing
  <2> QED BY <2>1 DEF HeldDoc
<1>2. PlanGo(w, "ask", held) /\ "ask" \in PlanLabels BY DEF PlanByCron, PlanLabels
<1> HIDE DEF held
<1>3. HeldReported("ask", held)
  BY <1>1 DEF HeldReported, WasReported, NoPlan, NothingPlanned, NotPlanned
<1> QED BY <1>1, <1>2, <1>3, HandlerReads DEF PlanByCron

(* Items with the actuals of the plan as read, for some products. *)
LEMMA ItemsSafe ==
    ASSUME PlanningInv, NEW w \in PlanStaff, planPc[w] = "ask", NEW S, NEW rec,
           \A p \in S : p \in Goods => rec[p] \in Int,
           PlanGo(w, "write", [planLoc[w] EXCEPT
              !.items = [p \in Goods |-> IF p \in S THEN Item(w, p, rec[p]) ELSE NotPlanned]]),
           UNCHANGED <<goods, plan, lastSale, learned, reports, carried, planDay>>
    PROVE  PlanningInv'
<1> DEFINE items == [p \in Goods |-> IF p \in S THEN Item(w, p, rec[p]) ELSE NotPlanned]
           held  == [planLoc[w] EXCEPT !.items = items]
<1>1. planLoc[w] \in HeldDoc /\ HeldReported("ask", planLoc[w]) BY HandlerTyped
<1>2. \A p \in Goods : planLoc[w].seen.items[p] \in ItemDoc
  BY <1>1 DEF HeldDoc, PlanDoc
<1>3. ASSUME NEW p \in Goods
      PROVE  items[p] \in ItemDoc /\ WasReported(planLoc[w].date, p, items[p].made)
  <2>1. CASE p \in S
    <3>1. items[p] = Item(w, p, rec[p]) BY <2>1
    <3>2. Item(w, p, rec[p]) \in ItemDoc /\ Item(w, p, rec[p]).made = planLoc[w].seen.items[p].made
      BY <1>2, <2>1 DEF Item, Kept, ItemDoc
    <3> QED BY <1>1, <3>1, <3>2 DEF HeldReported
  <2>2. CASE p \notin S
    BY <2>2, NothingTyped DEF WasReported, NotPlanned
  <2> QED BY <2>1, <2>2
<1>4. items \in [Goods -> ItemDoc] BY <1>3
<1>5. PlanGo(w, "write", held) /\ "write" \in PlanLabels BY DEF PlanLabels
<1> HIDE DEF items
<1>6. held \in HeldDoc /\ held.date = planLoc[w].date /\ held.items = items
  BY <1>1, <1>4 DEF HeldDoc
<1> HIDE DEF held
<1>7. HeldReported("write", held) BY <1>3, <1>6 DEF HeldReported
<1> QED BY <1>5, <1>6, <1>7, HandlerReads

LEMMA ModelPlansSafe == ASSUME PlanningInv, NEW w \in PlanStaff, ModelPlans(w) PROVE PlanningInv'
<1>1. PICK S \in SUBSET Goods : \E rec \in [S -> Amounts] :
        PlanGo(w, "write", [planLoc[w] EXCEPT
              !.items = [p \in Goods |-> IF p \in S THEN Item(w, p, rec[p]) ELSE NotPlanned]])
  BY DEF ModelPlans
<1>2. PICK rec \in [S -> Amounts] :
        PlanGo(w, "write", [planLoc[w] EXCEPT
              !.items = [p \in Goods |-> IF p \in S THEN Item(w, p, rec[p]) ELSE NotPlanned]])
  BY <1>1
<1>3. \A p \in S : rec[p] \in Int
  <2>1. \A p \in S : rec[p] \in Amounts OBVIOUS
  <2> QED BY <2>1, AmountTyped
<1>4. planPc[w] = "ask" /\ UNCHANGED <<goods, plan, lastSale, learned, reports, carried, planDay>>
  BY DEF ModelPlans
<1> QED BY <1>2, <1>3, <1>4, ItemsSafe

LEMMA FallBackSafe == ASSUME PlanningInv, NEW w \in PlanStaff, FallBack(w) PROVE PlanningInv'
<1> DEFINE before == Yesterday(planLoc[w].date).items
           quantity(estimate) == [p \in Goods |-> IF before[p] # NotPlanned THEN before[p].rec
                                                                           ELSE estimate[p]]
<1>1. PICK estimate \in [goods -> Amounts] :
        PlanGo(w, "write", [planLoc[w] EXCEPT
              !.items = [p \in Goods |->
                           IF p \in goods
                           THEN Item(w, p, IF before[p] # NotPlanned THEN before[p].rec ELSE estimate[p])
                           ELSE NotPlanned]])
  BY DEF FallBack
<1> DEFINE rec == quantity(estimate)
<1>2. planPc[w] = "ask" /\ UNCHANGED <<goods, plan, lastSale, learned, reports, carried, planDay>>
  BY DEF FallBack
<1>3. goods \subseteq Goods BY DEF PlanningInv, PlanningTypeOK
<1>4. before \in [Goods -> ItemDoc]
  <2>1. planLoc[w].date \in PlanDates BY HandlerTyped DEF HeldDoc
  <2>2. planLoc[w].date > 0 => planLoc[w].date - 1 \in PlanDates
    BY <2>1, PlanningAssumption DEF PlanDates
  <2>3. Yesterday(planLoc[w].date) \in PlanDoc
    BY <2>2, NothingTyped DEF Yesterday, PlanningInv, PlanningTypeOK
  <2> QED BY <2>3 DEF PlanDoc
<1> HIDE DEF before
<1>5. ASSUME NEW p \in goods PROVE rec[p] \in Int
  <2>1. p \in Goods BY <1>3
  <2>2. rec[p] = IF before[p] # NotPlanned THEN before[p].rec ELSE estimate[p] BY <2>1
  <2>3. before[p].rec \in Int BY <1>4, <2>1 DEF ItemDoc
  <2>4. estimate[p] \in Amounts OBVIOUS
  <2>5. estimate[p] \in Int BY <2>4, AmountTyped
  <2> HIDE DEF rec
  <2> QED BY <2>2, <2>3, <2>5
<1>6. \A p \in goods : rec[p] = IF before[p] # NotPlanned THEN before[p].rec ELSE estimate[p]
  BY <1>3
<1> HIDE DEF rec
<1>7. [p \in Goods |-> IF p \in goods
                       THEN Item(w, p, IF before[p] # NotPlanned THEN before[p].rec ELSE estimate[p])
                       ELSE NotPlanned]
        = [p \in Goods |-> IF p \in goods THEN Item(w, p, rec[p]) ELSE NotPlanned]
  BY <1>6
<1>8. PlanGo(w, "write", [planLoc[w] EXCEPT
              !.items = [p \in Goods |-> IF p \in goods THEN Item(w, p, rec[p]) ELSE NotPlanned]])
  BY <1>1, <1>7
<1> QED BY <1>2, <1>5, <1>8, ItemsSafe

LEMMA DoneReported == HeldReported("idle", PlanNothing) /\ PlanNothing \in HeldDoc /\ "idle" \in PlanLabels
BY NothingTyped DEF HeldReported, PlanLabels

LEMMA PlanNothingToMakeSafe ==
    ASSUME PlanningInv, NEW w \in PlanStaff, PlanNothingToMake(w) PROVE PlanningInv'
<1> DEFINE d == planLoc[w].date
           doc == [plan[d] EXCEPT !.exists = TRUE]
<1>1. d \in PlanDates BY HandlerTyped DEF HeldDoc
<1>2. plan[d] \in PlanDoc BY <1>1 DEF PlanningInv, PlanningTypeOK
<1>3. doc \in PlanDoc /\ doc.items = plan[d].items BY <1>2 DEF PlanDoc
<1>4. plan' = [plan EXCEPT ![d] = doc] BY DEF PlanNothingToMake
<1>5. UNCHANGED <<goods, lastSale, learned, reports, carried, planDay>> /\ PlanGo(w, "idle", PlanNothing)
  BY DEF PlanNothingToMake, PlanDone
<1> HIDE DEF d, doc
<1>6. plan' \in [PlanDates -> PlanDoc] /\ \A e \in PlanDates : plan'[e].items = plan[e].items
  BY <1>1, <1>2, <1>3, <1>4 DEF PlanningInv, PlanningTypeOK
<1>7. \A e \in PlanDates, p \in Goods : /\ WasReported(e, p, plan[e].items[p].made)'
                                        /\ WasTold(e, p, learned[e][p])'
  BY <1>5, <1>6 DEF PlanningInv, WasReported, WasTold
<1>8. learned' \in RowsDoc BY <1>5 DEF PlanningInv, PlanningTypeOK
<1>9. HeldReported("idle", PlanNothing)' BY DEF HeldReported
<1> QED BY <1>5, <1>6, <1>7, <1>8, <1>9, DoneReported, HandlerStep

LEMMA WritePlanSafe == ASSUME PlanningInv, NEW w \in PlanStaff, WritePlan(w) PROVE PlanningInv'
<1> DEFINE d == planLoc[w].date
           doc == [exists |-> TRUE, items |-> planLoc[w].items]
<1>1. d \in PlanDates /\ planLoc[w].items \in [Goods -> ItemDoc] BY HandlerTyped DEF HeldDoc
<1>2. doc \in PlanDoc BY <1>1 DEF PlanDoc
<1>3. plan' = plan \/ plan' = [plan EXCEPT ![d] = doc] BY DEF WritePlan
<1>4. UNCHANGED <<goods, lastSale, learned, reports, carried, planDay>> /\ PlanGo(w, "idle", PlanNothing)
  BY DEF WritePlan, PlanDone
<1>5. \A p \in Goods : WasReported(d, p, doc.items[p].made)
  BY HandlerTyped DEF WritePlan, HeldReported
<1> HIDE DEF d, doc
<1>6. /\ plan' \in [PlanDates -> PlanDoc]
      /\ \A e \in PlanDates : plan'[e] = plan[e] \/ (e = d /\ plan'[e] = doc)
  BY <1>1, <1>2, <1>3 DEF PlanningInv, PlanningTypeOK
<1>7. \A e \in PlanDates, p \in Goods : /\ WasReported(e, p, plan[e].items[p].made)'
                                        /\ WasTold(e, p, learned[e][p])'
  BY <1>4, <1>5, <1>6 DEF PlanningInv, WasReported, WasTold
<1>8. learned' \in RowsDoc BY <1>4 DEF PlanningInv, PlanningTypeOK
<1>9. HeldReported("idle", PlanNothing)' BY DEF HeldReported
<1> QED BY <1>4, <1>6, <1>7, <1>8, <1>9, DoneReported, HandlerStep

-------------------------------------------------------------------------------
LEMMA ReadForActualsSafe ==
    ASSUME PlanningInv, NEW w \in PlanStaff, ReadForActuals(w) PROVE PlanningInv'
<1>1. PICK d \in PlanDates, p \in Goods, q \in Amounts :
        PlanGo(w, "actual", [PlanNothing EXCEPT !.date = d, !.items[p].made = q])
  BY DEF ReadForActuals
<1> DEFINE items == [NothingPlanned EXCEPT ![p].made = q]
           held  == [PlanNothing EXCEPT !.date = d, !.items = items]
<1>2. items \in [Goods -> ItemDoc]
  <2>1. q \in Int BY AmountTyped
  <2>2. NothingPlanned \in [Goods -> ItemDoc] BY NothingTyped
  <2>3. [NothingPlanned[p] EXCEPT !.made = q] \in ItemDoc BY <2>1, <2>2 DEF ItemDoc
  <2> QED BY <2>2, <2>3
<1>3. [PlanNothing EXCEPT !.date = d, !.items[p].made = q] = held
  BY DEF PlanNothing
<1> HIDE DEF items
<1>4. held \in HeldDoc
  <2>1. PlanNothing \in HeldDoc BY NothingTyped
  <2> QED BY <1>2, <2>1 DEF HeldDoc
<1>5. PlanGo(w, "actual", held) /\ "actual" \in PlanLabels BY <1>1, <1>3 DEF PlanLabels
<1> HIDE DEF held
<1>6. HeldReported("actual", held) BY DEF HeldReported
<1> QED BY <1>4, <1>5, <1>6, HandlerReads DEF ReadForActuals

LEMMA WriteActualsSafe == ASSUME PlanningInv, NEW w \in PlanStaff, WriteActuals(w) PROVE PlanningInv'
<1> DEFINE d     == planLoc[w].date
           mine  == planLoc[w].items
           here  == {p \in Goods : mine[p] # NotPlanned /\ plan[d].items[p] # NotPlanned}
           items == [p \in Goods |-> IF p \in here
                                     THEN [plan[d].items[p] EXCEPT !.made = mine[p].made]
                                     ELSE plan[d].items[p]]
           doc   == [plan[d] EXCEPT !.items = items]
<1>1. d \in PlanDates /\ mine \in [Goods -> ItemDoc] BY HandlerTyped DEF HeldDoc
<1>2. plan[d] \in PlanDoc /\ plan[d].items \in [Goods -> ItemDoc]
  BY <1>1 DEF PlanningInv, PlanningTypeOK, PlanDoc
<1>3. plan' = [plan EXCEPT ![d] = doc] BY DEF WriteActuals
<1>4. reports' = reports \cup {<<d, p, mine[p].made>> : p \in here} BY DEF WriteActuals
<1>5. UNCHANGED <<goods, lastSale, learned, carried, planDay>> /\ PlanGo(w, "idle", PlanNothing)
  BY DEF WriteActuals, PlanDone
<1> HIDE DEF d, mine
<1>6. \A p \in Goods : /\ items[p] \in ItemDoc
                       /\ p \in here => items[p].made = mine[p].made
                       /\ p \notin here => items[p] = plan[d].items[p]
  BY <1>1, <1>2 DEF ItemDoc
<1>7. items \in [Goods -> ItemDoc] BY <1>6
<1> HIDE DEF items
<1>8. doc \in PlanDoc /\ doc.items = items BY <1>2, <1>7 DEF PlanDoc
<1> HIDE DEF doc
<1>9. ASSUME NEW p \in Goods, items[p].made # Unreported
      PROVE  <<d, p, items[p].made>> \in reports'
  <2>1. CASE p \in here
    <3>1. <<d, p, mine[p].made>> \in reports' BY <1>4, <2>1
    <3>2. items[p].made = mine[p].made BY <1>6, <2>1
    <3> QED BY <3>1, <3>2
  <2>2. CASE p \notin here
    <3>1. items[p] = plan[d].items[p] BY <1>6, <2>2
    <3>2. WasReported(d, p, plan[d].items[p].made) BY <1>1 DEF PlanningInv
    <3>3. <<d, p, items[p].made>> \in reports BY <1>9, <3>1, <3>2 DEF WasReported
    <3> QED BY <1>4, <3>3
  <2> QED BY <2>1, <2>2
<1> HIDE DEF here
<1>10. /\ plan' \in [PlanDates -> PlanDoc]
       /\ \A e \in PlanDates : plan'[e] = plan[e] \/ (e = d /\ plan'[e] = doc)
  BY <1>1, <1>3, <1>8 DEF PlanningInv, PlanningTypeOK
<1>11. \A e \in PlanDates, p \in Goods : /\ WasReported(e, p, plan[e].items[p].made)'
                                         /\ WasTold(e, p, learned[e][p])'
  <2>1. reports \subseteq reports' /\ learned' = learned BY <1>4, <1>5
  <2>2. ASSUME NEW e \in PlanDates, NEW p \in Goods, plan'[e].items[p].made # Unreported
        PROVE  <<e, p, plan'[e].items[p].made>> \in reports'
    <3>1. CASE plan'[e] = plan[e]
      <4>1. WasReported(e, p, plan[e].items[p].made) BY DEF PlanningInv
      <4> QED BY <2>1, <2>2, <3>1, <4>1 DEF WasReported
    <3>2. CASE e = d /\ plan'[e] = doc BY <1>8, <1>9, <2>2, <3>2
    <3> QED BY <1>10, <3>1, <3>2
  <2> QED BY <1>5, <2>1, <2>2 DEF PlanningInv, WasReported, WasTold
<1>12. learned' \in RowsDoc BY <1>5 DEF PlanningInv, PlanningTypeOK
<1>13. HeldReported("idle", PlanNothing)' BY DEF HeldReported
<1> QED BY <1>4, <1>5, <1>10, <1>11, <1>12, <1>13, DoneReported, HandlerStep

-------------------------------------------------------------------------------
LEMMA ReadForLearningSafe ==
    ASSUME PlanningInv, NEW w \in PlanStaff, ReadForLearning(w) PROVE PlanningInv'
<1>1. PICK days \in {{planDay - 1} \cap PlanDates, 0..planDay} :
        PlanGo(w, "send", [PlanNothing EXCEPT !.rows = LearningRows(days)])
  BY DEF ReadForLearning
<1> DEFINE rows == LearningRows(days)
           held == [PlanNothing EXCEPT !.rows = rows]
<1>2. ASSUME NEW d \in PlanDates, NEW p \in Goods
      PROVE  rows[d][p] \in RowDoc /\ WasTold(d, p, rows[d][p])
  <2> DEFINE own     == lastSale[d][p]
             planned == plan[d].items[p].made
  <2>1. own \in Int /\ planned \in Int
    BY DEF PlanningInv, PlanningTypeOK, PlanDoc, ItemDoc
  <2>2. planned # Unreported => <<d, p, planned>> \in reports
    BY DEF PlanningInv, WasReported
  <2>3. own # NotSold => <<d, p, own>> \in carried BY DEF PlanningInv, SalesCarry
  <2>4. CASE rows[d][p] = NotLearned
    BY <2>4 DEF WasTold, NotLearned, RowDoc, NotSold, Unreported
  <2>5. CASE rows[d][p] # NotLearned
    <3>1. rows[d][p] = [made |-> OwnOrPlanned(own, planned), said |-> planned] /\ own # NotSold
      BY <2>5 DEF LearningRows
    <3> HIDE DEF own, planned, rows
    <3>2. rows[d][p].made = OwnOrPlanned(own, planned) BY <3>1
    <3>3. OwnOrPlanned(own, planned) \in {own, planned}
      BY DEF OwnOrPlanned
    <3>4. <<d, p, OwnOrPlanned(own, planned)>> \in reports \cup carried
      BY <2>2, <2>3, <3>1 DEF OwnOrPlanned
    <3>5. rows[d][p] \in RowDoc BY <2>1, <3>1, <3>3 DEF RowDoc
    <3> QED BY <3>2, <3>4, <3>5 DEF WasTold
  <2> QED BY <2>4, <2>5
<1>3. rows \in RowsDoc BY <1>2 DEF RowsDoc, LearningRows
<1>4. PlanGo(w, "send", held) /\ "send" \in PlanLabels BY <1>1 DEF PlanLabels
<1> HIDE DEF rows
<1>5. held \in HeldDoc /\ held.rows = rows
  <2>1. PlanNothing \in HeldDoc BY NothingTyped
  <2> QED BY <1>3, <2>1 DEF HeldDoc
<1> HIDE DEF held
<1>6. HeldReported("send", held) BY <1>2, <1>5 DEF HeldReported
<1> QED BY <1>4, <1>5, <1>6, HandlerReads DEF ReadForLearning

LEMMA SendRowsSafe == ASSUME PlanningInv, NEW w \in PlanStaff, SendRows(w) PROVE PlanningInv'
<1>1. planLoc[w].rows \in RowsDoc BY HandlerTyped DEF HeldDoc
<1>2. UNCHANGED <<goods, plan, lastSale, reports, carried, planDay>> /\ PlanGo(w, "idle", PlanNothing)
  BY DEF SendRows, PlanDone
<1>3. ASSUME NEW d \in PlanDates, NEW p \in Goods
      PROVE  learned'[d][p] \in {learned[d][p], planLoc[w].rows[d][p]}
  BY DEF SendRows
<1>4. learned' \in RowsDoc
  <2>1. learned \in RowsDoc BY DEF PlanningInv, PlanningTypeOK
  <2>2. \A d \in PlanDates, p \in Goods : learned'[d][p] \in RowDoc
    <3> TAKE d \in PlanDates, p \in Goods
    <3>1. learned[d][p] \in RowDoc BY <2>1 DEF RowsDoc
    <3>2. planLoc[w].rows[d][p] \in RowDoc BY <1>1 DEF RowsDoc
    <3>3. learned'[d][p] \in {learned[d][p], planLoc[w].rows[d][p]} BY <1>3
    <3> QED BY <3>1, <3>2, <3>3
  <2> QED BY <2>2 DEF SendRows, RowsDoc
<1>5. \A d \in PlanDates, p \in Goods : /\ WasReported(d, p, plan[d].items[p].made)'
                                        /\ WasTold(d, p, learned[d][p])'
  <2>1. HeldReported("send", planLoc[w]) BY HandlerTyped DEF SendRows
  <2> QED BY <1>2, <1>3, <2>1 DEF PlanningInv, WasReported, WasTold, HeldReported
<1>6. plan' \in [PlanDates -> PlanDoc] BY <1>2 DEF PlanningInv, PlanningTypeOK
<1>7. HeldReported("idle", PlanNothing)' BY DEF HeldReported
<1> QED BY <1>2, <1>4, <1>5, <1>6, <1>7, DoneReported, HandlerStep

LEMMA SendFailsSafe == ASSUME PlanningInv, NEW w \in PlanStaff, SendFails(w) PROVE PlanningInv'
BY DoneReported, HandlerReads DEF SendFails, PlanDone

(* Sales, deleted products, the calendar. *)
LEMMA DaySafe ==
    ASSUME PlanningInv, UNCHANGED <<plan, learned, reports, planPc, planLoc>>,
           carried \subseteq carried', SalesCarry',
           goods' \subseteq Goods, lastSale' \in [PlanDates -> [Goods -> Int]], planDay' \in PlanDates
    PROVE  PlanningInv'
<1>1. PlanningTypeOK' BY DEF PlanningInv, PlanningTypeOK
<1>2. \A d \in PlanDates, p \in Goods : /\ WasReported(d, p, plan[d].items[p].made)'
                                        /\ WasTold(d, p, learned[d][p])'
  BY DEF PlanningInv, WasReported, WasTold
<1>3. \A w \in PlanStaff : HeldReported(planPc[w], planLoc[w])'
  BY DEF PlanningInv, HeldReported, WasReported, WasTold
<1> QED BY <1>1, <1>2, <1>3 DEF PlanningInv

-------------------------------------------------------------------------------
LEMMA PlanningStep == PlanningInv /\ [NextPlanning]_planningVars => PlanningInv'
<1> SUFFICES ASSUME PlanningInv, [NextPlanning]_planningVars PROVE PlanningInv' OBVIOUS
<1> USE DEF PlanningInv, PlanningTypeOK
<1>1. ASSUME NEW w \in PlanStaff, PlannerStep(w) PROVE PlanningInv'
  BY <1>1, OpenPlanSafe, PlanByCronSafe, ModelPlansSafe, FallBackSafe, PlanNothingToMakeSafe,
     WritePlanSafe DEF PlannerStep
<1>2. ASSUME NEW w \in PlanStaff,
             \/ ReadForActuals(w) \/ WriteActuals(w) \/ ReadForLearning(w)
             \/ SendRows(w) \/ SendFails(w)
      PROVE  PlanningInv'
  BY <1>2, ReadForActualsSafe, WriteActualsSafe, ReadForLearningSafe, SendRowsSafe, SendFailsSafe
<1>3. CASE SellDelivered \/ SellImported
  <2>1. PICK d \in 0..planDay, p \in Goods, own \in {0} \cup Amounts : RecordSale(d, p, own)
    BY <1>3 DEF SellDelivered, SellImported
  <2>2. d \in PlanDates BY PlanningAssumption DEF PlanDates
  <2>3. own \in Int BY AmountTyped
  <2>4. /\ lastSale' \in [PlanDates -> [Goods -> Int]]
        /\ lastSale'[d][p] = own
        /\ \A e \in PlanDates, q \in Goods :
              <<e, q>> # <<d, p>> => lastSale'[e][q] = lastSale[e][q]
    BY <2>1, <2>2, <2>3 DEF RecordSale
  <2>5. carried' = carried \cup {<<d, p, own>>} BY <2>1 DEF RecordSale
  <2>6. SalesCarry' BY <2>4, <2>5 DEF SalesCarry
  <2> QED BY <1>3, <2>4, <2>5, <2>6, DaySafe DEF SellDelivered, SellImported
<1>4. CASE DeleteGood
  <2>1. goods' \subseteq Goods /\ SalesCarry' BY <1>4 DEF DeleteGood, SalesCarry
  <2> QED BY <1>4, <2>1, DaySafe DEF DeleteGood
<1>5. CASE NextMorning
  <2>1. planDay' \in PlanDates /\ SalesCarry'
    BY <1>5, PlanningAssumption DEF NextMorning, PlanDates, SalesCarry
  <2> QED BY <1>5, <2>1, DaySafe DEF NextMorning
<1>6. CASE UNCHANGED planningVars
  <2>1. SalesCarry' BY <1>6 DEF planningVars, SalesCarry
  <2> QED BY <1>6, <2>1, DaySafe DEF planningVars
<1> QED BY <1>1, <1>2, <1>3, <1>4, <1>5, <1>6 DEF NextPlanning

(* Whatever managers refresh, kitchens report, sales carry and syncs send, *)
(* in any order and number: what a plan says was made was reported for     *)
(* that product and that date, and what the forecasting service learned    *)
(* was made was reported for them too or is what a sale of them carries    *)
(* (getProductionPlan, recordActuals, backfillAiHistory).                  *)
THEOREM MadeCorrect == SpecPlanning => []MadeWasReported
<1>1. PlanningInv => MadeWasReported
  BY DEF PlanningInv, MadeWasReported, WasReported, WasTold
<1> QED BY <1>1, PlanningInit, PlanningStep, PTL DEF SpecPlanning
================================================================================
