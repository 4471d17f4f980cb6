------------------------------- MODULE MCKitchen -------------------------------
(***************************************************************************)
(* The daily work of a restaurant on small instances: supplies, weekly     *)
(* forecasts, production plans and surplus.  The modules share no state    *)
(* (what one takes from another is an input of it), so one behaviour works *)
(* in one area; each area says who is at work in it.                       *)
(***************************************************************************)
EXTENDS SupplyChain, WeeklyPrediction, ProductionPlanning, SurplusOffers

VARIABLE area

kitchenVars == <<supplyVars, forecastVars, planningVars, surplusVars, area>>

ThreeOfEach  == [d \in Dishes |-> [i \in Ingredients |-> 3]]
OneSupplier  == [i \in Ingredients |-> "s1"]
SoldLastWeek == [p \in Menu |-> IF p = "q1" THEN 3 ELSE 0]
EstimatedTwo == [p \in Menu |-> 2]

Areas == {"kitchen", "purchasing", "forecast", "reconciliation", "plans", "learning", "scans", "decisions"}

InitKitchen ==
    /\ area \in Areas
    /\ InitSupply /\ InitForecast /\ InitPlanning /\ InitSurplus

-------------------------------------------------------------------------------
(* One cook and one desk race over the batches; then one desk, a cook and  *)
(* the forecaster over the purchase orders.                                *)
InSupply ==
    /\ \/ /\ area = "kitchen"
          /\ (\E p \in Cooks : CookStep(p)) \/ (\E w \in Desks : CreateBatch(w)) \/ NextDay
       \/ /\ area = "purchasing"
          /\ CookStep("k1") \/ (\E w \in Desks : DeskStep(w))
             \/ (\E f \in Forecasters : ForecasterStep(f)) \/ NextDay
    /\ UNCHANGED <<forecastVars, planningVars, surplusVars, area>>

(* A batch with its two workers, a manager and a deletion; a manager and   *)
(* the cron.  Bounds: one batch, a manager recalculates the first product  *)
(* and is answered in full or without the total, the second may be         *)
(* deleted, the cron finds sales of the first.                             *)
InForecast ==
    /\ \/ /\ area = "forecast"
          /\ \/ recalculation = NoBatchYet /\ StartBatch
             \/ FinishBatch
             \/ DeleteFromMenu
             \/ \E w \in Workers \cup Singles : RecalculationStep(w)
       \/ /\ area = "reconciliation"
          /\ \/ \E w \in Singles : RecalculationStep(w)
             \/ \E w \in Reconcilers : ReconciliationStep(w)
             \/ SellInWeek
    /\ "q1" \in menu' /\ weekSold'["q2"] = 0 /\ forecastLoc'["o1"].product \subseteq {"q1"}
    /\ forecastLoc'["o1"].row.reason \in {"none", "missing"}
    /\ UNCHANGED <<supplyVars, planningVars, surplusVars, area>>

(* Two managers and the kitchen on the first day; one manager, the kitchen *)
(* and the sync on both.  Bound: there, one product is planned, and it     *)
(* sells on the first day only.                                            *)
InPlanning ==
    /\ \/ /\ area = "plans"
          /\ \/ \E w \in Planners : PlannerStep(w)
             \/ \E w \in Kitchens : ReadForActuals(w) \/ WriteActuals(w)
             \/ DeleteGood
          /\ \A w \in Planners : planLoc'[w].date = 0
       \/ /\ area = "learning"
          /\ \/ PlannerStep("m1")
             \/ \E w \in Kitchens : ReadForActuals(w) \/ WriteActuals(w)
             \/ \E w \in Learners : ReadForLearning(w) \/ SendRows(w) \/ SendFails(w)
             \/ SellDelivered \/ SellImported \/ NextMorning
          /\ lastSale'[0]["g2"] = NotSold /\ \A p \in Goods : lastSale'[1][p] = NotSold
          /\ \A w \in PlanStaff : planLoc'[w].items["g2"] = NotPlanned
    /\ UNCHANGED <<supplyVars, forecastVars, surplusVars, area>>

(* Two scans, of one discount; one scan and a manager. *)
InSurplus ==
    /\ \/ /\ area = "scans"
          /\ (\E w \in Scanners : ScannerStep(w)) \/ ConfirmProduction
          /\ \A w \in Scanners : surplusLoc'[w].value # 30
       \/ /\ area = "decisions"
          /\ \/ ScannerStep("n1") \/ ConfirmProduction \/ DiscountEnds
             \/ \E w \in Deciders : DeciderStep(w)
    /\ UNCHANGED <<supplyVars, forecastVars, planningVars, area>>

NextKitchen == InSupply \/ InForecast \/ InPlanning \/ InSurplus

SpecKitchen == InitKitchen /\ [][NextKitchen]_kitchenVars
===============================================================================
