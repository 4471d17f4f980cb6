-------------------------- MODULE ProductionPlanning --------------------------
(***************************************************************************)
(* The daily production plans of one restaurant, and what the forecasting  *)
(* service learns from them.                                               *)
(*                                                                         *)
(* The 01:00 cron generates today's plan; every time a manager opens the   *)
(* plan of today or of a coming day it is generated again, its reported    *)
(* actuals carried over.  The kitchen reports what it made.  The 02:00     *)
(* cron, and a backfill on demand, send the sales to the service, each     *)
(* with the quantity made that it carries itself or else the plan's; the   *)
(* service keeps the last row of a date and product.                       *)
(***************************************************************************)
EXTENDS Integers, FiniteSets

CONSTANTS
    Goods,          \* products of the restaurant
    PlanDays,       \* bound: dates are 0..PlanDays
    Horizon,        \* plans can be asked for that many days ahead
    Amounts,        \* recommended and reported quantities
    Planners,       \* managers who open a plan, and the cron
    Kitchens,       \* who reports what was made
    Learners        \* the nightly sync, a backfill

PlanStaff == UNION {Planners, Kitchens, Learners}

ASSUME PlanningAssumption ==
    PlanDays \in Nat /\ Horizon \in Nat /\ Amounts \subseteq Nat

VARIABLES
    goods,          \* products not deleted
    plan,           \* plan[d]: the plan of date d
    lastSale,       \* lastSale[d][p]: quantity made, as the last sale of p on d carries it
    learned,        \* learned[d][p]: the row the service keeps
    reports,        \* history: <<date, product, quantity>> reported as made
    carried,        \* history: the same of what sales have carried
    planDay, planPc, planLoc

planningVars == <<goods, plan, lastSale, learned, reports, carried, planDay, planPc, planLoc>>

-------------------------------------------------------------------------------
Unreported == -1

NotPlanned == [rec |-> Unreported, made |-> Unreported]

NothingPlanned == [p \in Goods |-> NotPlanned]

NoPlan == [exists |-> FALSE, items |-> NothingPlanned]

NotSold == -2

(* A row the service learns: the quantity made, and what the plan said was *)
(* made when the row was sent (history).                                   *)
NotLearned == [made |-> NotSold, said |-> Unreported]

PlanDates == 0..PlanDays

(* date at hand, refresh asked for, plan as read, items to write, rows *)
PlanNothing == [date |-> 0, force |-> FALSE, seen |-> NoPlan, items |-> NothingPlanned,
                rows |-> [d \in PlanDates |-> [p \in Goods |-> NotLearned]]]

InitPlanning ==
    /\ goods = Goods
    /\ plan = [d \in PlanDates |-> NoPlan]
    /\ lastSale = [d \in PlanDates |-> [p \in Goods |-> NotSold]]
    /\ learned = [d \in PlanDates |-> [p \in Goods |-> NotLearned]]
    /\ reports = {} /\ carried = {}
    /\ planDay = 0
    /\ planPc = [w \in PlanStaff |-> "idle"]
    /\ planLoc = [w \in PlanStaff |-> PlanNothing]

PlanGo(w, label, held) == /\ planPc' = [planPc EXCEPT ![w] = label]
                          /\ planLoc' = [planLoc EXCEPT ![w] = held]

PlanDone(w) == PlanGo(w, "idle", PlanNothing)

-------------------------------------------------------------------------------
(* getProductionPlan: past plans are only read, the horizon is bounded. *)
OpenPlan(w) ==
    /\ w \in Planners /\ planPc[w] = "idle"
    /\ \E d \in PlanDates :
          /\ planDay <= d /\ d <= planDay + Horizon
          /\ PlanGo(w, "ask", [PlanNothing EXCEPT !.date = d, !.force = TRUE, !.seen = plan[d]])
    /\ UNCHANGED <<goods, plan, lastSale, learned, reports, carried, planDay>>

(* handleDailyPlanGeneration: nothing to do for a plan that exists. *)
PlanByCron(w) ==
    /\ w \in Planners /\ planPc[w] = "idle"
    /\ ~plan[planDay].exists
    /\ PlanGo(w, "ask", [PlanNothing EXCEPT !.date = planDay])
    /\ UNCHANGED <<goods, plan, lastSale, learned, reports, carried, planDay>>

(* Mutant: the actual of any item of the old plan. *)
KeptOfAny(items, p) ==
    LET made == {items[q].made : q \in Goods} \ {Unreported}
    IN  IF made = {} THEN Unreported ELSE CHOOSE m \in made : TRUE

(* existingActuals, by product. *)
Kept(items, p) == items[p].made

Item(w, p, rec) == [rec |-> rec, made |-> Kept(planLoc[w].seen.items, p)]

(* The service answers with items of its choice. *)
ModelPlans(w) ==
    /\ planPc[w] = "ask" /\ goods # {}
    /\ \E S \in SUBSET Goods : \E rec \in [S -> Amounts] :
          PlanGo(w, "write", [planLoc[w] EXCEPT
              !.items = [p \in Goods |-> IF p \in S THEN Item(w, p, rec[p]) ELSE NotPlanned]])
    /\ UNCHANGED <<goods, plan, lastSale, learned, reports, carried, planDay>>

Yesterday(d) == IF d > 0 THEN plan[d - 1] ELSE NoPlan

(* It fails: yesterday's quantity, or the estimate of a product that plan  *)
(* does not have.                                                          *)
FallBack(w) ==
    /\ planPc[w] = "ask" /\ goods # {}
    /\ \E estimate \in [goods -> Amounts] :
          LET before   == Yesterday(planLoc[w].date).items
              rec(p)   == IF before[p] # NotPlanned THEN before[p].rec ELSE estimate[p]
          IN  PlanGo(w, "write", [planLoc[w] EXCEPT
                  !.items = [p \in Goods |-> IF p \in goods THEN Item(w, p, rec(p)) ELSE NotPlanned]])
    /\ UNCHANGED <<goods, plan, lastSale, learned, reports, carried, planDay>>

(* Without products an empty plan is inserted; the unique index refuses it *)
(* if the date has one.                                                    *)
PlanNothingToMake(w) ==
    /\ planPc[w] = "ask" /\ goods = {}
    /\ plan' = [plan EXCEPT ![planLoc[w].date].exists = TRUE]
    /\ PlanDone(w)
    /\ UNCHANGED <<goods, lastSale, learned, reports, carried, planDay>>

(* A refresh overwrites the items by _id, otherwise the plan is inserted,  *)
(* and one inserted meanwhile is kept.                                     *)
WritePlan(w) ==
    LET d == planLoc[w].date
    IN  /\ planPc[w] = "write"
        /\ plan' = IF planLoc[w].seen.exists \/ ~plan[d].exists
                   THEN [plan EXCEPT ![d] = [exists |-> TRUE, items |-> planLoc[w].items]]
                   ELSE plan
        /\ PlanDone(w)
        /\ UNCHANGED <<goods, lastSale, learned, reports, carried, planDay>>

-------------------------------------------------------------------------------
(* recordActuals: products outside the plan as read are skipped, ... *)
ReadForActuals(w) ==
    /\ w \in Kitchens /\ planPc[w] = "idle"
    /\ \E d \in PlanDates, p \in Goods, q \in Amounts :
          /\ plan[d].exists /\ plan[d].items[p] # NotPlanned
          /\ PlanGo(w, "actual", [PlanNothing EXCEPT !.date = d, !.items[p].made = q])
    /\ UNCHANGED <<goods, plan, lastSale, learned, reports, carried, planDay>>

(* ... the others are set where the plan still has them. *)
WriteActuals(w) ==
    LET d    == planLoc[w].date
        mine == planLoc[w].items
        here == {p \in Goods : mine[p] # NotPlanned /\ plan[d].items[p] # NotPlanned}
    IN  /\ planPc[w] = "actual"
        /\ plan' = [plan EXCEPT ![d].items =
                      [p \in Goods |-> IF p \in here THEN [@[p] EXCEPT !.made = mine[p].made] ELSE @[p]]]
        /\ reports' = reports \cup {<<d, p, mine[p].made>> : p \in here}
        /\ PlanDone(w)
        /\ UNCHANGED <<goods, lastSale, learned, carried, planDay>>

-------------------------------------------------------------------------------
(* productionQuantity ?? the plan's.  The field is required and has a      *)
(* default, so that no sale leaves the word to the plan.                   *)
OwnOrPlanned(own, planned) == IF own # Unreported THEN own ELSE planned

(* A row for every sale: the last of a date and product counts. *)
LearningRows(days) ==
    [d \in PlanDates |-> [p \in Goods |->
        LET planned == plan[d].items[p].made
        IN  IF d \in days /\ lastSale[d][p] # NotSold
            THEN [made |-> OwnOrPlanned(lastSale[d][p], planned), said |-> planned]
            ELSE NotLearned]]

(* handleNightlyAiSync reads yesterday, backfillAiHistory every day. *)
ReadForLearning(w) ==
    /\ w \in Learners /\ planPc[w] = "idle"
    /\ \E days \in {{planDay - 1} \cap PlanDates, 0..planDay} :
          /\ \E d \in days, p \in Goods : lastSale[d][p] # NotSold
          /\ PlanGo(w, "send", [PlanNothing EXCEPT !.rows = LearningRows(days)])
    /\ UNCHANGED <<goods, plan, lastSale, learned, reports, carried, planDay>>

(* The service keeps the last row of a date and product, or the call       *)
(* fails and the rows are dropped.                                         *)
SendRows(w) ==
    /\ planPc[w] = "send"
    /\ learned' = [d \in PlanDates |-> [p \in Goods |->
                     LET row == planLoc[w].rows[d][p]
                         old == learned[d][p]
                     IN  IF row = NotLearned THEN old ELSE row]]
    /\ PlanDone(w)
    /\ UNCHANGED <<goods, plan, lastSale, reports, carried, planDay>>

SendFails(w) ==
    /\ planPc[w] = "send"
    /\ PlanDone(w)
    /\ UNCHANGED <<goods, plan, lastSale, learned, reports, carried, planDay>>

RecordSale(d, p, own) == /\ lastSale' = [lastSale EXCEPT ![d][p] = own]
                         /\ carried' = carried \cup {<<d, p, own>>}

(* External: a delivered order leaves a sale without a quantity, which is  *)
(* stored as the default, 0, for the day it was bought; an imported sale   *)
(* has its own; products are deleted and the days go by.                   *)
SellDelivered ==
    /\ \E d \in 0..planDay, p \in Goods : RecordSale(d, p, 0)
    /\ UNCHANGED <<goods, plan, learned, reports, planDay, planPc, planLoc>>

SellImported ==
    /\ \E d \in 0..planDay, p \in Goods, own \in Amounts : RecordSale(d, p, own)
    /\ UNCHANGED <<goods, plan, learned, reports, planDay, planPc, planLoc>>

DeleteGood ==
    /\ \E p \in goods : goods' = goods \ {p}
    /\ UNCHANGED <<plan, lastSale, learned, reports, carried, planDay, planPc, planLoc>>

NextMorning ==
    /\ planDay < PlanDays
    /\ planDay' = planDay + 1
    /\ UNCHANGED <<goods, plan, lastSale, learned, reports, carried, planPc, planLoc>>

PlannerStep(w) == OpenPlan(w) \/ PlanByCron(w) \/ ModelPlans(w) \/ FallBack(w)
                  \/ PlanNothingToMake(w) \/ WritePlan(w)

NextPlanning ==
    \/ \E w \in PlanStaff : \/ PlannerStep(w) \/ ReadForActuals(w) \/ WriteActuals(w)
                            \/ ReadForLearning(w) \/ SendRows(w) \/ SendFails(w)
    \/ SellDelivered \/ SellImported \/ DeleteGood \/ NextMorning

SpecPlanning == InitPlanning /\ [][NextPlanning]_planningVars

-------------------------------------------------------------------------------
(* However refreshes, reports and fallbacks interleave, what a plan says   *)
(* was made is a quantity the kitchen reported for that product and date   *)
(* (a refresh may lose a report: it carries over the plan it read before   *)
(* the call); and what the service learns was made is such a quantity or   *)
(* one that a sale of that product and date carries.                       *)
MadeWasReported ==
    \A d \in PlanDates, p \in Goods :
        /\ plan[d].items[p].made # Unreported => <<d, p, plan[d].items[p].made>> \in reports
        /\ learned[d][p] # NotLearned => <<d, p, learned[d][p].made>> \in reports \cup carried

(* 'Gives real productionQty per product instead of leaving it unsent      *)
(* every night': violated, the 0 a delivered sale carries by default hides *)
(* what the plan says was made.                                            *)
PlannedIsLearned ==
    \A d \in PlanDates, p \in Goods :
        learned[d][p].said # Unreported => learned[d][p].made = learned[d][p].said
===============================================================================
