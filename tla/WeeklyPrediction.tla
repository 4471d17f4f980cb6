--------------------------- MODULE WeeklyPrediction ---------------------------
(***************************************************************************)
(* The weekly demand forecast of one restaurant and one target week.       *)
(*                                                                         *)
(* A batch hands the products to a few workers that share a cursor; a      *)
(* manager may recalculate single products meanwhile, and the Sunday cron  *)
(* writes what was sold back onto the rows.  The forecasting service may   *)
(* answer in full, leave out what it must say, or fail; then a naive       *)
(* forecast takes its place and the answer has to say so.                  *)
(***************************************************************************)
EXTENDS Integers, FiniteSets, FiniteSetsExt, SequencesExt

CONSTANTS
    Menu,           \* products of the restaurant
    WeekDays,       \* 7 in the code
    Totals,         \* weekly totals the service may answer
    DayTotals,      \* daily quantities it may answer
    LastWeekSold,   \* LastWeekSold[p]: units sold in the week before
    WeekEstimate,   \* WeekEstimate[p]: a week at the measured or estimated level
    MaxWeekSold,    \* bound of the sales of the target week
    MaxSaves,       \* bound of the saves of one row
    Workers,        \* BATCH_CONCURRENCY of them
    Singles,        \* managers who recalculate one product
    Reconcilers     \* the Sunday 03:00 cron

ForecastStaff == UNION {Workers, Singles, Reconcilers}

ASSUME ForecastAssumption ==
    /\ WeekDays \in Nat \ {0} /\ MaxWeekSold \in Nat /\ MaxSaves \in Nat
    /\ Totals \subseteq Nat /\ DayTotals \subseteq Nat
    /\ LastWeekSold \in [Menu -> Nat] /\ WeekEstimate \in [Menu -> Nat]
    /\ Workers \cap Singles = {}

VARIABLES
    menu,           \* products not deleted
    prediction,     \* prediction[p]: the row of (restaurant, p, week)
    weekSold,       \* sales recorded in the target week
    recalculation,  \* the running or last batch
    forecastPc, forecastLoc

forecastVars == <<menu, prediction, weekSold, recalculation, forecastPc, forecastLoc>>

-------------------------------------------------------------------------------
Unreconciled == -1

NoRow == [total |-> 0, days |-> <<>>, source |-> "none", reason |-> "none",
          actual |-> Unreconciled, error |-> Unreconciled, version |-> 0]

NoBatchYet == [phase |-> "none", todo |-> <<>>, rows |-> [p \in Menu |-> NoRow],
               failed |-> {}, degraded |-> {}, kind |-> "none"]

(* product at hand, row to write, row as found, totals and sales as read *)
ForecastNothing == [product |-> {}, row |-> NoRow, seen |-> NoRow,
                    rows |-> <<>>, sold |-> <<>>]

InitForecast ==
    /\ menu = Menu
    /\ prediction = [p \in Menu |-> NoRow]
    /\ weekSold = [p \in Menu |-> 0]
    /\ recalculation = NoBatchYet
    /\ forecastPc = [w \in ForecastStaff |-> "idle"]
    /\ forecastLoc = [w \in ForecastStaff |-> ForecastNothing]

ForecastGo(w, label, held) == /\ forecastPc' = [forecastPc EXCEPT ![w] = label]
                              /\ forecastLoc' = [forecastLoc EXCEPT ![w] = held]

ForecastDone(w) == ForecastGo(w, "idle", ForecastNothing)

(* distributeAcrossWeek: the remainder goes to the first days. *)
Spread(total) == [d \in 1..WeekDays |-> total \div WeekDays + IF d <= total % WeekDays THEN 1 ELSE 0]

(* What the service answers: a row per day, a total without usable rows,   *)
(* a 200 without the total, or a failure of some kind.                     *)
Answers == [kind : {"rows"}, total : {0}, days : [1..WeekDays -> DayTotals]]
             \cup [kind : {"total"}, total : Totals, days : {<<>>}]
             \cup [kind : {"missing", "unavailable", "client_error", "rate_limited"},
                   total : {0}, days : {<<>>}]

Naive(p) == IF LastWeekSold[p] > 0 THEN LastWeekSold[p] ELSE WeekEstimate[p]

RowOf(total, days, source, reason) ==
    [NoRow EXCEPT !.total = total, !.days = days, !.source = source, !.reason = reason]

(* The row an answer makes: the daily rows are trusted over the total, and *)
(* a naive row says why it is one (fallbackReason).                        *)
Forecast(p, answer) ==
    CASE answer.kind = "rows"  -> RowOf(FoldSeq(+, 0, answer.days), answer.days, "ai_model", "none")
      [] answer.kind = "total" -> RowOf(answer.total, Spread(answer.total), "ai_model", "none")
      [] OTHER                 -> RowOf(Naive(p), Spread(Naive(p)), "fallback_naive", answer.kind)

(* What onAiFailure is told; an answer without the total counts as an outage. *)
Reported(answer) == CASE answer.kind \in {"rows", "total"} -> "none"
                      [] answer.kind = "missing"           -> "unavailable"
                      [] OTHER                             -> answer.kind

(* Mutant: what is reported first stays. *)
OutranksNone(kind, first) == first = "none"

(* A diagnosis beats an outage, and the first one stays. *)
Outranks(kind, first) == first = "none" \/ (first = "unavailable" /\ kind # "unavailable")

-------------------------------------------------------------------------------
(* batchRecalculate: the active products, in the order of the query. *)
StartBatch ==
    /\ recalculation.phase # "running"
    /\ recalculation' = [NoBatchYet EXCEPT !.phase = "running", !.todo = SetToSeq(menu)]
    /\ UNCHANGED <<menu, prediction, weekSold, forecastPc, forecastLoc>>

(* A worker takes the next index; a product deleted since then fails. *)
TakeProduct(w) ==
    /\ w \in Workers /\ forecastPc[w] = "idle"
    /\ recalculation.phase = "running" /\ recalculation.todo # <<>>
    /\ LET p == Head(recalculation.todo)
       IN  /\ recalculation' = [recalculation EXCEPT !.todo = Tail(@),
                                     !.failed = IF p \in menu THEN @ ELSE @ \cup {p}]
           /\ IF p \in menu THEN ForecastGo(w, "ask", [ForecastNothing EXCEPT !.product = {p}])
                            ELSE ForecastDone(w)
    /\ UNCHANGED <<menu, prediction, weekSold>>

(* recalculateSingle. *)
RecalculateOne(w) ==
    /\ w \in Singles /\ forecastPc[w] = "idle"
    /\ \E p \in menu : ForecastGo(w, "ask", [ForecastNothing EXCEPT !.product = {p}])
    /\ UNCHANGED <<menu, prediction, weekSold, recalculation>>

ProductOf(w) == CHOOSE p \in Menu : forecastLoc[w].product = {p}

(* recalculateProductPrediction up to its lookup: the call, the row. *)
AskModel(w) ==
    /\ forecastPc[w] = "ask"
    /\ \E answer \in Answers :
          /\ ForecastGo(w, "find", [forecastLoc[w] EXCEPT !.row = Forecast(ProductOf(w), answer)])
          /\ recalculation' = IF w \in Workers /\ Reported(answer) # "none"
                      THEN [recalculation EXCEPT
                              !.degraded = @ \cup {ProductOf(w)},
                              !.kind = IF Outranks(Reported(answer), @) THEN Reported(answer) ELSE @]
                      ELSE recalculation
    /\ UNCHANGED <<menu, prediction, weekSold>>

FindRow(w) ==
    /\ forecastPc[w] = "find"
    /\ ForecastGo(w, "save", [forecastLoc[w] EXCEPT !.seen = prediction[ProductOf(w)]])
    /\ UNCHANGED <<menu, prediction, weekSold, recalculation>>

(* The document as saved keeps what reconciliation wrote.  Its version is  *)
(* checked when the array of days changes: that save fails if another one  *)
(* changed the array since.  A new row must be the first of its key.       *)
SaveFails(w) ==
    LET p == ProductOf(w)
        l == forecastLoc[w]
    IN  IF l.seen = NoRow THEN prediction[p] # NoRow
                          ELSE prediction[p].version # l.seen.version /\ l.row.days # l.seen.days

Merged(p, row, seen) ==
    [prediction[p] EXCEPT
        !.total = row.total, !.source = row.source, !.reason = row.reason,
        !.days = IF row.days = seen.days /\ seen # NoRow THEN @ ELSE row.days,
        !.version = IF seen # NoRow /\ row.days # seen.days THEN @ + 1 ELSE @]

SaveRow(w) ==
    LET p == ProductOf(w)
        l == forecastLoc[w]
    IN  /\ forecastPc[w] = "save"
        /\ prediction[p].version < MaxSaves
        /\ prediction' = IF SaveFails(w) THEN prediction
                         ELSE [prediction EXCEPT ![p] = Merged(p, l.row, l.seen)]
        /\ recalculation' = IF w \notin Workers THEN recalculation
                    ELSE IF SaveFails(w) THEN [recalculation EXCEPT !.failed = @ \cup {p}]
                    ELSE [recalculation EXCEPT !.rows[p] = l.row]
        /\ ForecastDone(w)
        /\ UNCHANGED <<menu, weekSold>>

(* The answer of the batch; the drafts it triggers are in SupplyChain. *)
FinishBatch ==
    /\ recalculation.phase = "running" /\ recalculation.todo = <<>>
    /\ \A w \in Workers : forecastPc[w] = "idle"
    /\ recalculation' = [recalculation EXCEPT !.phase = "answered"]
    /\ UNCHANGED <<menu, prediction, weekSold, forecastPc, forecastLoc>>

-------------------------------------------------------------------------------
(* reconcilePredictionAccuracy: the rows are read, the sales are read, the *)
(* errors are written.                                                     *)
ReadRows(w) ==
    /\ w \in Reconcilers /\ forecastPc[w] = "idle"
    /\ \E p \in Menu : prediction[p] # NoRow
    /\ ForecastGo(w, "sales", [ForecastNothing EXCEPT !.rows = prediction])
    /\ UNCHANGED <<menu, prediction, weekSold, recalculation>>

ReadSales(w) ==
    /\ forecastPc[w] = "sales"
    /\ ForecastGo(w, "errors", [forecastLoc[w] EXCEPT !.sold = weekSold])
    /\ UNCHANGED <<menu, prediction, weekSold, recalculation>>

Distance(a, b) == IF a > b THEN a - b ELSE b - a

WriteErrors(w) ==
    LET l == forecastLoc[w]
    IN  /\ forecastPc[w] = "errors"
        /\ prediction' = [p \in Menu |->
              IF l.rows[p] = NoRow THEN prediction[p]
              ELSE [prediction[p] EXCEPT !.actual = l.sold[p],
                                         !.error = Distance(l.rows[p].total, l.sold[p])]]
        /\ ForecastDone(w)
        /\ UNCHANGED <<menu, weekSold, recalculation>>

(* External: orders are delivered in the week; products are deleted. *)
SellInWeek ==
    /\ \E p \in Menu : weekSold[p] < MaxWeekSold /\ weekSold' = [weekSold EXCEPT ![p] = @ + 1]
    /\ UNCHANGED <<menu, prediction, recalculation, forecastPc, forecastLoc>>

DeleteFromMenu ==
    /\ \E p \in menu : menu' = menu \ {p}
    /\ UNCHANGED <<prediction, weekSold, recalculation, forecastPc, forecastLoc>>

RecalculationStep(w) == TakeProduct(w) \/ RecalculateOne(w) \/ AskModel(w) \/ FindRow(w) \/ SaveRow(w)

ReconciliationStep(w) == ReadRows(w) \/ ReadSales(w) \/ WriteErrors(w)

NextForecast ==
    \/ StartBatch \/ FinishBatch
    \/ \E w \in ForecastStaff : RecalculationStep(w) \/ ReconciliationStep(w)
    \/ SellInWeek \/ DeleteFromMenu

SpecForecast == InitForecast /\ [][NextForecast]_forecastVars

-------------------------------------------------------------------------------
(* Why the model had no part in a row: the service could not answer, or    *)
(* the restaurant's own requests are the reason.                           *)
Diagnoses == {"client_error", "rate_limited"}

(* A batch that answers degraded: false holds no row the model had no part *)
(* in ('a batch that answers HTTP 200 ... while every single row is a      *)
(* naive fallback is indistinguishable from a healthy batch'), and one     *)
(* that holds a row with a diagnosis answers with a diagnosis, never with  *)
(* the outage of another product.                                          *)
HealthyBatchIsModelMade ==
    recalculation.phase = "answered" =>
        \A p \in Menu :
            LET row == recalculation.rows[p]
            IN  /\ row.source = "fallback_naive" => recalculation.kind # "none"
                /\ row.reason \in Diagnoses => recalculation.kind \in Diagnoses
===============================================================================
