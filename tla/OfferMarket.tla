------------------------------ MODULE OfferMarket ------------------------------
(***************************************************************************)
(* The offers of one product: how they come on the market and leave it,    *)
(* and how their units are reserved at checkout and come back.  Offers of  *)
(* different products share nothing but the restaurant's subscription, so  *)
(* one product is the whole system for the properties stated here.         *)
(*                                                                         *)
(* Every request and the five-minute cron is a process.  A step of a       *)
(* handler is one database write with the reads just before it, or a read  *)
(* that guards a later write; repository.update writes by _id alone,       *)
(* whatever other filter it is given (DB/base.service.ts).                 *)
(***************************************************************************)
EXTENDS Integers, FiniteSets

CONSTANTS
    Offers,         \* ids of the offers that can be created
    NoOffer,        \* an absent id
    Windows,        \* the validity windows a manager may choose
    Horizon,        \* bound of the clock
    MaxUnits,       \* bound of an offer's quantity
    Statuses,       \* the statuses a manager may ask for in an update
    MayResize,      \* TRUE: updates may change the quantity
    MayMove,        \* TRUE: updates may change the window
    Checkouts, Restockers, Managers, Crons

Proc == UNION {Checkouts, Restockers, Managers, Crons}

OfferStatuses == {"draft", "scheduled", "active", "expired", "cancelled",
                  "sold_out", "suspended"}

Window == {w \in [start : 0..Horizon, end : 0..Horizon] : w.start < w.end}

ASSUME MarketAssumption ==
    /\ Horizon \in Nat /\ MaxUnits \in Nat
    /\ Windows \subseteq Window
    /\ Statuses \subseteq OfferStatuses
    /\ NoOffer \notin Offers
    /\ MayResize \in BOOLEAN /\ MayMove \in BOOLEAN

VARIABLES
    offer,      \* offer[o]: [status, start, end, available, remaining]
    taken,      \* taken[o]: the units running checkouts and orders hold
    now,        \* the clock
    paid,       \* TRUE while the subscription gives access (hasDashboardAccess)
    pc, loc     \* where each handler is and what it holds

vars == <<offer, taken, now, paid, pc, loc>>

-------------------------------------------------------------------------------
NoDoc == [status |-> "none", start |-> 0, end |-> 0, available |-> 0, remaining |-> 0]

OfferDoc == [status : OfferStatuses \cup {"none"}, start : 0..Horizon,
             end : 0..Horizon, available : Nat, remaining : Int]

(* What a handler holds: the offer and quantity it works on, the document  *)
(* it is about to write (status "none": leave it) and whether that write   *)
(* includes the quantities or the window; and the cron's clock reading,    *)
(* candidates, pass and answer on the subscription.                        *)
NoLocals == [id |-> NoOffer, units |-> 0, body |-> NoDoc, resized |-> FALSE,
             moved |-> FALSE, at |-> 0, todo |-> {}, restocked |-> FALSE, access |-> FALSE]

Labels == {"idle", "reserve", "recheck", "markSoldOut", "reopenCheck", "reopen",
           "create", "write", "cancel", "demote", "findScheduled", "consider",
           "activate", "findRestocked", "suspend"}

Locals == [id : Offers \cup {NoOffer}, units : Nat, body : OfferDoc, resized : BOOLEAN,
           moved : BOOLEAN, at : 0..Horizon, todo : SUBSET Offers, restocked : BOOLEAN, access : BOOLEAN]

TypeOK ==
    /\ offer \in [Offers -> OfferDoc]
    /\ taken \in [Offers -> [open : Int, held : Int]]
    /\ now \in 0..Horizon
    /\ paid \in BOOLEAN
    /\ pc \in [Proc -> Labels]
    /\ loc \in [Proc -> Locals]

Init ==
    /\ offer = [o \in Offers |-> NoDoc]
    /\ taken = [o \in Offers |-> [open |-> 0, held |-> 0]]
    /\ now = 0
    /\ paid = TRUE
    /\ pc = [p \in Proc |-> "idle"]
    /\ loc = [p \in Proc |-> NoLocals]

Finish(p) == /\ pc' = [pc EXCEPT ![p] = "idle"]
             /\ loc' = [loc EXCEPT ![p] = NoLocals]

Hold(p, held) == loc' = [loc EXCEPT ![p] = held]

Goto(p, label) == pc' = [pc EXCEPT ![p] = label]

Status(o, status) == offer' = [offer EXCEPT ![o].status = status]

(* updateMany: every offer the filter selects takes the new status. *)
UpdateMany(selected, status) ==
    offer' = [o \in Offers |-> IF o \in selected
                               THEN [offer[o] EXCEPT !.status = status] ELSE offer[o]]

-------------------------------------------------------------------------------
(* OfferRulesService. *)
LIVE_STATUSES == {"draft", "scheduled", "active", "sold_out", "suspended"}

Transitions(from) ==
    CASE from = "draft"     -> {"scheduled", "active", "cancelled"}
      [] from = "scheduled" -> {"active", "cancelled"}
      [] from = "active"    -> {"cancelled"}
      [] from = "sold_out"  -> {"active", "cancelled"}
      [] OTHER              -> {}

MayTransit(from, to) ==
    to \notin {"expired", "sold_out"} /\ (from = to \/ to \in Transitions(from))

(* assertNoOverlap *)
Overlaps(w, except) ==
    \E o \in Offers \ {except} : /\ offer[o].status \in LIVE_STATUSES
                                 /\ offer[o].start <= w.end /\ offer[o].end >= w.start

(* Mutant: the other offers are not looked at. *)
NoConflict(except) == FALSE

(* assertActiveConflict *)
ActiveConflict(except) == \E o \in Offers \ {except} : offer[o].status = "active"

DeriveStatus(start) == IF start <= now THEN "active" ELSE "scheduled"

-------------------------------------------------------------------------------
(* createOrder, for one item of the basket.  The first step is the         *)
(* validation of the cart's offer.                                         *)
ReadOffer(p) ==
    /\ p \in Checkouts /\ pc[p] = "idle"
    /\ \E o \in Offers, q \in 1..MaxUnits :
          /\ offer[o].status = "active" /\ paid
          /\ offer[o].start <= now /\ now <= offer[o].end
          /\ q <= offer[o].remaining
          /\ Hold(p, [loc[p] EXCEPT !.id = o, !.units = q])
    /\ Goto(p, "reserve")
    /\ UNCHANGED <<offer, taken, now, paid>>

(* The reservation: one $inc, atomic, but its filter on remainingQuantity  *)
(* is not applied because the filter also names the _id.                   *)
ReserveUnits(p) ==
    LET o == loc[p].id
    IN  /\ pc[p] = "reserve"
        /\ offer' = [offer EXCEPT ![o].remaining = @ - loc[p].units]
        /\ taken' = [taken EXCEPT ![o].open = @ + loc[p].units]
        /\ Goto(p, "recheck")
        /\ UNCHANGED <<now, paid, loc>>

(* The order is created once its basket is reserved. *)
PlaceOrder(p) ==
    taken' = [taken EXCEPT ![loc[p].id] = [open |-> @.open - loc[p].units,
                                           held |-> @.held + loc[p].units]]

StockLeft(p) ==
    /\ pc[p] = "recheck" /\ offer[loc[p].id].remaining # 0
    /\ PlaceOrder(p)
    /\ Finish(p)
    /\ UNCHANGED <<offer, now, paid>>

NoStockLeft(p) ==
    /\ pc[p] = "recheck" /\ offer[loc[p].id].remaining = 0
    /\ Goto(p, "markSoldOut")
    /\ UNCHANGED <<offer, taken, now, paid, loc>>

(* Mutant: the write that marks the offer also empties it. *)
MarkEmptied(p) ==
    /\ pc[p] = "markSoldOut"
    /\ offer' = [offer EXCEPT ![loc[p].id].status = "sold_out", ![loc[p].id].remaining = 0]
    /\ PlaceOrder(p)
    /\ Finish(p)
    /\ UNCHANGED <<now, paid>>

MarkSoldOut(p) ==
    /\ pc[p] = "markSoldOut"
    /\ Status(loc[p].id, "sold_out")
    /\ PlaceOrder(p)
    /\ Finish(p)
    /\ UNCHANGED <<now, paid>>

-------------------------------------------------------------------------------
(* restockFromCancelledOrderItem, called for an order that held the units. *)
ReturnUnits(p) ==
    /\ p \in Restockers /\ pc[p] = "idle"
    /\ \E o \in Offers : \E q \in 1..taken[o].held :
          /\ offer' = [offer EXCEPT ![o].remaining = @ + q]
          /\ taken' = [taken EXCEPT ![o].held = @ - q]
          /\ Hold(p, [loc[p] EXCEPT !.id = o])
    /\ Goto(p, "reopenCheck")
    /\ UNCHANGED <<now, paid>>

(* Mutant: any offer with units is reopened. *)
ReopensAny(o) == /\ offer[o].remaining > 0
                 /\ offer[o].start <= now /\ now <= offer[o].end
                 /\ ~ActiveConflict(o)

Reopens(o) == /\ offer[o].status = "sold_out" /\ offer[o].remaining > 0
              /\ offer[o].start <= now /\ now <= offer[o].end
              /\ ~ActiveConflict(o)

CheckReopen(p) ==
    /\ pc[p] = "reopenCheck"
    /\ IF Reopens(loc[p].id) THEN Goto(p, "reopen") /\ UNCHANGED loc ELSE Finish(p)
    /\ UNCHANGED <<offer, taken, now, paid>>

Reopen(p) ==
    /\ pc[p] = "reopen"
    /\ Status(loc[p].id, "active")
    /\ Finish(p)
    /\ UNCHANGED <<taken, now, paid>>

-------------------------------------------------------------------------------
(* createOffer.  Its default status is derived from the window alone.      *)
CreateOffer(p) ==
    /\ p \in Managers /\ pc[p] = "idle"
    /\ \E w \in Windows, q \in 1..MaxUnits, asked \in {"none", "draft", "scheduled", "active"} :
          LET status == IF asked = "none" THEN DeriveStatus(w.start) ELSE asked
          IN  /\ w.end > now /\ ~Overlaps(w, NoOffer)
              /\ asked = "active" => w.start <= now /\ ~ActiveConflict(NoOffer)
              /\ status # "active" => w.start >= now
              /\ Hold(p, [loc[p] EXCEPT !.body = [status |-> status, start |-> w.start,
                                                end |-> w.end, available |-> q,
                                                remaining |-> q]])
    /\ Goto(p, "create")
    /\ UNCHANGED <<offer, taken, now, paid>>

(* Approving a recommendation creates an ACTIVE offer for any window, but  *)
(* looks only for other active or scheduled offers.                        *)
ApproveRecommendation(p) ==
    /\ p \in Managers /\ pc[p] = "idle"
    /\ \A o \in Offers : offer[o].status \notin {"active", "scheduled"}
    /\ \E w \in Windows, q \in 1..MaxUnits :
          Hold(p, [loc[p] EXCEPT !.body = [status |-> "active", start |-> w.start,
                                        end |-> w.end, available |-> q,
                                        remaining |-> q]])
    /\ Goto(p, "create")
    /\ UNCHANGED <<offer, taken, now, paid>>

WriteCreated(p) ==
    /\ pc[p] = "create"
    /\ \E o \in Offers : /\ offer[o].status = "none"
                         /\ offer' = [offer EXCEPT ![o] = loc[p].body]
    /\ Finish(p)
    /\ UNCHANGED <<taken, now, paid>>

(* The status an update implies when it names none: a sold-out offer with  *)
(* new units, or a draft or scheduled one with new dates.                  *)
Implied(o, remaining, resized, moved, w) ==
    LET doc == offer[o]
    IN  IF resized /\ doc.status = "sold_out" /\ remaining > 0
        THEN IF now < doc.start THEN "scheduled"
             ELSE IF now <= doc.end /\ ~ActiveConflict(o) THEN "active" ELSE "none"
        ELSE IF moved /\ doc.status \in {"draft", "scheduled"}
        THEN IF w.start <= now /\ ~ActiveConflict(o) THEN "active" ELSE "scheduled"
        ELSE "none"

(* Mutant: nothing counts as sold. *)
NoneSold(doc) == 0

SoldOf(doc) == doc.available - doc.remaining

(* updateOffer up to its write: a new quantity, new dates, a new status,   *)
(* or any of them together, checked against the offer as read.             *)
UpdateOffer(p) ==
    /\ p \in Managers /\ pc[p] = "idle"
    /\ \E o \in Offers, resized \in {FALSE, MayResize}, moved \in {FALSE, MayMove},
          asked \in Statuses \cup {"none"} :
       \E q \in IF resized THEN 1..MaxUnits ELSE {offer[o].available},
          w \in IF moved THEN Windows ELSE {[start |-> offer[o].start, end |-> offer[o].end]} :
          LET doc       == offer[o]
              remaining == doc.remaining + q - doc.available
              status    == IF asked = "none" THEN Implied(o, remaining, resized, moved, w)
                           ELSE asked
          IN  /\ resized \/ moved \/ asked # "none"    \* an empty body changes nothing
              /\ doc.status \notin {"none", "expired", "cancelled"}
              /\ w.start # doc.start => doc.status \in {"draft", "scheduled"}
              /\ resized => q >= SoldOf(doc)
              /\ moved => w.end > now /\ ~Overlaps(w, o)
              /\ asked # "none" => MayTransit(doc.status, asked)
              /\ asked = "active" => remaining > 0 /\ w.start <= now /\ ~ActiveConflict(o)
              /\ moved /\ w.start < now =>
                    (IF status = "none" THEN doc.status ELSE status)
                        \notin {"draft", "scheduled"}
              /\ Hold(p, [loc[p] EXCEPT
                            !.id = o, !.resized = resized, !.moved = moved,
                            !.body = [status |-> status, start |-> w.start, end |-> w.end,
                                      available |-> q, remaining |-> remaining]])
    /\ Goto(p, "write")
    /\ UNCHANGED <<offer, taken, now, paid>>

(* The body goes over whatever the document has become. *)
WriteUpdate(p) ==
    LET body == loc[p].body
        dated(doc) == IF loc[p].moved
                      THEN [doc EXCEPT !.start = body.start, !.end = body.end] ELSE doc
        sized(doc) == IF loc[p].resized
                      THEN [doc EXCEPT !.available = body.available,
                                       !.remaining = body.remaining] ELSE doc
        named(doc) == IF body.status = "none" THEN doc
                      ELSE [doc EXCEPT !.status = body.status]
    IN  /\ pc[p] = "write"
        /\ offer' = [offer EXCEPT ![loc[p].id] = named(sized(dated(@)))]
        /\ Finish(p)
        /\ UNCHANGED <<taken, now, paid>>

(* cancelOffer *)
ReadCancellable(p) ==
    /\ p \in Managers /\ pc[p] = "idle"
    /\ \E o \in Offers : /\ offer[o].status \notin {"none", "cancelled", "expired"}
                         /\ offer[o].end > now
                         /\ Hold(p, [loc[p] EXCEPT !.id = o])
    /\ Goto(p, "cancel")
    /\ UNCHANGED <<offer, taken, now, paid>>

CancelOffer(p) ==
    /\ pc[p] = "cancel"
    /\ Status(loc[p].id, "cancelled")
    /\ Finish(p)
    /\ UNCHANGED <<taken, now, paid>>

-------------------------------------------------------------------------------
(* Mutants of the cron: nothing expires, nothing reopens, a lapse is only  *)
(* noticed on offers that are still scheduled.                             *)
ExpireLater(p) ==
    /\ p \in Crons /\ pc[p] = "idle"
    /\ UpdateMany({o \in Offers : offer[o].status \in {"active", "sold_out"}
                                     /\ offer[o].end < now}, "expired")
    /\ Hold(p, [loc[p] EXCEPT !.at = now])
    /\ Goto(p, "demote")
    /\ UNCHANGED <<taken, now, paid>>

(* processStatusTransitions, with the clock it reads at its start. *)
Expire(p) ==
    /\ p \in Crons /\ pc[p] = "idle"
    /\ UpdateMany({o \in Offers : offer[o].status \in {"active", "sold_out"}
                                     /\ offer[o].end <= now}, "expired")
    /\ Hold(p, [loc[p] EXCEPT !.at = now])
    /\ Goto(p, "demote")
    /\ UNCHANGED <<taken, now, paid>>

Demote(p) ==
    /\ pc[p] = "demote"
    /\ UpdateMany({o \in Offers : offer[o].status = "active"
                                     /\ offer[o].start > loc[p].at}, "scheduled")
    /\ Goto(p, "findScheduled")
    /\ UNCHANGED <<taken, now, paid, loc>>

Running(o, at) == offer[o].start <= at /\ offer[o].end > at

FindScheduled(p) ==
    /\ pc[p] = "findScheduled"
    /\ Hold(p, [loc[p] EXCEPT !.todo = {o \in Offers : offer[o].status = "scheduled"
                                                       /\ Running(o, loc[p].at)}])
    /\ Goto(p, "consider")
    /\ UNCHANGED <<offer, taken, now, paid>>

(* One candidate of either pass: skipped when another offer is active. *)
Consider(p) ==
    /\ pc[p] = "consider"
    /\ \E o \in loc[p].todo :
          /\ Hold(p, [loc[p] EXCEPT !.id = o, !.todo = @ \ {o}])
          /\ Goto(p, IF ActiveConflict(o) THEN "consider" ELSE "activate")
    /\ UNCHANGED <<offer, taken, now, paid>>

Activate(p) ==
    /\ pc[p] = "activate"
    /\ Status(loc[p].id, "active")
    /\ Goto(p, "consider")
    /\ UNCHANGED <<taken, now, paid, loc>>

MarkDepleted(p) ==
    /\ pc[p] = "consider" /\ loc[p].todo = {} /\ ~loc[p].restocked
    /\ UpdateMany({o \in Offers : offer[o].status = "active"
                                     /\ offer[o].remaining <= 0}, "sold_out")
    /\ Goto(p, "findRestocked")
    /\ UNCHANGED <<taken, now, paid, loc>>

FindNone(p) ==
    /\ pc[p] = "findRestocked"
    /\ Hold(p, [loc[p] EXCEPT !.restocked = TRUE])
    /\ Goto(p, "consider")
    /\ UNCHANGED <<offer, taken, now, paid>>

FindRestocked(p) ==
    /\ pc[p] = "findRestocked"
    /\ Hold(p, [loc[p] EXCEPT !.restocked = TRUE,
                              !.todo = {o \in Offers : /\ offer[o].status = "sold_out"
                                                       /\ offer[o].remaining > 0
                                                       /\ Running(o, loc[p].at)}])
    /\ Goto(p, "consider")
    /\ UNCHANGED <<offer, taken, now, paid>>

(* applySubscriptionSuspension *)
ReadSubscription(p) ==
    /\ pc[p] = "consider" /\ loc[p].todo = {} /\ loc[p].restocked
    /\ Hold(p, [loc[p] EXCEPT !.access = paid])
    /\ Goto(p, "suspend")
    /\ UNCHANGED <<offer, taken, now, paid>>

(* Mutant *)
SuspendScheduled(p) ==
    /\ pc[p] = "suspend"
    /\ IF loc[p].access
       THEN UpdateMany({o \in Offers : offer[o].status = "suspended"}, "scheduled")
       ELSE UpdateMany({o \in Offers : offer[o].status \in {"scheduled", "sold_out"}},
                       "suspended")
    /\ Finish(p)
    /\ UNCHANGED <<taken, now, paid>>

SuspendOrRestore(p) ==
    /\ pc[p] = "suspend"
    /\ IF loc[p].access
       THEN UpdateMany({o \in Offers : offer[o].status = "suspended"}, "scheduled")
       ELSE UpdateMany({o \in Offers : offer[o].status \in {"active", "scheduled", "sold_out"}},
                       "suspended")
    /\ Finish(p)
    /\ UNCHANGED <<taken, now, paid>>

-------------------------------------------------------------------------------
Tick == /\ now < Horizon
        /\ now' = now + 1
        /\ UNCHANGED <<offer, taken, paid, pc, loc>>

(* The paid period ends, or the merchant pays for the next one. *)
SubscriptionChanges == /\ paid' = ~paid
                       /\ UNCHANGED <<offer, taken, now, pc, loc>>

CustomerStep(p) == \/ ReadOffer(p) \/ ReserveUnits(p) \/ StockLeft(p) \/ NoStockLeft(p)
                   \/ MarkSoldOut(p) \/ ReturnUnits(p) \/ CheckReopen(p) \/ Reopen(p)

ManagerStep(p) == \/ CreateOffer(p) \/ ApproveRecommendation(p) \/ WriteCreated(p)
                  \/ UpdateOffer(p) \/ WriteUpdate(p) \/ ReadCancellable(p) \/ CancelOffer(p)

CronStep(p) == \/ Expire(p) \/ Demote(p) \/ FindScheduled(p) \/ Consider(p) \/ Activate(p)
               \/ MarkDepleted(p) \/ FindRestocked(p) \/ ReadSubscription(p)
               \/ SuspendOrRestore(p)

Next == \/ \E p \in Proc : CustomerStep(p) \/ ManagerStep(p) \/ CronStep(p)
        \/ Tick \/ SubscriptionChanges

Spec == Init /\ [][Next]_vars

(* For the liveness properties: the cron is called every five minutes and  *)
(* runs to its end.                                                        *)
FairSpec == Spec /\ \A p \in Crons : WF_vars(CronStep(p))

-------------------------------------------------------------------------------
(* Every unit a merchant offers is for sale, in a basket, or in an order   *)
(* that was not returned, whatever checkouts, returns and the cron do at   *)
(* once (createOrder, restockFromCancelledOrderItem, updateOffer).         *)
UnitsConserved ==
    \A o \in Offers : offer[o].available =
                         offer[o].remaining + taken[o].open + taken[o].held

(* Orders never hold more units than were offered (createOrder validates   *)
(* the quantity before it reserves, updateOffer before it resizes).        *)
NeverOversold ==
    \A o \in Offers : taken[o].open + taken[o].held <= offer[o].available

Purchasable(o) == /\ offer[o].status = "active"
                  /\ offer[o].start <= now /\ now <= offer[o].end

(* A product is sold at one price at a time: no two of its offers can be   *)
(* bought at the same moment (assertNoOverlap, assertActiveConflict).      *)
OnePurchasable ==
    \A o, q \in Offers : Purchasable(o) /\ Purchasable(q) => o = q

(* An offer that was cancelled or has expired does not come back           *)
(* (STATUS_TRANSITIONS; the cron and the restock pick other statuses).     *)
FinishedStaysFinished ==
    [][\A o \in Offers : offer[o].status \in {"cancelled", "expired"}
                             => offer'[o].status = offer[o].status]_vars

(* An offer whose window has ended leaves the market (step 1 of the cron). *)
EndedLeavesMarket ==
    \A o \in Offers : offer[o].status = "active" /\ offer[o].end <= now
                         ~> offer[o].status # "active" \/ offer[o].end > now

(* Units that come back after the last one was sold are sold again while   *)
(* the window lasts, also when the return and the SOLD_OUT write race      *)
(* (step 4b of the cron).                                                  *)
RestockedReopens ==
    \A o \in Offers :
        offer[o].status = "sold_out" /\ offer[o].remaining > 0
            ~> \/ offer[o].status # "sold_out" \/ offer[o].remaining <= 0
               \/ ~Running(o, now) \/ ActiveConflict(o)

(* The offers of a restaurant whose subscription has lapsed leave the      *)
(* market (step 5 of the cron).                                            *)
LapsedLeavesMarket ==
    ~paid ~> paid \/ \A o \in Offers : offer[o].status # "active"
===============================================================================
