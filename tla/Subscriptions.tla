---------------------------- MODULE Subscriptions ----------------------------
(***************************************************************************)
(* What a restaurant may do on the platform: the plans admins publish, the *)
(* subscription a restaurant holds, the payments that extend it and the    *)
(* trials that precede it.                                                 *)
(*                                                                         *)
(* Nothing stores a subscription's state: it follows from two dates.  Plan *)
(* admins read, write and clear flags in separate steps; a settlement      *)
(* marks the payment, reads the restaurant, writes the new period and      *)
(* stamps the payment.                                                     *)
(***************************************************************************)
EXTENDS Integers, FiniteSets, FiniteSetsExt

CONSTANTS
    Restaurants,
    Slugs,          \* plans, by slug
    CapOf,          \* CapOf[s]: the productCap plan s is published with
    Intervals,      \* billing intervals, in months
    Prices,         \* what an interval may cost
    Bills,          \* bound: subscription payments
    Tabs,           \* checkouts the manager runs at once
    Settlers,       \* webhook and sweeper
    PlanAdmins,
    MaxProducts,    \* bound of a catalogue
    MonthDays,      \* days of a month
    GraceDays,      \* GRACE_DAYS
    TrialDays,      \* settings.trialDurationDays
    LastClock       \* bound of the calendar

ASSUME SubscriptionAssumption ==
    /\ Intervals \subseteq Nat \ {0} /\ Prices \subseteq Nat \ {0}
    /\ MonthDays \in Nat \ {0} /\ GraceDays \in Nat /\ TrialDays \in Nat \ {0}
    /\ LastClock \in Nat /\ MaxProducts \in Nat
    /\ CapOf \in [Slugs -> Nat \ {0}]

VARIABLES
    plan,       \* plan[s]: [exists, prices, archived, isTrial]
    sub,        \* sub[m]: [tier, months, end, trial, cap, trialCap, seat]
    opened,     \* restaurants that exist
    products,   \* products[m]: how many the restaurant has
    bill,       \* bill[p]: [of, slug, months, status, age, charged, start, end];
                \* age: while pending, below 15 minutes, below an hour, above
    platform,   \* system settings: [trials, seats]
    clock,      \* today
    subPc, subLoc

subscriptionVars == <<plan, sub, opened, products, bill, platform, clock, subPc, subLoc>>

SubscriptionActors == UNION {Tabs, Settlers, PlanAdmins}

-------------------------------------------------------------------------------
Absent == -1        \* a field that was never set

NotSold == 0        \* an interval without a price

NoPrices == [i \in Intervals |-> NotSold]

NoPlan == [exists |-> FALSE, prices |-> NoPrices, archived |-> FALSE, isTrial |-> FALSE]

NoSubscription == [tier |-> "none", months |-> Absent, end |-> Absent, trial |-> Absent,
                   cap |-> Absent, trialCap |-> Absent, seat |-> FALSE]

NoBill == [of |-> "none", slug |-> "none", months |-> Absent, status |-> "none",
           age |-> "closed", charged |-> FALSE, start |-> Absent, end |-> Absent]

SubNothing == [slug |-> "none", prices |-> NoPrices, trial |-> "keep", of |-> "none",
               months |-> Absent, id |-> "none", start |-> Absent, end |-> Absent]

InitSubscriptions ==
    /\ sub = [m \in Restaurants |-> NoSubscription]
    /\ products = [m \in Restaurants |-> 0]
    /\ bill = [p \in Bills |-> NoBill]
    /\ platform = [trials |-> TRUE, seats |-> TRUE]
    /\ clock = 0
    /\ subPc = [x \in SubscriptionActors |-> "idle"]
    /\ subLoc = [x \in SubscriptionActors |-> SubNothing]

SubGo(x, label, held) == /\ subPc' = [subPc EXCEPT ![x] = label]
                         /\ subLoc' = [subLoc EXCEPT ![x] = held]

SubDone(x) == SubGo(x, "idle", SubNothing)

-------------------------------------------------------------------------------
(* resolveSubscriptionState: a paid period outranks a trial, and only a    *)
(* lapsed payer has days of grace.                                         *)
ActiveOn(m)   == sub[m].end # Absent /\ clock <= sub[m].end
InGrace(m)    == sub[m].end # Absent /\ clock > sub[m].end /\ clock <= sub[m].end + GraceDays
TrialLive(m)  == sub[m].trial # Absent /\ clock <= sub[m].trial

SubscriptionState(m) ==
    CASE ActiveOn(m)                                    -> "active"
      [] InGrace(m)                                     -> "grace"
      [] TrialLive(m) /\ ~ActiveOn(m) /\ ~InGrace(m)    -> "trial"
      [] OTHER -> IF sub[m].trial = Absent /\ sub[m].end = Absent THEN "unpaid" ELSE "expired"

HasDashboardAccess(m) == SubscriptionState(m) \in {"trial", "active", "grace"}

(* nextPeriodStart: the latest of today and both dates. *)
NextPeriodStart(m) == Max({clock, sub[m].trial, sub[m].end})

(* currentIntervalMonths: nothing was bought, or it has run out. *)
CurrentMonths(m) == IF ActiveOn(m) /\ sub[m].months # Absent THEN sub[m].months ELSE 0

(* effectiveProductCap: the larger of the caps whose entitlement is live. *)
EffectiveCap(m) ==
    LET live == (IF TrialLive(m) THEN {sub[m].trialCap} ELSE {})
                  \cup (IF ActiveOn(m) \/ InGrace(m) THEN {sub[m].cap} ELSE {})
    IN  Max({0} \cup live)

(* canPurchasePlan *)
CanPurchase(m, s, months) ==
    \/ SubscriptionState(m) \notin {"trial", "active"}
    \/ CapOf[s] > EffectiveCap(m)
    \/ months > CurrentMonths(m)

-------------------------------------------------------------------------------
SoldIntervals(prices) == {i \in Intervals : prices[i] # NotSold}

(* assertMonotonicLadder: every priced interval against the priced one     *)
(* before it, more in total and not more per month.                        *)
LadderOk(prices) ==
    LET sold == SoldIntervals(prices)
    IN  /\ sold # {}
        /\ \A j \in sold :
              LET shorter == {i \in sold : i < j}
                  i       == Max(shorter)
              IN  shorter # {} => /\ prices[j] > prices[i]
                                  /\ prices[j] * i <= prices[i] * j

(* create: ladder and slug are checked, ... *)
ReadNewPlan(a) ==
    /\ a \in PlanAdmins /\ subPc[a] = "idle"
    /\ \E s \in Slugs, prices \in [Intervals -> Prices \cup {NotSold}], trial \in {"yes", "no"} :
          /\ LadderOk(prices) /\ ~plan[s].exists
          /\ SubGo(a, "createPlan", [SubNothing EXCEPT !.slug = s, !.prices = prices, !.trial = trial])
    /\ UNCHANGED <<plan, sub, opened, products, bill, platform, clock>>

(* Mutant: the other plans keep their flag. *)
AfterPlanWriteOnly(a) == SubDone(a)

(* What follows a write: a plan that becomes the trial plan clears the     *)
(* flag of all others.                                                     *)
AfterPlanWrite(a) == IF subLoc[a].trial = "yes" THEN SubGo(a, "clearTrial", subLoc[a])
                     ELSE SubDone(a)

(* ... the plan is inserted; slug is unique. *)
CreatePlan(a) ==
    LET s == subLoc[a].slug
    IN  /\ subPc[a] = "createPlan"
        /\ IF plan[s].exists
           THEN SubDone(a) /\ UNCHANGED plan
           ELSE /\ plan' = [plan EXCEPT ![s] = [exists |-> TRUE, prices |-> subLoc[a].prices,
                                                archived |-> FALSE,
                                                isTrial |-> subLoc[a].trial = "yes"]]
                /\ AfterPlanWrite(a)
        /\ UNCHANGED <<sub, opened, products, bill, platform, clock>>

(* update: the prices of the patch are merged into those of the plan as    *)
(* read, and the whole ladder is checked, ...                              *)
ReadPlan(a) ==
    /\ a \in PlanAdmins /\ subPc[a] = "idle"
    /\ \E s \in Slugs, i \in Intervals, price \in Prices \cup {NotSold}, trial \in {"keep", "yes", "no"} :
          LET merged == [plan[s].prices EXCEPT ![i] = price]
          IN  /\ plan[s].exists /\ LadderOk(merged)
              /\ SubGo(a, "writePlan", [SubNothing EXCEPT !.slug = s, !.prices = merged, !.trial = trial])
    /\ UNCHANGED <<plan, sub, opened, products, bill, platform, clock>>

(* ... and all three prices are written, by _id.  The cap of the plan, which *)
(* later grants and payments copy, is left out: Catalogue's ChangeCap sets  *)
(* the cap of a restaurant to any value at any time.                        *)
WritePlan(a) ==
    LET s == subLoc[a].slug
    IN  /\ subPc[a] = "writePlan"
        /\ plan' = IF ~plan[s].exists THEN plan
                   ELSE [plan EXCEPT ![s].prices = subLoc[a].prices,
                                     ![s].isTrial = CASE subLoc[a].trial = "yes" -> TRUE
                                                      [] subLoc[a].trial = "no" -> FALSE
                                                      [] OTHER -> @]
        /\ AfterPlanWrite(a)
        /\ UNCHANGED <<sub, opened, products, bill, platform, clock>>

(* clearTrialFlagExcept *)
ClearTrialFlags(a) ==
    /\ subPc[a] = "clearTrial"
    /\ plan' = [s \in Slugs |-> IF s = subLoc[a].slug THEN plan[s]
                                ELSE [plan[s] EXCEPT !.isTrial = FALSE]]
    /\ SubDone(a)
    /\ UNCHANGED <<sub, opened, products, bill, platform, clock>>

(* setArchived: not the trial plan, as read. *)
ReadArchive(a) ==
    /\ a \in PlanAdmins /\ subPc[a] = "idle"
    /\ \E s \in Slugs, how \in {"archive", "unarchive"} :
          /\ plan[s].exists /\ (how = "archive" => ~plan[s].isTrial)
          /\ SubGo(a, how, [SubNothing EXCEPT !.slug = s])
    /\ UNCHANGED <<plan, sub, opened, products, bill, platform, clock>>

ArchivePlan(a) ==
    LET s == subLoc[a].slug
    IN  /\ subPc[a] \in {"archive", "unarchive"}
        /\ plan' = IF plan[s].exists THEN [plan EXCEPT ![s].archived = subPc[a] = "archive"] ELSE plan
        /\ SubDone(a)
        /\ UNCHANGED <<sub, opened, products, bill, platform, clock>>

(* remove: refused while a restaurant or a payment refers to it, ... *)
ReadRemoval(a) ==
    /\ a \in PlanAdmins /\ subPc[a] = "idle"
    /\ \E s \in Slugs :
          /\ plan[s].exists
          /\ \A m \in opened : sub[m].tier # s
          /\ \A p \in Bills : bill[p].slug # s
          /\ SubGo(a, "removePlan", [SubNothing EXCEPT !.slug = s])
    /\ UNCHANGED <<plan, sub, opened, products, bill, platform, clock>>

RemovePlan(a) ==
    /\ subPc[a] = "removePlan"
    /\ plan' = [plan EXCEPT ![subLoc[a].slug] = NoPlan]
    /\ SubDone(a)
    /\ UNCHANGED <<sub, opened, products, bill, platform, clock>>

-------------------------------------------------------------------------------
(* startCheckout: sold, large enough, due, and nothing pending for fifteen *)
(* minutes, ...                                                            *)
ReadCheckout(x) ==
    /\ x \in Tabs /\ subPc[x] = "idle"
    /\ \E m \in opened, s \in Slugs, i \in Intervals :
          /\ plan[s].exists /\ ~plan[s].archived /\ plan[s].prices[i] # NotSold
          /\ products[m] <= CapOf[s]
          /\ CanPurchase(m, s, i)
          /\ \A p \in Bills : ~(bill[p].of = m /\ bill[p].status = "PENDING" /\ bill[p].age = "fresh")
          /\ SubGo(x, "createBill", [SubNothing EXCEPT !.of = m, !.slug = s, !.months = i])
    /\ UNCHANGED <<plan, sub, opened, products, bill, platform, clock>>

(* ... then createPayment, with a snapshot of the plan. *)
CreateBill(x) ==
    /\ subPc[x] = "createBill"
    /\ \E p \in Bills :
          /\ bill[p] = NoBill
          /\ bill' = [bill EXCEPT ![p] = [NoBill EXCEPT
                        !.of = subLoc[x].of, !.slug = subLoc[x].slug, !.months = subLoc[x].months,
                        !.status = "PENDING", !.age = "fresh"]]
    /\ SubDone(x)
    /\ UNCHANGED <<plan, sub, opened, products, platform, clock>>

(* Fifteen minutes pass, then the hour in which it can be paid. *)
BillAges(p) ==
    /\ bill[p].status = "PENDING" /\ bill[p].age # "closed"
    /\ bill' = [bill EXCEPT ![p].age = IF @ = "fresh" THEN "open" ELSE "closed"]
    /\ UNCHANGED <<plan, sub, opened, products, platform, clock, subPc, subLoc>>

CustomerPays(p) ==
    /\ bill[p].status = "PENDING" /\ bill[p].age # "closed" /\ ~bill[p].charged
    /\ bill' = [bill EXCEPT ![p].charged = TRUE]
    /\ UNCHANGED <<plan, sub, opened, products, platform, clock, subPc, subLoc>>

(* A decline, or the sweeper's expiry: onFailed does nothing. *)
BillFails(p) ==
    /\ bill[p].status = "PENDING" /\ ~bill[p].charged
    /\ \E status \in {"FAILED"} \cup (IF bill[p].age = "closed" THEN {"EXPIRED"} ELSE {}) :
          bill' = [bill EXCEPT ![p].status = status, ![p].age = "closed"]
    /\ UNCHANGED <<plan, sub, opened, products, platform, clock, subPc, subLoc>>

(* applyTransactionOutcome: found pending, ... *)
FindCharged(x) ==
    /\ x \in Settlers /\ subPc[x] = "idle"
    /\ \E p \in Bills : /\ bill[p].charged /\ bill[p].status = "PENDING"
                        /\ SubGo(x, "markPaid", [SubNothing EXCEPT !.id = p, !.of = bill[p].of])
    /\ UNCHANGED <<plan, sub, opened, products, bill, platform, clock>>

(* Mutant: the payment keeps its status. *)
LeavePending(x) ==
    /\ subPc[x] = "markPaid"
    /\ SubGo(x, "readPeriod", subLoc[x])
    /\ UNCHANGED <<plan, sub, opened, products, bill, platform, clock>>

MarkPaid(x) ==
    /\ subPc[x] = "markPaid"
    /\ bill' = [bill EXCEPT ![subLoc[x].id].status = "PAID", ![subLoc[x].id].age = "closed"]
    /\ SubGo(x, "readPeriod", subLoc[x])
    /\ UNCHANGED <<plan, sub, opened, products, platform, clock>>

(* ... onPaid: the period follows from the restaurant as read, ... *)
ReadPeriod(x) ==
    LET start == NextPeriodStart(subLoc[x].of)
    IN  /\ subPc[x] = "readPeriod"
        /\ SubGo(x, "writePeriod", [subLoc[x] EXCEPT
              !.start = start, !.end = start + MonthDays * bill[subLoc[x].id].months])
        /\ UNCHANGED <<plan, sub, opened, products, bill, platform, clock>>

(* ... is written with the snapshot of the payment, never touching the     *)
(* trial, ...                                                              *)
WritePeriod(x) ==
    LET b == bill[subLoc[x].id]
    IN  /\ subPc[x] = "writePeriod"
        /\ sub' = [sub EXCEPT ![b.of].tier = b.slug, ![b.of].months = b.months,
                              ![b.of].cap = CapOf[b.slug], ![b.of].end = subLoc[x].end]
        /\ SubGo(x, "stampPeriod", subLoc[x])
        /\ UNCHANGED <<plan, opened, products, bill, platform, clock>>

(* ... and stamped on the payment. *)
StampPeriod(x) ==
    /\ subPc[x] = "stampPeriod"
    /\ bill' = [bill EXCEPT ![subLoc[x].id].start = subLoc[x].start,
                            ![subLoc[x].id].end = subLoc[x].end]
    /\ SubDone(x)
    /\ UNCHANGED <<plan, sub, opened, products, platform, clock>>

-------------------------------------------------------------------------------
TrialPlans == {s \in Slugs : plan[s].exists /\ plan[s].isTrial}

(* backfillMissingTrials, on every start of the service. *)
BackfillTrials ==
    /\ platform.trials
    /\ \E s \in TrialPlans :
          sub' = [m \in Restaurants |->
                    IF m \in opened /\ sub[m].trial = Absent /\ sub[m].end = Absent
                    THEN [sub[m] EXCEPT !.trial = clock + TrialDays, !.trialCap = CapOf[s]]
                    ELSE sub[m]]
    /\ sub' # sub
    /\ UNCHANGED <<plan, opened, products, bill, platform, clock, subPc, subLoc>>

(* setTrial: any date; revoking one is a date that has come. *)
SetTrial ==
    /\ \E m \in opened, day \in {clock, clock + TrialDays} :
          sub' = [sub EXCEPT ![m].trial = day]
    /\ UNCHANGED <<plan, opened, products, bill, platform, clock, subPc, subLoc>>

SetEarlyBird ==
    /\ \E m \in opened, granted \in BOOLEAN : sub' = [sub EXCEPT ![m].seat = granted]
    /\ UNCHANGED <<plan, opened, products, bill, platform, clock, subPc, subLoc>>

(* update of the system settings. *)
UpdateSettings ==
    /\ platform' \in [trials : BOOLEAN, seats : BOOLEAN]
    /\ UNCHANGED <<plan, sub, opened, products, bill, clock, subPc, subLoc>>

(* createProduct and removeProduct, as far as the cap goes. *)
AddProduct ==
    /\ \E m \in opened : /\ products[m] < Min({EffectiveCap(m), MaxProducts})
                         /\ products' = [products EXCEPT ![m] = @ + 1]
    /\ UNCHANGED <<plan, sub, opened, bill, platform, clock, subPc, subLoc>>

DropProduct ==
    /\ \E m \in opened : products[m] > 0 /\ products' = [products EXCEPT ![m] = @ - 1]
    /\ UNCHANGED <<plan, sub, opened, bill, platform, clock, subPc, subLoc>>

(* A day is longer than any checkout stays open. *)
ClockTicks ==
    /\ clock < LastClock
    /\ clock' = clock + 1
    /\ bill' = [p \in Bills |-> [bill[p] EXCEPT !.age = "closed"]]
    /\ UNCHANGED <<plan, sub, opened, products, platform, subPc, subLoc>>

PlanAdminStep(a) == \/ ReadNewPlan(a) \/ CreatePlan(a) \/ ReadPlan(a) \/ WritePlan(a)
                    \/ ClearTrialFlags(a) \/ ReadArchive(a) \/ ArchivePlan(a)
                    \/ ReadRemoval(a) \/ RemovePlan(a)

CheckoutStep(x) == ReadCheckout(x) \/ CreateBill(x)

SettlerStep(x) == FindCharged(x) \/ MarkPaid(x) \/ ReadPeriod(x) \/ WritePeriod(x) \/ StampPeriod(x)

NextPlans == \E a \in PlanAdmins : PlanAdminStep(a)

NextBilling == \/ \E x \in Tabs : CheckoutStep(x)
               \/ \E x \in Settlers : SettlerStep(x)
               \/ \E p \in Bills : BillAges(p) \/ CustomerPays(p) \/ BillFails(p)
               \/ BackfillTrials \/ SetTrial \/ AddProduct \/ DropProduct \/ ClockTicks

-------------------------------------------------------------------------------
Granted(p) == bill[p].end # Absent

(* The payments whose period the restaurant has. *)
Used == {p \in Bills : Granted(p)}
           \cup {subLoc[x].id : x \in {y \in Settlers : subPc[y] = "stampPeriod"}}

Promised == INSTANCE PaidTime WITH
                until   <- [m \in Restaurants |-> sub[m].end],
                granted <- Used,
                Lengths <- {MonthDays * i : i \in Intervals}

(* Settling a payment in five steps, while the calendar, trials and other  *)
(* requests move on, extends the paid time once, at one moment and by all  *)
(* the days that were bought ('renewing early must extend rather than      *)
(* truncate').                                                             *)
PaidTimeImplemented == Promised!SpecPaidTime

(* Between requests at most one plan is the trial plan, however two admins *)
(* set and clear the flag ('Exactly one plan may be the trial plan').      *)
AtMostOneTrialPlan ==
    (\A a \in PlanAdmins : subPc[a] = "idle") => Cardinality(TrialPlans) <= 1
===============================================================================
