------------------------------ MODULE MCMerchant ------------------------------
(***************************************************************************)
(* The merchant's side of the platform on small instances.  The modules    *)
(* share no state except that onboarding begins a subscription, so one     *)
(* behaviour works in one area; each area says who is at work in it.       *)
(***************************************************************************)
EXTENDS Payouts, Onboarding

VARIABLE area

merchantVars == <<payoutVars, subscriptionVars, onboardingVars, area>>

CONSTANTS a2, m1, m2, v1, v2, j1, b1, b2, g1, g2, e1, h1, n1

SoldByOne   == [o \in Sales |-> "m1"]
Prices2     == [o \in Sales |-> IF o = 1 THEN 10 ELSE 7]
OnePiaster  == [o \in Sales |-> 1]
AllOnFile   == [m \in Merchants |-> TRUE]
SmallCaps   == [s \in Slugs |-> IF s = "starter" THEN 1 ELSE 2]

PublishedPlans == [s \in Slugs |-> [exists |-> TRUE, archived |-> FALSE, isTrial |-> s = "starter",
                                    prices |-> [i \in Intervals |-> CASE i = 1 -> 3
                                                                 [] i = 2 /\ s = "growth" -> 5
                                                                 [] OTHER -> NotSold]]]

InitMerchant ==
    /\ area \in {"payouts", "cutoff", "ledger", "plans", "billing", "joining", "approvals"}
    /\ InitPayouts /\ InitSubscriptions /\ InitOnboarding
    /\ plan = IF area = "plans" THEN [s \in Slugs |-> NoPlan] ELSE PublishedPlans
    /\ opened = IF area = "billing" THEN {m1} ELSE {}

(* Bound: one refund or one adjustment where payouts are followed. *)
FewEntries ==
    Cardinality({r \in Refunds : refunded[r] # NotRefunded})
      + Cardinality({a \in Adjustments : adjusted[a] # NotAdjusted}) <= 1

(* Bound: one plan of the two is always sold at the published prices. *)
OneLadder == \A a \in PlanAdmins : subLoc[a].slug = "growth" =>
                subLoc[a].prices \in {NoPrices, PublishedPlans["growth"].prices}

(* Without loss of generality: payments and applications are used in       *)
(* order, and the first application has the first email, phone and name.   *)
BillsInOrder == bill[b2] # NoBill => bill[b1] # NoBill

(* Bounds: an admin sets trials on the first day, and on the second while  *)
(* a payment is settled; the catalogue changes before the first checkout.  *)
EarlyTrials ==
    SetTrial \/ BackfillTrials => clock = 0 \/ (clock = 1 /\ \E x \in Settlers : subPc[x] # "idle")

CatalogueFirst == products' # products => \A p \in Bills : bill[p] = NoBill

(* Bounds: an email goes with one phone and one name; settings and seats   *)
(* change on day 0; only approvals that race may die.                      *)
JoiningBounds ==
    /\ \A x \in Applicants : LET doc == joinLoc'[x].doc
                            IN  (doc.email = e1) = (doc.phone = h1) /\ (doc.email = e1) = (doc.name = n1)
    /\ ~crashed'
    /\ (UpdateSettings \/ SetEarlyBird) => clock = 0
    /\ platform'.trials = platform'.seats

FormsInOrder ==
    /\ form[g2] # NoForm => form[g1] # NoForm
    /\ account[m2] # NoAccount => account[m1] # NoAccount
    /\ form[g1] = NoForm => \A x \in Applicants : joinLoc[x].doc # NoForm =>
          joinLoc[x].doc.email = e1 /\ joinLoc[x].doc.phone = h1 /\ joinLoc[x].doc.name = n1

(* Bounds: orders are delivered on the first two days, a payment lapses on *)
(* the first, and nothing is refunded or adjusted on the last, which no    *)
(* payout would reach.                                                     *)
EarlyEvents == /\ DeliverSale => today <= 1
               /\ RefundSettles \/ RecordAdjustment => today < LastDate
               /\ PaymentLapses => today = 0

(* Bound: two admins who record the same day ask for the same cutoff. *)
SameCutoff ==
    \A a \in Admins : payoutPc'[a] # "idle" => payoutLoc'[a].doc.end = today /\ today' = today

(* One admin does everything; two record a payout at once; refunds alone. *)
InPayouts ==
    /\ \/ /\ area = "payouts"
          /\ NextPayouts
          /\ payoutPc'[a2] = "idle" /\ FewEntries' /\ EarlyEvents
       \/ /\ area = "cutoff"
          /\ \/ \E a \in Admins : ReadStatement(a) \/ CreatePayout(a) \/ StampSettledOrders(a)
             \/ DeliverSale \/ NextDate
          /\ SameCutoff
       \/ area = "ledger" /\ (DeliverSale \/ RefundSettles)
    /\ UNCHANGED <<subscriptionVars, onboardingVars, area>>

InBilling ==
    /\ \/ area = "plans" /\ NextPlans /\ OneLadder'
       \/ area = "billing" /\ NextBilling /\ BillsInOrder' /\ CatalogueFirst /\ EarlyTrials
    /\ UNCHANGED <<payoutVars, onboardingVars, area>>

InJoining ==
    /\ \/ /\ area = "joining"
          /\ NextOnboarding
          /\ joinPc'[v2] = "idle" /\ JoiningBounds
       \/ /\ area = "approvals"
          /\ \/ \E x \in Applicants : ReadSubmission(x) \/ SubmitApplication(x)
             \/ \E a \in Reviewers : \/ ReadApproval(a) \/ CreateManager(a) \/ OpenRestaurant(a)
                                     \/ ApproveApplication(a) \/ ApprovalDies(a)
    /\ FormsInOrder'
    /\ UNCHANGED <<payoutVars, area>>

NextMerchant == InPayouts \/ InBilling \/ InJoining

SpecMerchant == InitMerchant /\ [][NextMerchant]_merchantVars
===============================================================================
