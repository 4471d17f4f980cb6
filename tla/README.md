# RestoMind API: verification of its backend

TLA+ models of the RestoMind backend: money and stock (orders, payments,
refunds, payouts, subscriptions, offers), the restaurant's daily work (supplies,
forecasts, production plans, surplus) and the platform's records (catalogue,
imports, accounts, onboarding). They are checked with TLC on small instances;
every safety property, every action property and the refinement are proved with
TLAPS for every instance, some under a hypothesis section 4 states; liveness is
model-checked only. Paths below
are relative to `src/src/`.

## 1. The system

A NestJS server over MongoDB. Customers buy discounted food (offers) from
several restaurants in one basket; managers publish offers, plan production and
advance orders; admins review refunds, pay restaurants out and decide on
applications; Paymob is the payment gateway; a forecasting service predicts
demand; cron jobs repair what lost messages leave behind. There is no lock and,
in practice, no transaction: `createOrder`, `approveApplication` and
`createRestaurant` open one, but no repository call receives its session, so
every write stands alone. Two primitives decide what is safe:

- `update({filters})` (`DB/base.service.ts:69-78`) calls `findByIdAndUpdate`
  with the `_id` and drops every other filter. A check made before it is a
  check on a document as it was read.
- `findOneAndUpdate` and `updateMany` are conditional.

| Component | State | Operations | Interacts with | Hard behaviour |
|---|---|---|---|---|
| Payment settlement (`payments/`) | Payment: status, transaction id, refunded amount | webhook, sweeper, payer's reconcile, late-success refund, headroom reserve and release | gateway; the order group through `PaymentFulfiller` | lost, repeated and reordered callbacks; writes from stale reads; expiry against success |
| Order lifecycle (`orders/orders.service.ts`) | OrderGroup status, child orders, restock stamp, delivery stamp, cart | createOrder, onPaid, onFailed, cancelOrderGroup, updateOrderStatus, consumption of ingredients | payments, refunds, offers, inventory | four paths that restock one order; a cancellation racing a callback; statuses written by `_id` |
| Refunds (`orders/refunds.service.ts`, `refund-policy.ts`) | Refund rows | requestRefund, reviewRefund, executeRefund, order consequences, refund cron | the Payment's counter, gateway, orders | timeouts with unknown outcome; two reviews at once; money and orders out of step |
| Paymob client (`payments/paymob.service.ts`) | none of its own | intention, inquiry, refund, void | gateway | calls that time out, or are answered with an error, after taking effect |
| Offers (`offers/`) | Offer: status, window, available and remaining units | create, update, cancel, restock, reservation at checkout, five-minute cron | orders, subscriptions, recommendations | oversell, stale reactivation, suspension |
| Payouts (`payouts/`) | Payout rows, payout stamp on orders, adjustments | statement, record, complete, fail, adjust | delivered orders, refunds | a crash between row and stamps; refunds settled by date against orders settled by stamp; overlapping windows |
| Subscriptions (`subscriptions/`) | Restaurant.subscription, plans, settings, early-bird seats | plan CRUD with one trial plan, checkout, onPaid, trials, backfill | payments, offers cron, product cap | settlement in five writes; flags set and cleared separately; the window of the gateway against the window of the check |
| Onboarding (`partnership-applications/`) | application status, manager, restaurant, setup link | submit, approve, reject, resend, setup | accounts, restaurants, subscriptions | an approval that dies half way; two approvals; a reused link; the last seat |
| Inventory, recipes, purchase orders (`inventory/`, `ingredients/`, `purchase-orders/`) | batches, ledger, order status | first-expired-first-out deduction, waste, adjustment; create, send, receive; forecast drafts | delivered orders, forecasts | read, reduce and write back by several handlers; received twice |
| Weekly forecast (`weekly-prediction/`) | one row per product and week, the batch's answer | batch with workers, single recalculation, reconciling cron | forecasting service, purchase orders | partial and missing answers; deletions and recalculations during a batch |
| Production plans (`production-planning/`) | a plan per day, what the service learned | generate, refresh, record actuals, nightly sync, backfill | forecasting service, sales | a refresh racing a report; two sources of one quantity |
| Surplus (`recommendations/`) | waste reports, recommendations | scan, edit, dismiss, approve | forecasting service, offers | a scan that holds a recommendation a manager decides |
| Catalogue (`restaurant/`, `user/`, `products/`, `categories/`, `ingredients/`) | restaurants and owners, products, categories, recipes, ingredients | create, rename, assign, delete with cascades | cap of the plan, offers | checks that no write repeats; cascades of many writes; caps that shrink; moves that leave a recipe behind |
| Imports (`imports/`) | job status, rows written, rows learned | upload, confirm, retry | menu, ingredients, batches, sales, forecasting service | partial failure, crash, repeated confirmation against a menu that changes |
| Accounts (`auth/`, `user/`) | account, codes, tokens revoked, address book | sign-up, codes, login, refresh, logout, reset, addresses | mail | rotation against logout; dates with the grain of a second |
| Cart, assistant, notifications, dashboards, suppliers, favourites | own documents | create, read, update, delete; pure computations; calls to models | - | none that crosses a handler |

What makes each component correct:

- settlement: no fulfilment without a capture; no capture without fulfilment or
  refund; a lost callback is repaired; a failure returns the stock;
- lifecycle: units go back once; a live order keeps its units; a group's status
  follows its orders; the kitchen never goes back; ingredients leave once;
- refunds: the counter covers what moved and what was promised; no row pays
  twice; no line is in two refunds; orders are cancelled only after the money;
- offers: units are conserved; no oversell; one purchasable offer per product;
  the cron repairs and ends what it must;
- payouts: a sale is in one payout; a refund of a delivered order is clawed
  back; the shares of a refund add up to it;
- subscriptions: each payment extends the paid time once, by what was bought;
  one trial plan; onboarding: an approved application has its restaurant;
- supplies: the ledger covers what left the shelves; an order comes in once;
- forecasts, plans, surplus: an outage is not hidden in a healthy batch, nor a
  diagnosis behind an outage; what is learned was reported or carried by a sale; a
  recommendation becomes one offer;
- catalogue, imports, accounts: the cap; no dangling reference; a completed
  import was learned; a logout ends every session; one default address.

## 2. Modules

    OrderPolicy          pure rules: statuses, transitions, refund decisions
      |
    OrderMoney           the documents of one group, its payment and refunds,
      |                  the gateway's ledger, processes, shared helpers
      +-- PaymentSettlement   callbacks, sweeper, fulfilment, late success
      +-- RefundFlow          requests, reviews, execution, refund cron
             \   /
          OrderLifecycle      cancellation, status updates; the composed
            |   |             Next, the fairness and all properties
            |   OrderLifecycle_proofs   types, headroom, returned units
            |     |
            |   OrderStatus_proofs      statuses, stock, answers
            |     |
            |   RefundFlow_proofs       refunds
          MCOrderLifecycle    values for TLC

    OfferMarket          offers of one product, checkout, restock, cron
      |   |
      |   OfferMarket_proofs            units; requests one after another
    MCOfferMarket        values for TLC

    PaidTime             abstract: what a subscription payment promises
      ^ implemented by
    Subscriptions        plans, checkout, settlement, trials
      |
    Onboarding           applications, approval, setup link, trial
      |
    MCMerchant           + Payouts: statements, payouts, ledger shares
    Merchant_proofs      Payouts, Onboarding and the refinement

    SupplyChain          batches, ledger, purchase orders, drafts
    WeeklyPrediction     the weekly batch and its reconciliation
    ProductionPlanning   daily plans and what is learned from them
    SurplusOffers        waste scans and recommendations
      |
    MCKitchen            the four on small instances
    Kitchen_proofs       the four

    Catalogue            restaurants, products, categories, recipes
    Imports              CSV jobs
    Accounts             codes, sessions, address books
      |
    MCPlatform           the three on small instances
    Platform_proofs      the three

    SumTheorems          sums over finite sets, for the proof modules

`OrderMoney` is one order group: a `payment`, the `group` status, `order[o]` for
its child orders, `refund[r]` rows, and the world around them: `attempt[t]` (a
transaction of the checkout at the gateway), the child transactions the gateway
booked (`<<r, k>>`: refund `r` moved for the `k`-th time), which are `moved`
where the call was answered or timed out and `denied` where it was answered with
an error that hid the effect (`Ledger` is both), `expired` (the payment window
has passed), `abandoned` (the payment is too old for the sweeper, 24 hours) and
`aged[r]` (a refund row is older than the cron's threshold). A request names its
lines by a list; a row keeps how often each line occurs in it (`lines`,
`NoLines` for a whole order). Groups share only offers and the customer's cart,
so one group is the whole system for these properties. `OfferMarket` is likewise
one product. The other modules are one restaurant (`SupplyChain`,
`WeeklyPrediction`, `ProductionPlanning`, `SurplusOffers`, `Imports`) or a few
of them where they meet (`Payouts`, `Subscriptions`, `Onboarding`, `Catalogue`).

**Processes and steps.** A request, a webhook delivery or a cron iteration is a
process with a label `pc[p]` and the locals `loc[p]` its handler holds. A step is
one database write or one gateway call with the reads just before it; a read
whose value guards a later write is a step of its own, so everything another
process can do between a check and the write it guards is explored. Three
coarser steps are deliberate: writing an order's status and restocking it is one
step; the several reads of one validation happen together; writing the group
and emptying the cart is one step. A crash is a process that takes no further
step, which every run without fairness includes. Errors of the database are
modelled where a module says so (a broken confirmation of an import, a process
that dies in a payout, an approval or an import), not elsewhere.

**Correspondence.** Each action names its handler; `PROJECT.json` maps every
definition to its lines. `ReceiveCallback`, `InquireSettled` and `SettlePayment`
are `processCallback`, the inquiry and `applyTransactionOutcome`;
`PromoteOrders`/`PromoteGroup` are `onPaid`; `ClaimFailure`, `RestockNext`,
`ParkOrders` are `onFailed`; `RecordLateSuccess`, `ReserveLate`, `CreateLate`
are `autoRefundLateSuccess`; `ReadRequest`, `ReserveHeadroom`, `CreateRefund`
are `requestRefund`; `SendToGateway`, `GatewayAccepts`, `GatewayTimesOut`,
`GatewayRejects`, `SettleSucceeded`, `ReleaseHeadroom`, `FlagManual` are
`executeRefund`; `ReadReview` and the marks after it are `reviewRefund`;
`PickStuck`, `MatchChild`, `NoChildFound` are `reconcileProcessingRefunds`;
`ReadTargets` ... `RecomputeGroup` are `applyOrderConsequences`; `ReadCancel`
... `CancelGroup` are `cancelOrderGroup`; `ReadUpdate` ... `DeductInventory` are
`updateOrderStatus`. In the other modules an action carries the name of its
handler or says which one in its comment.

**Abstractions.** Amounts are whole piasters. The HMAC, amount and currency
checks of a callback are left out, so a callback is always a genuine one.
Callbacks about a refund's own child transaction are dropped by the code (a
duplicate or a wrong amount) and are not sent. Consumption of ingredients is one
ledger entry per order. The sales rows written on delivery, notifications and
mail are left out. The restaurant scope check of a refund request is dead under
the admin-only endpoints. `RefundStatusEnum.FAILED` is never written.
`updateOrderStatus` accepts a group's id as well: the order is found through the
group, but the writes go to an id no order has (`direct = FALSE`). In
`OfferMarket`, prices, limits per customer, the recommendation counters and the
removal of an offer with its product are left out; the subscription is one flag.
The payment window is taken to be shorter than 24 hours, as its default of five
minutes is. `Payouts`: amounts are whole units, so the rounding to two decimals
is left out; the largest-remainder split of a refund is modelled exactly.
`Subscriptions`: plans without a price and without a cap are left out, and so is
the new cap of a plan that is copied to the restaurants on it (a change of the
cap in `Catalogue`). `SupplyChain`: a recipe asks for whole units.
`WeeklyPrediction`: the numbers of a forecast are inputs, what is kept is who
made them and what the answer says of it. `ProductionPlanning`: a sale is the
quantity it carries, 0 for one of a delivered order and its own for an imported
one; the last sale of a day and product is the one the service keeps.
`SurplusOffers`: what the model answers is any answer it may give. `Catalogue`:
what a subscription does to the cap is any change of it within `Caps`, and plans
without a cap are left out; a row of a menu file reads product and category in
one step, and its slug, which carries a random part, is never taken; suppliers
and `updateIngredient` are left out. `Imports`: a row of CSV text parses or does
not, and the column mapping does not change between confirmations; products and
ingredients leave the menu and the file at any time (`TitleLeaves`,
`CodeLeaves`). `Accounts`: passwords, signatures, the expiry of tokens and
images are left out; the guard's two reads are one step. A restaurant's deletion
also ends its offers (`restaurant.service.ts:375-379`); offers are
`OfferMarket`'s, so `Catalogue` leaves that write out.

## 3. What TLC checks

`CHECK_DEADLOCK FALSE` in the order runs and the three composed runs: a settled
group, or a day whose bounded work is done, may have nothing left to do.

| Run | Instance | Shows |
|---|---|---|
| OrderCancelCheckout | 2 orders, 1 attempt, 2 webhook deliveries, sweeper, customer | `NothingFulfilledUnpaid`, `LiveOrderKeepsStock`: the cancellation, the sweeper and repeated callbacks never promote an unpaid group or sell a live order's units again |
| OrderLateSuccess | 2 orders, 1 attempt, webhook, sweeper, payer, refund cron | `PaidIsAnswered`, `SuccessIsAnswered`, `FailureReturnsStock`, `TimedOutRefundResolved` |
| OrderLostCallback | 2 orders, 2 attempts, sweeper only, staff cancelling | `LostCallbackIsRepaired` (within the 24 hours in which the sweeper asks), `StockReturnedOnce` |
| OrderRefunds | paid group of 1 order with 2 lines, 2 refund rows, requests that list up to 2 lines, admin, 2 customers, refund cron | `HeadroomAccounted`, `MovedIsReserved`, `MovesOnce`, `LinesRefundedOnce`, `CancelledAfterMoneyBack` |
| OrderSerialRequests | cash group of 2 orders, 2 refund rows, one user with every role | `TypeOK`, `GroupFollowsOrders`, `DeductedOnce`, `KitchenNeverReverts` over every sequence of whole requests |
| OfferTrading | 1 offer of up to 2 units, checkout, restock, manager, cron, 2 windows | `UnitsConserved`, `RestockedReopens`, `LapsedLeavesMarket`, `EndedLeavesMarket` |
| OfferSerialRequests | 2 offers of up to 2 units, one user with every role, the cron between requests | `OnePurchasable`, `NeverOversold`, `FinishedStaysFinished` |
| MerchantOperations | `MCMerchant`: payouts of 2 sales with 2 refunds and an adjustment, 2 admins who record one; 2 plans, 2 intervals, 2 plan admins; 2 payments; 2 applications, 2 reviewers | `SalesCountedOnce`, `RefundsReachAPayout`, `SharesAddUp`, `AtMostOneTrialPlan`, `ApprovedHasMerchant`, and the refinement `PaidTimeImplemented` |
| KitchenOperations | `MCKitchen`: 2 batches, 2 cooks, a desk, a forecaster; 2 products, 2 workers, a manager, the cron; 2 products on 2 days, 2 planners, kitchen, sync, sales with and without a quantity; 2 recommendations, 2 scans, a manager | `LedgerCoversStock`, `ReceivedAtMostOnce`, `HealthyBatchIsModelMade`, `MadeWasReported`, `OneOfferEach` |
| PlatformOperations | `MCPlatform`: 2 restaurants, 2 owners, 3 products, 2 ingredients, caps of 0 and 1 that change, 2 clerks, an admin; 5 imports, one of each kind; an account, 2 devices, 3 addresses | `WithinCapPlusRacers`, `ReferencesAreLive`, `CompletedIsLearned`, `AtMostOneDefaultAddress`, `SessionsEnd` |

**Composed runs.** The modules of the last three runs share no state, apart
from `Onboarding`, which extends `Subscriptions`. Interleaving their steps would
multiply the states and show nothing, so a behaviour chooses an `area` at the
start and works there; the areas of the MC modules say who is at work in each.

**Bounds.** Two orders are the least for which a group can be partly cancelled,
and for which a loop over the children can be interrupted; two attempts the
least for which a decline can precede a success; two refund rows the least for
which one can take another's headroom or line; two lines in OrderRefunds because
a customer's cancellation needs approval only after a line has been refunded,
and one order there keeps the concurrent instance small (the serial run has the
group of two). `MaxNamed` = 2 indexes in one request are the least that name a
line twice. `MaxMoves` = 2 lets a refund pay out twice, which is what
`MovesOnce` forbids. Every line costs one piaster, so a line, an order and the
group differ as soon as there are two of each. An offer of two units is the
least where one unit comes back while the last is sold. `Horizon` bounds the
clock of the offers at the end of the last window. In the composed runs the MC
modules name theirs: `FewEntries` (one refund or adjustment where payouts are
followed; two refunds and both sales in the area of the ledger, where the shares
are), `OneLadder`, `EarlyTrials`, `CatalogueFirst`, `JoiningBounds`,
`EarlyEvents`, `OneBranch`, `OwnBranches`, `AllOnSale`, `CapStep`, and those in
the comments of the areas. Two payouts are the least that can pay a sale twice,
the dates 0 to 3 the least that hold a bounced and an overlapping period with a
hold of one day. Two payments are the least for which a renewal can truncate;
two plan admins, reviewers, cooks, workers, scans and clerks the least that can
race. Two batches are the least for which a deduction takes from one and writes
back the other. `Caps` = {0, 1} lets a subscription begin, lapse and come back;
the second restaurant is the one a product moves to; one product sells on the
first day, where a plan of its own, a sale of its own and a sale without a
quantity meet. Three clock values put a logout before, in and after the second
of a login, three addresses let one be added while two are exchanged.

**Assumptions of the passing runs**, each named where it is made:
`CallsOutrunCron` (a gateway call and its database writes end before the refund
cron, which looks ten minutes back, can pick the row up; see divergence 7 for
the case where they do not); one attempt in the two checkout runs (divergences 2
and 12 for two); one admin in OrderRefunds (divergence 13); one checkout at a
time and no resizing in OfferTrading (divergences 14 and 10); whole requests one
after another in the two serial runs, because between concurrent requests the
code gives no such promise (divergences 3 and 9-11). In the composed runs: one
admin at work on the payouts, or two who record one with the same cutoff, and
one settler (two admins with different cutoffs break `SalesCountedOnce`, two
settlers `PaidTimeImplemented`); `SalesCountedOnce` speaks until the process
dies in the middle of a request; one desk (two receive an order twice); one
manager who decides recommendations; requests one after another for
`ReferencesAreLive` and `SessionsEnd`. Each of these is a divergence below.

**Fairness** (`FairSpec`). A handler that has started finishes (weak fairness
of `Progress`); the crons run for ever (`@Cron`); an inquiry that is repeated at
every tick is answered in the end (strong fairness, because a failed inquiry
ends the iteration and the next tick asks again); the gateway delivers the
callback of a success it keeps retrying, used only in runs with a webhook - the
run about lost callbacks has none; time passes. `Spec`, used for every safety
property and every theorem, assumes none of it. In `OfferMarket` only the cron
is fair. The three composed specifications state no fairness: their properties are
safety properties and a refinement.

### Disagreements with what the repository says, found by a run

1. **OrderExpiryKeepsStock** - `payments-reconciliation.service.ts:67` says the
   sweeper lets the fulfiller compensate; it only writes EXPIRED, so an
   abandoned checkout keeps its units.
2. **OrderDeliveredCancelled** - delivered, partly refunded, then refunded
   whole: the order is written CANCELLED and eaten units return to the offer.

### Promises the code breaks, stated in the modules

Each is a definition of the module at hand and no run's property: added to the
`INVARIANTS` of the run named, TLC shows a behaviour that breaks it. The passing
properties beside them say what the code does keep.

- `LinePaidOnce` (OrderRefunds) - `refunds.service.ts:450` says nothing else stops
  a line being refunded twice; the check (`:477`) looks at other rows, the
  request's list may repeat an index, and the amount (`:499`) sums every
  occurrence.
- `RejectedMovedNothing` (OrderRefunds) - `payments.service.ts:524` calls every
  error but the timeout a definite rejection and gives the headroom back; the
  client raises the unknown-outcome error for an aborted call only
  (`paymob.service.ts:99-118`), so a 5xx, a reset connection or a reply that does
  not parse after the refund was booked ends there too. A failure of the write
  that settles an accepted refund is caught by the same branch.
- `PlannedIsLearned` (KitchenOperations) - `production-planning.service.ts:594`
  says the sync gives what the plan says was made; it asks the sale first
  (`:617`), and a sale of a delivered order always carries 0.
- `CompletedHoldsNothingBack` (PlatformOperations) - the statuses of an import are
  to tell what is stored from what is learned; a confirmation after a failed
  ingestion checks the rows against the menu of the moment
  (`imports.service.ts:266`) and completes the job without the sales of a product
  deleted meanwhile.
- `NothingWithoutCap` (PlatformOperations) - `subscription-state.ts:135` says a
  cap of 0 means nothing can be created; a menu file creates products without a
  look at it (`imports.service.ts:331`).
- `UsedIngredientStays` (PlatformOperations) - `ingredients.service.ts:263`
  refuses to delete an ingredient in use; the check goes by the restaurant of
  the recipe, which a product that an administrator moves leaves behind
  (`products.service.ts:254-263`).

### Divergences the models show that no run is kept for

Orders, payments, refunds and offers:

1. `orders.service.ts:1117`: `cancelOrderGroup` ignores that
   `expirePendingOrderPayment` found the payment already PAID, and keeps the
   money of a cancelled group (the comment above it names this very case).
2. `payments.service.ts:303`: a decline and a success delivered together both
   pass the guards at 276-297, which look at the document as read; the orders go
   live without stock.
3. `orders.service.ts:1371`: a kitchen update read before a cancellation
   revives the cancelled order.
4. `payments-reconciliation.service.ts:69`: the sweeper's EXPIRED overwrites a
   payment that a webhook made PAID after the inquiry.
5. `orders.service.ts:1377`: a partially refunded order can be delivered again,
   which moves `deliveredAt` and reopens the dispute window.
6. `refunds.service.ts:520`: nothing bounds the refunds of a cash group, whose
   whole-group request ignores earlier line refunds.
7. `payments-reconciliation.service.ts:94`: the cron goes by the age of the row,
   so a refund approved after a long review is taken for a stuck one while its
   first call is open (`CallsOutrunCron = FALSE` shows it).
8. `refunds.service.ts:167`: an order delivered between the read and the
   creation of its refund is refunded as undelivered.
9. `offers-cron.service.ts:65` and `offers.service.ts:446`: a status read before
   a cancellation or a suspension is overwritten with ACTIVE.
10. `offers.service.ts:242`: an update computes the remaining units from an
    earlier read and forgets the sales in between.
11. `offers.service.ts:131`: without an explicit status a new offer becomes
    ACTIVE with no look at other active ones; one whose window has just ended
    stays ACTIVE beside it until the next tick. They are never purchasable
    together (`OnePurchasable`).
12. `payments.service.ts:293`: a decline settles the payment; the success of a
    second attempt is dropped as a duplicate and its money is kept
    (`SuccessIsAnswered` with two attempts and a webhook).
13. `refunds.service.ts:250-277`: two reviews read together both approve, and a
    partial refund is paid twice (`MovesOnce` with two admins).
14. `orders.service.ts:800`: the "atomic inventory reservation" is not
    conditional, so two checkouts sell the last unit twice (`NeverOversold`
    with two checkouts).
15. `payments-reconciliation.service.ts:45`: a payment whose inquiries fail
    until it is 24 hours old is not asked about again; it stays PENDING,
    captured or not, unless its payer asks (`LostCallbackIsRepaired` promises no
    more).

Payouts (`payouts.service.ts`):
- `:194`: two admins who record with different cutoffs read the same unmarked
  orders and pay them twice; the unique index refuses the same cutoff only.
- `:463`: a refund of one order falls into two pending payouts when their
  windows overlap; a crash between the row and the stamps lets another cutoff
  pay the sales again; an adjustment dated into a pending period, and a refund
  before a cutoff in the future, are never settled; a refund that settles before
  delivery is never clawed back.
- `payout-math.ts:150`: several partial refunds can reverse more commission than
  was charged; a whole-group refund after a line refund is split by full prices.
- complete and fail are written by `_id`: run together, the later one wins.

Subscriptions and onboarding:
- `subscriptions.service.ts:495`: running `onPaid` again grants a second period;
  two payments settled together grant one; a crash between PAID and `onPaid`
  leaves a payment without a period.
- `:365`: a checkout is refused for fifteen minutes, the first can be paid for an
  hour; a smaller plan bought for later shrinks the cap of the running period.
- `subscription-plans.service.ts:150`: a crash between setting and clearing the
  trial flag leaves two trial plans, and removal or `isTrialPlan: false` none.
- `partnership-applications.service.ts:287`: the approval is called atomic and
  is three writes; one that dies leaves a user that makes every later approval
  fail. `:560`: two setups take the last early-bird seat; the link works for 72
  hours and each use renews the trial; a stale rejection overwrites APPROVED.

Supplies, forecasts, plans, surplus:
- `purchase-orders.service.ts:174-230`: two receipts at once, or a crash in one
  and another, create the batches twice; an order created as received has no
  batches; a forecast rewrites an order that has been sent meanwhile.
- `orders.service.ts:1807`: a retried consumption skips the ingredients that the
  first attempt did not reach; `inventory.service.ts:214`: a named batch of
  another ingredient is reduced; concurrent handlers write back the same batch,
  which leaves more on the shelf than there is (`LedgerCoversStock` says never
  less).
- recalculating a reconciled week leaves its error figure as it was.
- `production-planning.service.ts:482`: a refresh loses an actual reported
  during its call, and those of products the model omits; a failed nightly sync
  loses the day until someone runs the backfill.
- `recommendations.service.ts:696`: a scan overwrites a recommendation approved
  meanwhile; DISMISSED may follow APPROVED; two managers approving together, or
  an edit read before an approval, make two offers.

Catalogue, imports, accounts:
- `products.service.ts:140`: concurrent creations pass the cap; the slug of a
  deleted product blocks its title for ever with an unhandled error; a
  restaurant's rename stops half way on such a slug; a creation racing the
  deletion of its category or owner leaves a dangling reference.
- `products.service.ts:254`: an administrator moves a product with no look at
  the cap of the other restaurant; its recipe stays with the former one, whose
  deletion does not follow it (`restaurant.service.ts:393` goes by the recipe's
  restaurant): a deleted product keeps a live recipe, and a live one loses its
  own.
- `imports.service.ts:331`: a menu file looks up no restaurant, so that it also
  adds products to one that is deleted while the manager's account still names
  it.
- `imports.service.ts`: a failed or a processing job can be confirmed again, which
  writes its sales and batches twice; a retry marks a job COMPLETED whose rows
  were only inserted in part; a late failure overwrites COMPLETED.
- `auth.guard.ts:81-99`: sessions of the very second of a password change
  survive it; a refresh admitted before a logout issues its pair after it; two
  codes requested together leave two, and the older one is compared; a reset
  token works twice when used together; address books written together lose one
  of the changes.

### Refinement

`PaidTime` says what a payment promises: it extends the paid time of its
restaurant once, at one moment, by all the days bought, and nothing else moves
that date. `Subscriptions` implements it (`PaidTimeImplemented`): the date is
`sub[m].end`, and a payment is granted from the write of the new period on
(`WritePeriod`), although it is marked PAID two steps earlier and stamped one
step later. Checkouts, failures, trials, seats, plan changes and the calendar
map to stuttering. TLC checks the refinement on the instance of
MerchantOperations; `PaidTimeCorrect` proves it for every instance, as long as
no two settlements of one restaurant overlap.

## 4. What is proved

Every theorem is about the specification of its component, which the runs check
(the three composed runs one area at a time), for any number of everything its
constants count (orders, lines, rows, offers, plans, processes, ...), from the
assumptions on the constants named in the modules and no fairness. Those about
subscriptions and onboarding start from a platform without plans and
restaurants, which its steps publish and open (`InitJoining`). A theorem has a
hypothesis of its own only where the code gives the promise under that condition
alone: what happens without it is named beside it, by the number of a divergence
of section 3 where it is one of these. Where the code breaks its
promise only when two processes meet at the same document, the hypothesis says
that they do not meet there, and nothing about how many processes there are:
`Spec /\ []UpdatesApart => ...` is about any number of staff, of whom no two are
inside the update of one order at a time, and so on with `ReviewsApart`,
`ReceiptsApart`, `JobsApart`, ... All of them still interleave freely on
different documents, and with every other kind of process on the same one.
`[]Serial` is the strongest of these: requests, by any number of processes, that
do not overlap at all.

Every argument has the same form: an invariant says what is true while a
handler is between its read and its write, by label; one lemma per action shows
that it is kept; the theorem follows from it. Most lemmas are about what a write
of another process leaves true of what a handler holds.

**Orders** (`OrderLifecycle_proofs`, `OrderStatus_proofs`, `RefundFlow_proofs`)

| Theorem | Property | Hypothesis, and why |
|---|---|---|
| `TypeCorrect` | `TypeOK` | - |
| `HeadroomCorrect` | the refund counter stays between 0 and the payment (`HeadroomBounded`, a lemma of `MovedCorrect`) | - |
| `StockCorrect` | `StockReturnedOnce` | - |
| `UnpaidCorrect` | `NothingFulfilledUnpaid` | not cash; staff put no order to PENDING by hand, which the endpoint allows |
| `LiveStockCorrect` | `LiveOrderKeepsStock` | `[]AttemptsAgree`: no attempt succeeds beside a declined one (2); no staff (they advance an order that a cancellation restocked unpaid, and 3); no line refunds by admins (one that overlaps a cancellation writes PARTIALLY_REFUNDED over CANCELLED) |
| `AnswerCorrect` | `PaidIsAnswered` | `[]AttemptsAgree` (12); only callbacks, crons and payers at work (1); not cash |
| `DeductedCorrect`, `ForwardCorrect` | `DeductedOnce`, `KitchenNeverReverts` | `[]UpdatesApart`: no two updates of one order at a time (both would deduct, and the earlier status may be written last) |
| `GroupCorrect` | `GroupFollowsOrders` | `[]Serial` (3) |
| `MovesCorrect` | `MovesOnce` | `[]ReviewsApart`: no two reviews of one refund at a time (13) |
| `LinesCorrect` | `LinesRefundedOnce`: between rows; one row may name a line twice (`LinePaidOnce`) | `[]ReviewsApart`, and `[]LineRequestsApart`: no two requests for one line at a time (13) |
| `BackCorrect` | `CancelledAfterMoneyBack` | a group that starts paid or cash; `[]ReviewsApart` (13) and `[]TicksApart`: no two ticks at one refund at a time; `CallsOutrunCron` (7); staff put no order to REFUNDED or an unpaid status by hand |
| `CounterCorrect`, `MovedCorrect` | `HeadroomAccounted`, `MovedIsReserved`: what calls moved that were answered or timed out (`RejectedMovedNothing` for the others) | `[]ReviewsApart` (13), `[]TicksApart`; `CallsOutrunCron` (7); finitely many rows and processes |

- `TypeOK` is inductive only with the conjuncts of `ControlOK` that say which
  labels hold a refund row and which an order status: without them a step could
  write to the absent row.
- `HeadroomBounded` is inductive with `TypeOK`, because the comparison is part of
  the filter of both writes (`CanReserve`, and `Release` when the counter is at
  least the amount). No read of any handler is trusted.
- `StockReturnedOnce`: every write to an order leaves `restored` and `returned`
  alone or is `RestoreStock`, which changes both.
- `OrderStatus_proofs` first proves where every step starts and ends (`Edge`)
  and which actions write which document (`OrderWriters`, `PaymentWriters`,
  `RowMoves`). `UnpaidInv` says that whoever is about to promote has seen a
  success of the gateway, which stays one (`SettledStays`). `StockInv` says that
  an order on sale is paid for and not restocked, and that whoever restocks saw
  a decline: attempts that agree are not both. `AnswerInv` follows a captured
  payment to the handler that still has to promote or refund it. `DeductedInv`
  and `ForwardInv` say that the check of a staff request survives what
  customers, reviewers, crons and the staff of other orders write. `Following`
  says for each gap between the orders' writes and the group's write what the
  group's status will be.
- `RefundFlow_proofs`: `OnceInv` says that a row has one sender and that its
  money has moved only if it is past being sent, `LineInv` that no row names a
  line the request at work has asked for, however often its list names it,
  `BackInv` that whoever writes an order CANCELLED or REFUNDED holds a row that
  SUCCEEDED and covers it. The gateway may time out, reject and be asked again
  as a void in between.
- `CoverInv` is about money. `Explained` says that the counter is what handlers
  hold plus what rows count for, as two sums; each action is shown to move an
  amount from a hand to a row, or both by the same amount. What has moved at the
  gateway is compared with it through a pairing of child transactions with rows
  of the same amount (`Matches`): a timed-out call leaves a child whose row is
  not yet settled, and the cron may then settle another row of the same amount
  with it, so a settlement exchanges two partners of the pairing. A pairing
  makes the moved sum at most the rows' sum, and the headroom bounds that. The
  pairing is of `moved` alone: the cron may give a row the child of a call that
  was answered with an error, which leaves the pairing as it is.

**Offers** (`OfferMarket_proofs`)

| Theorem | Property | Hypothesis, and why |
|---|---|---|
| `MarketTypeCorrect` | `TypeOK` | - |
| `UnitsCorrect` | `UnitsConserved` | no update changes a quantity (10) |
| `PurchasableCorrect` | `OnePurchasable` | `[]Serial` (9, 11) |
| `OversoldCorrect` | `NeverOversold` | `[]Serial` (10, 14) |
| `FinishedCorrect` | `FinishedStaysFinished` | `[]Serial` (9) |

- `MarketInv` adds what handlers hold: one that is past its read works on an
  offer that was made, one about to insert holds a document with all its units
  for sale, nothing was taken from an offer that was not made. Without them a
  step could write to an absent document, or a creation invent units. An update
  with a new quantity writes a count computed from an earlier read, so the
  balance is part of `MarketInv` only where there is none (`Balances`).
- The serial theorems allow resizing. `SerialInv` says that the windows of two
  active offers share no moment, that no count of units left is negative, and
  (`Sure`) that what the handler at work has read is still so when it writes. The
  four ways into ACTIVE (creation, update, restock, cron) check different things;
  the first conjunct is what they have in common.

**Merchants** (`Merchant_proofs`)

| Theorem | Property | Hypothesis, and why |
|---|---|---|
| `ApprovedCorrect` | `ApprovedHasMerchant` | - |
| `TrialCorrect` | `AtMostOneTrialPlan` | - |
| `PaidTimeCorrect` | `PaidTimeImplemented` | `[]SettlementsApart`: no two settlements of one restaurant at a time (two grant the period twice) |
| `CountedCorrect` | `SalesCountedOnce` | `[]OneCutoffAtATime`: requests that overlap record payouts up to the same date (two cutoffs pay a sale twice) |
| `ReachCorrect` | `RefundsReachAPayout` | `[]OutcomesApart`: no two admins decide the same payout together (the later outcome would win) |
| `SharesCorrect` | `SharesAddUp` | - |

- `JoinInv` says of an approval what each of its three writes has left behind; it
  may die after any of them and any number of reviewers may be at work.
- `TrialInv`: two plans bear the flag only while an admin has still to clear it.
- `PaidTimeCorrect` is the refinement, step by step: `MoneyInv` says that a
  pending payment has granted nothing and that a settler between its mark and
  its write holds one that has not, which settlers of other restaurants leave to
  it, so `WritePeriod` is the one step that maps
  to `Grant`, and it maps to it once.
- `MarkInv`: a sale listed by a live payout bears its mark, unless some admin is
  between the row and the stamps or is failing it. The two hypotheses are about
  behaviours, not about how many admins there are. Where requests overlap, those
  that record share a cutoff, so whoever stands at the row finds it taken by the
  index or holds a statement whose sales are still unmarked; `RowsApart` says
  that those who stamp hold different rows. The property speaks until a process
  dies in a request, and so does the invariant.
- `ReachInv`: a live payout, and a statement an admin is about to write, lists
  every refund due in its window, and what was due before its window is in a
  completed payout. It survives every step of other admins, with any cutoffs,
  and crashes; only a second outcome for the same payout could take a completed
  one back.
- `SharesAddUp` is the largest-remainder rule: the parts rounded down leave less
  than one unit per order, and exactly as many orders are ranked before the
  `left`-th remainder as there are units left (`RankedCount`), so the shares add
  up, and each is its exact proportion rounded down or up.

**Kitchen** (`Kitchen_proofs`)

| Theorem | Property | Hypothesis, and why |
|---|---|---|
| `HealthyCorrect` | `HealthyBatchIsModelMade`: no outage in a healthy answer, no diagnosis behind an outage | - |
| `MadeCorrect` | `MadeWasReported`: plans by reports, lessons by reports and sales | - |
| `StockCorrect` | `LedgerCoversStock` | finitely many cooks |
| `ReceivedCorrect` | `ReceivedAtMostOnce` | `[]ReceiptsApart`: no two receipts of one order at a time (two bring it in twice) |
| `OneOfferCorrect` | `OneOfferEach` | `[]DecisionsApart`: no two managers decide one recommendation at a time |

- `StockInv`: several cooks read the same batches, reduce them and write them
  back, so a write may rest on a stale read. The ledger is divided in thought
  among the batches and the cooks who have not read yet (`Covers(share)`). A
  cook's part goes to the batches when he reads; a batch's share then covers what
  has left it and what will have left it after any write that is pending, so it
  does not matter which write comes last.
- `HealthyInv`: a row that is not made by the model is in a batch that says so,
  because a worker reports before it saves; a row with a diagnosis is in a batch
  whose kind is a diagnosis, because no report that comes later, of an outage
  either, outranks one (`Outranks`).
- `PlanningInv`: a quantity travels from the kitchen's report to a plan, from
  there to a refresh or a lesson, and on to the service; in each place it is one
  that was reported for that product and date (`HeldReported` for handlers). A
  lesson takes the quantity of the sale first, and that is one of `carried`, the
  history of what sales carried. Reports only grow, so a late write can lose one
  and never misplace one.
- `ReceiptInv`: a batch that came from an order belongs to one marked received or
  to its one receipt at work, which finds the order open until it marks it.
- `OfferInv`: a recommendation with an offer is closed, or the manager who made
  the offer is about to close it; scans write theirs back at any time.

**Platform** (`Platform_proofs`)

| Theorem | Property | Hypothesis, and why |
|---|---|---|
| `CapCorrect` | `WithinCapPlusRacers`: products from the form, against the most the cap has been | there is a clerk |
| `ReferencesCorrect` | `ReferencesAreLive`: but for the restaurant of a product from a menu file and the recipe of a moved product | requests one after another (a creation races a deletion); caps change at any time |
| `LearnedCorrect` | `CompletedIsLearned`: sales of products that never left the menu (`CompletedHoldsNothingBack`) | `[]JobsApart`: no two requests on one job at a time (a late failure or a retry overwrites) |
| `SessionsCorrect` | `SessionsEnd` | `[]LogoutsApart`: no rotation of an account's token overlaps its logout (it issues a pair that outlives it) |
| `DefaultCorrect` | `AtMostOneDefaultAddress` | - |

- `CapInv`: the products of a restaurant from the form and the insertions under
  way together are at most `branch[r].granted + Cardinality(Clerks) - 1`; a
  handler that is admitted counted fewer than the cap of the moment, which
  `granted` never falls below, and every other clerk has at most one insertion
  under way. Menu files, administrators and moves add no product from the form,
  and deletions, moves and a smaller cap take none away from the bound.
- `SoundAt` says for each label which references a cascade has left to clear,
  and that the documents a handler checked are still there when it writes. For a
  live product from the form or of an administrator it also says that its
  restaurant is live, and for the recipe of a product that was never moved that
  it is of the product's own restaurant, which is what makes the two deletions
  that go by the restaurant find it.
- `Bound` says which rows of a job the handler at work on it has still to send:
  the others that were written are learned or of a product that has left the
  menu, for a valid row stays valid until then. Files and chunks are of any
  size.
- `SessionInv`: a token issued before the last logout of its account is older
  than that logout's revocation, and a rotation stands on a token that is not,
  whatever other visitors do; only a logout of the same account could take that
  away.
- `GoodBook`: every book a handler holds has at most one default, so does what it
  writes back, whatever was written in between.

**Sums** (`SumTheorems`). Counters and ledgers are sums over finite sets,
written with `SumFunctionOnSet` of the community modules. Theorems that take an
operator as a parameter cannot be instantiated by the provers, so the induction
over finite sets is done by hand: a set that refutes a lemma has a smallest
subset that refutes it (`MinimalSubset`, from `LeastNat`), and removing one
element of that one refutes it again. From this follow that a sum is a natural
number, is monotone, splits over disjoint sets, changes by the change of one
term, agrees for functions that agree (`SumPeel`, `SumPlus`, `SumUnion`, ...),
and the lemmas on ranks and division that `SharesCorrect` needs.

**Only model-checked**: `SuccessIsAnswered`, `FailureReturnsStock`,
`TimedOutRefundResolved`, `LostCallbackIsRepaired`, `RestockedReopens`,
`LapsedLeavesMarket` and `EndedLeavesMarket`. They are liveness under fairness,
which needs ENABLED and is beyond the prover.

## 5. Not modelled, and the plan

Not modelled, with the reason, is listed under "components" in `PROJECT.json`:
the assistant, the model providers and the vector store (free text and external
calls), notifications (fire and forget), dashboards and sales reports (read
only), the cart (one customer's document; its emptying by `onPaid` is modelled),
utilities, scripts and seed data. Of the modelled components: creating the
intention of a payment at the gateway, reminders, suppliers, favourites, queries,
uploads, profile fields and the parsing of CSV text.

Hazards known and not followed by a property: a crash between a restock claim
and its units (`orders.service.ts:116`); a payment whose intention failed, which
the sweeper skips for ever (`payments-reconciliation.service.ts:51`); a refund
found by the cron, which has no order consequences (`:143`); a failure in the
middle of a basket, which keeps the units taken so far (`orders.service.ts:753`).

Next, in this order:

1. Weaker hypotheses where the code may carry them: `LiveOrderKeepsStock` with
   staff who only advance paid orders, `PaidIsAnswered` with admins.
2. The crash between a restock claim and its units.
