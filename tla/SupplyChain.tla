------------------------------ MODULE SupplyChain ------------------------------
(***************************************************************************)
(* The ingredients of one restaurant: the batches on its shelves, the      *)
(* stock ledger, its purchase orders and the drafts the weekly forecast    *)
(* writes.                                                                 *)
(*                                                                         *)
(* Cooks take ingredients (a ledger row first, then the batches, earliest  *)
(* expiry first); desks create, send, cancel and receive purchase orders;  *)
(* forecasters compare the forecast with the stock and draft what is       *)
(* missing.  Batch quantities are read, reduced in memory and written back *)
(* by _id, so every read and every write is a step of its own.             *)
(***************************************************************************)
EXTENDS Integers, FiniteSets, FiniteSetsExt, SequencesExt

CONSTANTS
    Ingredients,    \* of the restaurant
    NoSupplier,     \* an ingredient nobody delivers
    Supplier,       \* Supplier[i]: whom the draft for i goes to
    Dishes,         \* customer orders that get delivered
    Recipe,         \* Recipe[d][i]: how much of i the order needs (0: none)
    Shelf,          \* bound: batch ids are 1..Shelf
    Purchases,      \* bound: purchase order ids are 1..Purchases
    Quantities,     \* of one batch, item, use or forecast
    LastDay,        \* bound of the calendar
    MaxLedger,      \* bound of what the ledger records of one ingredient
    Week,           \* the day the forecast week starts
    Cooks, Desks, Forecasters

SupplyStaff == UNION {Cooks, Desks, Forecasters}

ASSUME SupplyAssumption ==
    /\ Shelf \in Nat /\ Purchases \in Nat /\ LastDay \in Nat
    /\ Quantities \subseteq Nat \ {0}
    /\ Week \in 0..LastDay
    /\ Recipe \in [Dishes -> [Ingredients -> Nat]]
    /\ IsFiniteSet(Ingredients)

VARIABLES
    batch,      \* batch[b]: [of, got, left, expiry, from]
    purchase,   \* purchase[n]: [status, items, due, source]
    ledger,     \* ledger[i]: consumption and waste recorded in stock_transactions
    served,     \* served[d]: ingredients with a CONSUMPTION row that names order d
    forecast,   \* forecast[i]: what the predictions of the week need of i
    day,        \* today
    supplyPc, supplyLoc

supplyVars == <<batch, purchase, ledger, served, forecast, day, supplyPc, supplyLoc>>

-------------------------------------------------------------------------------
NoBatch == [of |-> NoSupplier, got |-> 0, left |-> 0, expiry |-> 0, from |-> <<0, NoSupplier>>]

NoItems == [i \in Ingredients |-> 0]

NoPurchase == [status |-> "none", items |-> NoItems, due |-> LastDay + 1, source |-> "manual"]

NoWrites == [b \in {} |-> 0]

(* What a handler holds: the delivered order it serves and the ingredients *)
(* still to take, the ingredient and quantity at hand, the batches it is   *)
(* about to write with their new quantities; the id of the batch or the    *)
(* purchase order it works on, the order as read, the suppliers left.      *)
SupplyNothing == [dish |-> NoSupplier, needs |-> {}, of |-> NoSupplier, qty |-> 0,
                  writes |-> NoWrites, id |-> 0, doc |-> NoPurchase, todo |-> {}]

InitSupply ==
    /\ batch = [b \in 1..Shelf |-> NoBatch]
    /\ purchase = [n \in 1..Purchases |-> NoPurchase]
    /\ ledger = [i \in Ingredients |-> 0]
    /\ served = [d \in Dishes |-> {}]
    /\ forecast = NoItems
    /\ day = 0
    /\ supplyPc = [p \in SupplyStaff |-> "idle"]
    /\ supplyLoc = [p \in SupplyStaff |-> SupplyNothing]

SupplyDone(p) == /\ supplyPc' = [supplyPc EXCEPT ![p] = "idle"]
                 /\ supplyLoc' = [supplyLoc EXCEPT ![p] = SupplyNothing]

SupplyGo(p, label, held) == /\ supplyPc' = [supplyPc EXCEPT ![p] = label]
                            /\ supplyLoc' = [supplyLoc EXCEPT ![p] = held]

(* findMany: the batches of an ingredient that hold something and have not *)
(* expired.                                                                *)
Usable(i) == {b \in 1..Shelf : batch[b].of = i /\ batch[b].left > 0 /\ batch[b].expiry >= day}

(* sort: 'expiryDate', order: 'asc' *)
Before(b, c) == \/ batch[b].expiry < batch[c].expiry
                \/ batch[b].expiry = batch[c].expiry /\ b < c

LeftIn(S) == SumFunctionOnSet([b \in 1..Shelf |-> batch[b].left], S)

(* Mutant: the last batch written is taken whole. *)
FefoEmpties(i, q) ==
    [b \in {b \in Usable(i) : LeftIn({c \in Usable(i) : Before(c, b)}) < q} |-> 0]

(* First expired, first out: what is written over each batch that takes    *)
(* part in serving quantity q.                                             *)
FefoWrites(i, q) ==
    LET earlier(b) == {c \in Usable(i) : Before(c, b)}
    IN  [b \in {b \in Usable(i) : LeftIn(earlier(b)) < q} |->
            Max({0, batch[b].left - (q - LeftIn(earlier(b)))})]

-------------------------------------------------------------------------------
(* createBatch, for one item of its list. *)
CreateBatch(p) ==
    /\ p \in Desks /\ supplyPc[p] = "idle"
    /\ \E b \in 1..Shelf, i \in Ingredients, q \in Quantities, e \in 0..LastDay :
          /\ batch[b] = NoBatch
          /\ batch' = [batch EXCEPT ![b] = [of |-> i, got |-> q, left |-> q, expiry |-> e,
                                            from |-> <<0, i>>]]
    /\ UNCHANGED <<purchase, ledger, served, forecast, day, supplyPc, supplyLoc>>

(* createStockTransaction of a consumption or a waste, and                 *)
(* createWasteEvent: the ledger row is written first.  With a batch named  *)
(* (of whatever ingredient: nothing compares them) only that batch pays,   *)
(* and never more than it has.                                             *)
RecordUse(p) ==
    /\ p \in Cooks /\ supplyPc[p] = "idle"
    /\ \E i \in Ingredients, q \in Quantities :
          /\ ledger[i] + q <= MaxLedger
          /\ ledger' = [ledger EXCEPT ![i] = @ + q]
          /\ \/ SupplyGo(p, "read", [SupplyNothing EXCEPT !.of = i, !.qty = q])
             \/ \E b \in 1..Shelf :
                   /\ batch[b] # NoBatch
                   /\ SupplyGo(p, "readNamed", [SupplyNothing EXCEPT !.of = i, !.qty = q, !.id = b])
    /\ UNCHANGED <<batch, purchase, served, forecast, day>>

(* deductIngredientStock with an explicit batch. *)
ReadNamedBatch(p) ==
    LET b == supplyLoc[p].id
    IN  /\ supplyPc[p] = "readNamed"
        /\ IF batch[b].left > 0
           THEN SupplyGo(p, "write", [SupplyNothing EXCEPT
                    !.writes = [c \in {b} |-> Max({0, batch[b].left - supplyLoc[p].qty})]])
           ELSE SupplyDone(p)
        /\ UNCHANGED <<batch, purchase, ledger, served, forecast, day>>

(* deductInventoryForDeliveredOrder: nothing to do when the ledger already *)
(* has a consumption row of this order.                                    *)
ServeDish(p) ==
    /\ p \in Cooks /\ supplyPc[p] = "idle"
    /\ \E d \in Dishes :
          /\ served[d] = {}
          /\ SupplyGo(p, "take", [SupplyNothing EXCEPT
                                    !.dish = d, !.needs = {i \in Ingredients : Recipe[d][i] > 0}])
    /\ UNCHANGED <<batch, purchase, ledger, served, forecast, day>>

(* The ledger row of the next ingredient of the order. *)
RecordServing(p) ==
    LET d == supplyLoc[p].dish
    IN  /\ supplyPc[p] = "take"
        /\ \E i \in supplyLoc[p].needs :
              /\ ledger[i] + Recipe[d][i] <= MaxLedger
              /\ served' = [served EXCEPT ![d] = @ \cup {i}]
              /\ ledger' = [ledger EXCEPT ![i] = @ + Recipe[d][i]]
              /\ SupplyGo(p, "read", [supplyLoc[p] EXCEPT !.needs = @ \ {i}, !.of = i,
                                                          !.qty = Recipe[d][i]])
        /\ UNCHANGED <<batch, purchase, forecast, day>>

(* deductIngredientStock without a batch: the read of the FEFO loop. *)
ReadBatches(p) ==
    /\ supplyPc[p] = "read"
    /\ SupplyGo(p, "write", [supplyLoc[p] EXCEPT !.writes = FefoWrites(supplyLoc[p].of,
                                                                supplyLoc[p].qty)])
    /\ UNCHANGED <<batch, purchase, ledger, served, forecast, day>>

(* One write of the loop, by _id: the batches keep the order in which they *)
(* were read, as no handler changes an expiry date.                        *)
WriteBatch(p) ==
    LET writes == supplyLoc[p].writes
    IN  /\ supplyPc[p] = "write"
        /\ \E b \in DOMAIN writes :
              /\ \A c \in DOMAIN writes : ~ Before(c, b)
              /\ batch' = [batch EXCEPT ![b].left = writes[b]]
              /\ SupplyGo(p, "write", [supplyLoc[p] EXCEPT !.writes = Restrict(@, DOMAIN @ \ {b})])
        /\ UNCHANGED <<purchase, ledger, served, forecast, day>>

FinishTaking(p) ==
    /\ supplyPc[p] = "write" /\ DOMAIN supplyLoc[p].writes = {}
    /\ IF supplyLoc[p].needs = {} THEN SupplyDone(p) ELSE SupplyGo(p, "take", supplyLoc[p])
    /\ UNCHANGED <<batch, purchase, ledger, served, forecast, day>>

-------------------------------------------------------------------------------
OpenStatuses == {"draft", "sent"}

(* createPurchaseOrder: any status may be asked for. *)
CreatePurchase(p) ==
    /\ p \in Desks /\ supplyPc[p] = "idle"
    /\ \E n \in 1..Purchases, items \in [Ingredients -> Quantities \cup {0}],
          status \in {"draft", "sent", "received", "cancelled"}, due \in {Week, LastDay + 1} :
          /\ purchase[n] = NoPurchase /\ items # NoItems
          /\ purchase' = [purchase EXCEPT ![n] = [status |-> status, items |-> items,
                                                  due |-> due, source |-> "manual"]]
    /\ UNCHANGED <<batch, ledger, served, forecast, day, supplyPc, supplyLoc>>

(* receivePurchaseOrder, also reached by a status update to received: the  *)
(* order is read and checked, ...                                          *)
ReadReceipt(p) ==
    /\ p \in Desks /\ supplyPc[p] = "idle"
    /\ \E n \in 1..Purchases :
          /\ purchase[n].status \in OpenStatuses
          /\ SupplyGo(p, "receive", [SupplyNothing EXCEPT !.id = n, !.doc = purchase[n]])
    /\ UNCHANGED <<batch, purchase, ledger, served, forecast, day>>

(* ... each item becomes a batch (and a purchase row), ... *)
ReceiveItem(p) ==
    LET q == supplyLoc[p].doc.items
    IN  /\ supplyPc[p] = "receive"
        /\ \E i \in Ingredients, b \in 1..Shelf, e \in day..LastDay :
              /\ q[i] > 0 /\ batch[b] = NoBatch
              /\ batch' = [batch EXCEPT ![b] = [of |-> i, got |-> q[i], left |-> q[i], expiry |-> e,
                                                from |-> <<supplyLoc[p].id, i>>]]
              /\ SupplyGo(p, "receive", [supplyLoc[p] EXCEPT !.doc.items[i] = 0])
        /\ UNCHANGED <<purchase, ledger, served, forecast, day>>

SetPurchase(p, status) == purchase' = [purchase EXCEPT ![supplyLoc[p].id].status = status]

(* Mutant: the order keeps its status. *)
ForgetReceived(p) ==
    /\ supplyPc[p] = "receive" /\ supplyLoc[p].doc.items = NoItems
    /\ SupplyDone(p)
    /\ UNCHANGED <<batch, purchase, ledger, served, forecast, day>>

(* ... and the order is marked. *)
MarkReceived(p) ==
    /\ supplyPc[p] = "receive" /\ supplyLoc[p].doc.items = NoItems
    /\ SetPurchase(p, "received")
    /\ SupplyDone(p)
    /\ UNCHANGED <<batch, ledger, served, forecast, day>>

(* updatePurchaseOrderStatus: a sent order may become a draft again. *)
ReadStatus(p) ==
    /\ p \in Desks /\ supplyPc[p] = "idle"
    /\ \E n \in 1..Purchases, status \in {"draft", "sent", "cancelled"} :
          /\ purchase[n].status \in OpenStatuses
          /\ SupplyGo(p, "setStatus", [SupplyNothing EXCEPT !.id = n, !.doc.status = status])
    /\ UNCHANGED <<batch, purchase, ledger, served, forecast, day>>

SetStatus(p) ==
    /\ supplyPc[p] = "setStatus"
    /\ SetPurchase(p, supplyLoc[p].doc.status)
    /\ SupplyDone(p)
    /\ UNCHANGED <<batch, ledger, served, forecast, day>>

-------------------------------------------------------------------------------
(* batchRecalculate: new predictions for the week, then the drafts. *)
Recalculate(p) ==
    /\ p \in Forecasters /\ supplyPc[p] = "idle"
    /\ forecast' \in [Ingredients -> Quantities \cup {0}]
    /\ SupplyGo(p, "compare", SupplyNothing)
    /\ UNCHANGED <<batch, purchase, ledger, served, day>>

(* usableAvailableStock: what will not have expired by then, and what sent *)
(* orders bring in time.                                                   *)
AvailableFor(i) ==
    LeftIn({b \in 1..Shelf : batch[b].of = i /\ batch[b].expiry > Week})
      + SumFunctionOnSet([n \in 1..Purchases |-> purchase[n].items[i]],
                         {n \in 1..Purchases : purchase[n].status = "sent" /\ purchase[n].due <= Week})

Shortfall == [i \in Ingredients |-> IF Supplier[i] = NoSupplier THEN 0
                                    ELSE Max({0, forecast[i] - AvailableFor(i)})]

(* generateAutoDrafts, up to its lookups: shortfalls by supplier. *)
CompareStock(p) ==
    LET short == Shortfall
    IN  /\ supplyPc[p] = "compare"
        /\ SupplyGo(p, "findDraft", [SupplyNothing EXCEPT
                !.doc.items = short,
                !.todo = {Supplier[i] : i \in {j \in Ingredients : short[j] > 0}}])
        /\ UNCHANGED <<batch, purchase, ledger, served, forecast, day>>

ItemsFor(s, items) == [i \in Ingredients |-> IF Supplier[i] = s THEN items[i] ELSE 0]

DraftOf(s, n) == /\ purchase[n].status = "draft" /\ purchase[n].source = "ai_forecast"
                 /\ purchase[n].due = Week
                 /\ \E i \in Ingredients : purchase[n].items[i] > 0 /\ Supplier[i] = s

(* The draft of this supplier and week, if there is one. *)
FindDraft(p) ==
    /\ supplyPc[p] = "findDraft"
    /\ \E s \in supplyLoc[p].todo :
          LET drafts == {n \in 1..Purchases : DraftOf(s, n)}
          IN  \E n \in IF drafts = {} THEN {0} ELSE drafts :
                 SupplyGo(p, "saveDraft", [supplyLoc[p] EXCEPT !.todo = @ \ {s}, !.dish = s, !.id = n])
    /\ UNCHANGED <<batch, purchase, ledger, served, forecast, day>>

(* It gets the new items, by _id; without one a new draft is created. *)
SaveDraft(p) ==
    LET items == ItemsFor(supplyLoc[p].dish, supplyLoc[p].doc.items)
    IN  /\ supplyPc[p] = "saveDraft"
        /\ IF supplyLoc[p].id # 0
           THEN purchase' = [purchase EXCEPT ![supplyLoc[p].id].items = items]
           ELSE \E n \in 1..Purchases :
                  /\ purchase[n] = NoPurchase
                  /\ purchase' = [purchase EXCEPT ![n] = [status |-> "draft", items |-> items,
                                                          due |-> Week, source |-> "ai_forecast"]]
        /\ SupplyGo(p, "findDraft", supplyLoc[p])
        /\ UNCHANGED <<batch, ledger, served, forecast, day>>

DraftsDone(p) ==
    /\ supplyPc[p] = "findDraft" /\ supplyLoc[p].todo = {}
    /\ SupplyDone(p)
    /\ UNCHANGED <<batch, purchase, ledger, served, forecast, day>>

-------------------------------------------------------------------------------
NextDay == /\ day < LastDay
           /\ day' = day + 1
           /\ UNCHANGED <<batch, purchase, ledger, served, forecast, supplyPc, supplyLoc>>

CookStep(p) == \/ RecordUse(p) \/ ReadNamedBatch(p) \/ ServeDish(p) \/ RecordServing(p)
               \/ ReadBatches(p) \/ WriteBatch(p) \/ FinishTaking(p)

DeskStep(p) == \/ CreateBatch(p) \/ CreatePurchase(p) \/ ReadReceipt(p) \/ ReceiveItem(p)
               \/ MarkReceived(p) \/ ReadStatus(p) \/ SetStatus(p)

ForecasterStep(p) == \/ Recalculate(p) \/ CompareStock(p) \/ FindDraft(p) \/ SaveDraft(p)
                     \/ DraftsDone(p)

NextSupply == \/ \E p \in SupplyStaff : CookStep(p) \/ DeskStep(p) \/ ForecasterStep(p)
              \/ NextDay

SpecSupply == InitSupply /\ [][NextSupply]_supplyVars

-------------------------------------------------------------------------------
(* Whatever has left the shelves is on the ledger: handlers that overwrite *)
(* each other's quantities can leave too much on a shelf, never too little *)
(* (createStockTransaction, createWasteEvent and                           *)
(* deductInventoryForDeliveredOrder write the row first).                  *)
LedgerCoversStock ==
    SumFunction([b \in 1..Shelf |-> batch[b].got - batch[b].left]) <= SumFunction(ledger)

(* What was ordered comes in once: no item of a purchase order becomes two *)
(* batches, whatever status updates and forecasts happen in between        *)
(* ('Purchase order is already received').                                 *)
ReceivedAtMostOnce ==
    \A b, c \in 1..Shelf :
        batch[b].from = batch[c].from /\ batch[b].from[1] # 0 => b = c
===============================================================================
