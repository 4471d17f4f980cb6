-------------------------- MODULE OfferMarket_proofs --------------------------
(***************************************************************************)
(* Units of offers are conserved for any number of offers, checkouts,      *)
(* returns, managers and crons, as long as no update changes a quantity:   *)
(* then no handler writes a count it read earlier, and every write moves   *)
(* as many units out of an offer as it moves into a basket or an order.    *)
(*                                                                         *)
(* When requests and ticks of the cron follow one another, resizing        *)
(* included: no two offers are purchasable together, none is oversold, and *)
(* a finished one stays finished, for any number of offers and windows.    *)
(***************************************************************************)
EXTENDS OfferMarket, TLAPS

(* The labels at which a handler is about to write the offer it holds. *)
AtOffer == {"reserve", "recheck", "markSoldOut", "reopenCheck", "reopen", "write",
            "cancel", "activate"}

Made(o) == offer[o].status # "none"

Unfinished(o) == offer[o].status \notin {"none", "cancelled", "expired"}

(* A handler works on an offer that was made, and creates one whose units  *)
(* are all for sale.                                                       *)
HeldBy(label, held) ==
    /\ label \in AtOffer => held.id \in Offers /\ Made(held.id)
    /\ \A o \in held.todo : Made(o)
    /\ held.resized => MayResize
    /\ label = "create" => /\ held.body.status # "none"
                           /\ held.body.remaining = held.body.available

(* Nothing was taken from an offer that was not made. *)
NothingTakenUnmade == \A o \in Offers : ~Made(o) => taken[o] = [open |-> 0, held |-> 0]

(* A document balances with the units taken from it, where no update       *)
(* changes a quantity.                                                     *)
Balances(doc, units) ==
    ~MayResize => doc.available = doc.remaining + units.open + units.held

BooksBalance == \A o \in Offers : Balances(offer[o], taken[o])

MarketInv == /\ TypeOK
             /\ \A p \in Proc : HeldBy(pc[p], loc[p])
             /\ NothingTakenUnmade
             /\ BooksBalance

-------------------------------------------------------------------------------
(* Documents and what a handler holds stay in their sets. *)

LEMMA NoLocalsTyped == NoLocals \in Locals /\ ~NoLocals.resized /\ NoLocals.todo = {}
BY MarketAssumption DEF NoLocals, NoDoc, Locals, OfferDoc

LEMMA MarketInit == Init => MarketInv
<1> SUFFICES ASSUME Init PROVE MarketInv OBVIOUS
<1>1. TypeOK
  BY NoLocalsTyped, MarketAssumption DEF Init, TypeOK, NoDoc, OfferDoc, Labels
<1>2. \A p \in Proc : HeldBy(pc[p], loc[p])
  BY NoLocalsTyped DEF Init, HeldBy, AtOffer
<1>3. NothingTakenUnmade /\ BooksBalance
  BY DEF Init, NothingTakenUnmade, BooksBalance, Balances, NoDoc
<1> QED BY <1>1, <1>2, <1>3 DEF MarketInv

LEMMA StatusTyped ==
    ASSUME NEW doc \in OfferDoc, NEW status \in OfferStatuses
    PROVE  /\ [doc EXCEPT !.status = status] \in OfferDoc
           /\ [doc EXCEPT !.status = status].status # "none"
           /\ [doc EXCEPT !.status = status].available = doc.available
           /\ [doc EXCEPT !.status = status].remaining = doc.remaining
BY DEF OfferDoc, OfferStatuses

LEMMA RemainingTyped ==
    ASSUME NEW doc \in OfferDoc, NEW n \in Int
    PROVE  /\ [doc EXCEPT !.remaining = n] \in OfferDoc
           /\ [doc EXCEPT !.remaining = n].status = doc.status
           /\ [doc EXCEPT !.remaining = n].available = doc.available
           /\ [doc EXCEPT !.remaining = n].remaining = n
BY DEF OfferDoc

(* What a step has to show: the handler's new label and locals, and that   *)
(* no offer is unmade and each keeps its balance.                          *)
LEMMA StepKeepsInv ==
    ASSUME MarketInv, NEW p \in Proc, NEW label \in Labels, NEW held \in Locals,
           pc' = [pc EXCEPT ![p] = label], loc' = [loc EXCEPT ![p] = held],
           HeldBy(label, held)',
           offer' \in [Offers -> OfferDoc], taken' \in [Offers -> [open : Int, held : Int]],
           now' = now, paid' = paid,
           \A o \in Offers : Made(o) => Made(o)',
           NothingTakenUnmade', BooksBalance'
    PROVE  MarketInv'
<1>1. TypeOK' BY DEF MarketInv, TypeOK
<1>2. ASSUME NEW q \in Proc PROVE HeldBy(pc[q], loc[q])'
  <2>1. CASE q = p BY <2>1 DEF HeldBy, MarketInv, TypeOK
  <2>2. CASE q # p
    <3>1. pc'[q] = pc[q] /\ loc'[q] = loc[q] BY <2>2 DEF MarketInv, TypeOK
    <3>2. HeldBy(pc[q], loc[q]) /\ loc[q].todo \subseteq Offers BY DEF MarketInv, TypeOK, Locals
    <3> QED BY <3>1, <3>2 DEF HeldBy
  <2> QED BY <2>1, <2>2
<1> QED BY <1>1, <1>2 DEF MarketInv

(* Steps that only move a handler. *)
LEMMA HandlerMoves ==
    ASSUME MarketInv, NEW p \in Proc, NEW label \in Labels, NEW held \in Locals,
           pc' = [pc EXCEPT ![p] = label], loc' = [loc EXCEPT ![p] = held],
           HeldBy(label, held), UNCHANGED <<offer, taken, now, paid>>
    PROVE  MarketInv'
<1>1. HeldBy(label, held)' BY DEF HeldBy, Made
<1>2. \A o \in Offers : Made(o) => Made(o)' BY DEF Made
<1>3. NothingTakenUnmade' /\ BooksBalance'
  BY DEF MarketInv, NothingTakenUnmade, BooksBalance, Made
<1>4. offer' \in [Offers -> OfferDoc] /\ taken' \in [Offers -> [open : Int, held : Int]]
  BY DEF MarketInv, TypeOK
<1> QED BY <1>1, <1>2, <1>3, <1>4, StepKeepsInv

(* Steps that also change the statuses of offers that were made. *)
LEMMA StatusesChange ==
    ASSUME MarketInv, NEW p \in Proc, NEW label \in Labels, NEW held \in Locals,
           pc' = [pc EXCEPT ![p] = label], loc' = [loc EXCEPT ![p] = held],
           HeldBy(label, held), UNCHANGED <<taken, now, paid>>,
           offer' \in [Offers -> OfferDoc],
           \A o \in Offers : \/ offer'[o] = offer[o]
                             \/ /\ Made(o) /\ Made(o)'
                                /\ offer'[o].available = offer[o].available
                                /\ offer'[o].remaining = offer[o].remaining
    PROVE  MarketInv'
<1>1. \A o \in Offers : Made(o) => Made(o)' BY DEF Made
<1>2. HeldBy(label, held)'
  <2>1. held.todo \subseteq Offers BY DEF Locals
  <2> QED BY <1>1, <2>1 DEF HeldBy
<1>3. NothingTakenUnmade' BY DEF MarketInv, NothingTakenUnmade, Made
<1>4. BooksBalance' BY DEF MarketInv, BooksBalance, Balances
<1>5. taken' \in [Offers -> [open : Int, held : Int]] BY DEF MarketInv, TypeOK
<1> QED BY <1>1, <1>2, <1>3, <1>4, <1>5, StepKeepsInv

(* Steps that write one offer and its units, in balance. *)
LEMMA OfferChanges ==
    ASSUME MarketInv, NEW p \in Proc, NEW label \in Labels, NEW held \in Locals,
           pc' = [pc EXCEPT ![p] = label], loc' = [loc EXCEPT ![p] = held],
           HeldBy(label, held), UNCHANGED <<now, paid>>,
           NEW o \in Offers, NEW doc \in OfferDoc, NEW units \in [open : Int, held : Int],
           offer' = [offer EXCEPT ![o] = doc], taken' = [taken EXCEPT ![o] = units],
           doc.status # "none", Balances(doc, units)
    PROVE  MarketInv'
<1>1. /\ offer' \in [Offers -> OfferDoc] /\ taken' \in [Offers -> [open : Int, held : Int]]
      /\ offer'[o] = doc /\ taken'[o] = units
      /\ \A q \in Offers \ {o} : offer'[q] = offer[q] /\ taken'[q] = taken[q]
  BY DEF MarketInv, TypeOK
<1>2. \A q \in Offers : Made(q) => Made(q)' BY <1>1 DEF Made
<1>3. HeldBy(label, held)'
  <2>1. held.todo \subseteq Offers BY DEF Locals
  <2> QED BY <1>2, <2>1 DEF HeldBy
<1>4. NothingTakenUnmade' BY <1>1 DEF MarketInv, NothingTakenUnmade, Made
<1>5. BooksBalance' BY <1>1 DEF MarketInv, BooksBalance
<1> QED BY <1>1, <1>2, <1>3, <1>4, <1>5, StepKeepsInv

-------------------------------------------------------------------------------
(* The two shapes of a status write. *)
LEMMA StatusWritten ==
    ASSUME MarketInv, NEW o \in Offers, Made(o), NEW status \in OfferStatuses, Status(o, status)
    PROVE  /\ offer' \in [Offers -> OfferDoc]
           /\ \A q \in Offers : \/ offer'[q] = offer[q]
                                \/ /\ Made(q) /\ Made(q)'
                                   /\ offer'[q].available = offer[q].available
                                   /\ offer'[q].remaining = offer[q].remaining
<1>1. offer[o] \in OfferDoc BY DEF MarketInv, TypeOK
<1>2. offer' = [offer EXCEPT ![o] = [offer[o] EXCEPT !.status = status]] BY DEF Status
<1> QED BY <1>1, <1>2, StatusTyped DEF MarketInv, TypeOK, Made

LEMMA ManyWritten ==
    ASSUME MarketInv, NEW S, \A o \in Offers : o \in S => Made(o),
           NEW status \in OfferStatuses, UpdateMany(S, status)
    PROVE  /\ offer' \in [Offers -> OfferDoc]
           /\ \A q \in Offers : \/ offer'[q] = offer[q]
                                \/ /\ Made(q) /\ Made(q)'
                                   /\ offer'[q].available = offer[q].available
                                   /\ offer'[q].remaining = offer[q].remaining
<1>1. \A o \in Offers : offer[o] \in OfferDoc BY DEF MarketInv, TypeOK
<1>2. \A o \in Offers : offer'[o] = IF o \in S THEN [offer[o] EXCEPT !.status = status] ELSE offer[o]
  BY DEF UpdateMany
<1>3. \A o \in Offers : offer'[o] \in OfferDoc BY <1>1, <1>2, StatusTyped
<1>4. offer' = [o \in Offers |-> offer'[o]] BY DEF UpdateMany
<1>5. ASSUME NEW q \in Offers, offer'[q] # offer[q]
      PROVE  /\ Made(q) /\ Made(q)'
             /\ offer'[q].available = offer[q].available
             /\ offer'[q].remaining = offer[q].remaining
  <2>1. q \in S BY <1>2, <1>5
  <2>2. offer'[q] = [offer[q] EXCEPT !.status = status] BY <1>2, <2>1
  <2>3. offer'[q].status # "none" /\ offer'[q].available = offer[q].available
        /\ offer'[q].remaining = offer[q].remaining
    BY <1>1, <2>2, StatusTyped
  <2> QED BY <2>1, <2>3 DEF Made
<1>6. offer' \in [Offers -> OfferDoc] BY <1>3, <1>4
<1> QED BY <1>5, <1>6

LEMMA HandlerTyped ==
    ASSUME MarketInv, NEW p \in Proc
    PROVE  loc[p] \in Locals /\ pc[p] \in Labels /\ HeldBy(pc[p], loc[p])
BY DEF MarketInv, TypeOK

(* A handler turns to an offer, or goes on with the one it holds. *)
LEMMA HoldsOffer ==
    ASSUME MarketInv, NEW p \in Proc, NEW held, NEW label, label # "create",
           held.id \in Offers /\ Made(held.id),
           held.todo \subseteq loc[p].todo, held.resized = loc[p].resized
    PROVE  HeldBy(label, held)
BY HandlerTyped DEF HeldBy

(* It holds no offer it is about to write. *)
LEMMA HoldsNone ==
    ASSUME MarketInv, NEW p \in Proc, NEW held, NEW label, label \notin AtOffer \cup {"create"},
           \A o \in held.todo : o \in loc[p].todo \/ Made(o), held.resized = loc[p].resized
    PROVE  HeldBy(label, held)
BY HandlerTyped DEF HeldBy

(* A handler that ends lets go of its offer. *)
LEMMA FinishHolds ==
    ASSUME NEW p \in Proc, Finish(p)
    PROVE  /\ pc' = [pc EXCEPT ![p] = "idle"] /\ loc' = [loc EXCEPT ![p] = NoLocals]
           /\ "idle" \in Labels /\ NoLocals \in Locals /\ HeldBy("idle", NoLocals)
BY NoLocalsTyped DEF Finish, Labels, HeldBy, AtOffer

-------------------------------------------------------------------------------
(* Customers. *)

LEMMA ReadOfferSafe == ASSUME MarketInv, NEW p \in Proc, ReadOffer(p) PROVE MarketInv'
<1>1. PICK o \in Offers, q \in 1..MaxUnits :
        offer[o].status = "active" /\ Hold(p, [loc[p] EXCEPT !.id = o, !.units = q])
  BY DEF ReadOffer
<1> DEFINE held == [loc[p] EXCEPT !.id = o, !.units = q]
<1>2. q \in Nat BY MarketAssumption
<1>3. held \in Locals /\ held.id = o /\ held.todo = loc[p].todo /\ held.resized = loc[p].resized
  <2>1. loc[p] \in Locals BY HandlerTyped
  <2> QED BY <1>2, <2>1 DEF Locals
<1>6. Made(o) BY <1>1 DEF Made
<1>4. pc' = [pc EXCEPT ![p] = "reserve"] /\ loc' = [loc EXCEPT ![p] = held]
  BY <1>1 DEF ReadOffer, Goto, Hold
<1>5. "reserve" \in Labels BY DEF Labels
<1> HIDE DEF held
<1>7. HeldBy("reserve", held) BY <1>3, <1>6, HoldsOffer
<1> QED BY <1>3, <1>4, <1>5, <1>7, HandlerMoves DEF ReadOffer

LEMMA ReserveUnitsSafe == ASSUME MarketInv, NEW p \in Proc, ReserveUnits(p) PROVE MarketInv'
<1>1. PICK o \in Offers, n \in Nat : o = loc[p].id /\ n = loc[p].units /\ Made(o)
  BY HandlerTyped DEF ReserveUnits, HeldBy, AtOffer, Locals
<1> DEFINE doc   == [offer[o] EXCEPT !.remaining = offer[o].remaining - n]
           units == [taken[o] EXCEPT !.open = taken[o].open + n]
<1>2. /\ offer[o] \in OfferDoc /\ taken[o] \in [open : Int, held : Int]
      /\ Balances(offer[o], taken[o])
  BY DEF MarketInv, TypeOK, BooksBalance
<1>3. offer' = [offer EXCEPT ![o] = doc] /\ taken' = [taken EXCEPT ![o] = units]
  BY <1>1 DEF ReserveUnits
<1>4. pc' = [pc EXCEPT ![p] = "recheck"] /\ loc' = [loc EXCEPT ![p] = loc[p]]
  BY HandlerTyped DEF ReserveUnits, Goto, MarketInv, TypeOK
<1>5. doc \in OfferDoc /\ doc.status # "none" /\ units \in [open : Int, held : Int]
  BY <1>1, <1>2 DEF OfferDoc, Made
<1>6. Balances(doc, units) BY <1>1, <1>2 DEF OfferDoc, Balances
<1>7. HeldBy("recheck", loc[p]) BY <1>1, HoldsOffer
<1>8. loc[p] \in Locals /\ "recheck" \in Labels BY HandlerTyped DEF Labels
<1>9. UNCHANGED <<now, paid>> BY DEF ReserveUnits
<1> HIDE DEF doc, units
<1> QED BY <1>3, <1>4, <1>5, <1>6, <1>7, <1>8, <1>9, OfferChanges

(* The units of a basket become units of an order. *)
LEMMA PlaceOrderBalances ==
    ASSUME MarketInv, NEW p \in Proc, pc[p] \in AtOffer, PlaceOrder(p)
    PROVE  \E units \in [open : Int, held : Int] :
              /\ taken' = [taken EXCEPT ![loc[p].id] = units]
              /\ loc[p].id \in Offers /\ offer[loc[p].id] \in OfferDoc /\ Made(loc[p].id)
              /\ Balances(offer[loc[p].id], units)
<1> DEFINE o     == loc[p].id
           units == [open |-> taken[o].open - loc[p].units, held |-> taken[o].held + loc[p].units]
<1>1. o \in Offers /\ Made(o) /\ loc[p].units \in Nat BY HandlerTyped DEF HeldBy, Locals
<1>2. /\ offer[o] \in OfferDoc /\ taken[o] \in [open : Int, held : Int]
      /\ Balances(offer[o], taken[o])
  BY <1>1 DEF MarketInv, TypeOK, BooksBalance
<1>3. units \in [open : Int, held : Int] BY <1>1, <1>2
<1>4. Balances(offer[o], units) BY <1>1, <1>2 DEF OfferDoc, Balances
<1>5. taken' = [taken EXCEPT ![o] = units] BY DEF PlaceOrder
<1> HIDE DEF o, units
<1>6. loc[p].id = o BY DEF o
<1> QED BY <1>1, <1>2, <1>3, <1>4, <1>5, <1>6

LEMMA StockLeftSafe == ASSUME MarketInv, NEW p \in Proc, StockLeft(p) PROVE MarketInv'
<1>1. pc[p] \in AtOffer BY DEF StockLeft, AtOffer
<1>2. PICK units \in [open : Int, held : Int] :
        /\ taken' = [taken EXCEPT ![loc[p].id] = units]
        /\ loc[p].id \in Offers /\ offer[loc[p].id] \in OfferDoc /\ Made(loc[p].id)
        /\ Balances(offer[loc[p].id], units)
  BY <1>1, PlaceOrderBalances DEF StockLeft
<1>3. offer' = [offer EXCEPT ![loc[p].id] = offer[loc[p].id]]
  BY DEF StockLeft, MarketInv, TypeOK
<1> QED BY <1>2, <1>3, FinishHolds, OfferChanges DEF StockLeft, Made

LEMMA NoStockLeftSafe == ASSUME MarketInv, NEW p \in Proc, NoStockLeft(p) PROVE MarketInv'
<1>1. pc' = [pc EXCEPT ![p] = "markSoldOut"] /\ loc' = [loc EXCEPT ![p] = loc[p]]
  BY DEF NoStockLeft, Goto, MarketInv, TypeOK
<1>2. loc[p].id \in Offers /\ Made(loc[p].id) BY HandlerTyped DEF NoStockLeft, HeldBy, AtOffer
<1>3. HeldBy("markSoldOut", loc[p]) BY <1>2, HoldsOffer
<1>4. loc[p] \in Locals /\ "markSoldOut" \in Labels BY HandlerTyped DEF Labels
<1> QED BY <1>1, <1>3, <1>4, HandlerMoves DEF NoStockLeft

LEMMA MarkSoldOutSafe == ASSUME MarketInv, NEW p \in Proc, MarkSoldOut(p) PROVE MarketInv'
<1> DEFINE doc == [offer[loc[p].id] EXCEPT !.status = "sold_out"]
<1>1. pc[p] \in AtOffer BY DEF MarkSoldOut, AtOffer
<1>2. PICK units \in [open : Int, held : Int] :
        /\ taken' = [taken EXCEPT ![loc[p].id] = units]
        /\ loc[p].id \in Offers /\ offer[loc[p].id] \in OfferDoc /\ Made(loc[p].id)
        /\ Balances(offer[loc[p].id], units)
  BY <1>1, PlaceOrderBalances DEF MarkSoldOut
<1>3. offer' = [offer EXCEPT ![loc[p].id] = doc] BY DEF MarkSoldOut, Status
<1>4. /\ doc \in OfferDoc /\ doc.status # "none"
      /\ Balances(doc, units)
  BY <1>2 DEF OfferDoc, OfferStatuses, Balances
<1> HIDE DEF doc
<1> QED BY <1>2, <1>3, <1>4, FinishHolds, OfferChanges DEF MarkSoldOut

LEMMA ReturnUnitsSafe == ASSUME MarketInv, NEW p \in Proc, ReturnUnits(p) PROVE MarketInv'
<1>1. PICK o \in Offers : \E q \in 1..taken[o].held :
          /\ offer' = [offer EXCEPT ![o].remaining = @ + q]
          /\ taken' = [taken EXCEPT ![o].held = @ - q]
          /\ Hold(p, [loc[p] EXCEPT !.id = o])
  BY DEF ReturnUnits
<1>2. /\ offer[o] \in OfferDoc /\ taken[o] \in [open : Int, held : Int]
      /\ Balances(offer[o], taken[o])
  BY DEF MarketInv, TypeOK, BooksBalance
<1>3. PICK q \in 1..taken[o].held :
          /\ offer' = [offer EXCEPT ![o].remaining = @ + q]
          /\ taken' = [taken EXCEPT ![o].held = @ - q]
          /\ Hold(p, [loc[p] EXCEPT !.id = o])
  BY <1>1
<1> DEFINE doc   == [offer[o] EXCEPT !.remaining = offer[o].remaining + q]
           units == [taken[o] EXCEPT !.held = taken[o].held - q]
           held  == [loc[p] EXCEPT !.id = o]
<1>4. taken[o].held > 0 /\ q \in Nat BY <1>2
<1>5. Made(o) BY <1>4 DEF MarketInv, NothingTakenUnmade
<1>6. offer' = [offer EXCEPT ![o] = doc] /\ taken' = [taken EXCEPT ![o] = units] BY <1>3
<1>7. doc \in OfferDoc /\ doc.status = offer[o].status /\ units \in [open : Int, held : Int]
  BY <1>2, <1>4 DEF OfferDoc
<1>8. Balances(doc, units) BY <1>2, <1>4 DEF OfferDoc, Balances
<1>9. held \in Locals /\ held.id = o /\ held.todo = loc[p].todo /\ held.resized = loc[p].resized
  <2>1. loc[p] \in Locals BY HandlerTyped
  <2> QED BY <2>1 DEF Locals
<1>10. pc' = [pc EXCEPT ![p] = "reopenCheck"] /\ loc' = [loc EXCEPT ![p] = held]
  BY <1>3 DEF ReturnUnits, Goto, Hold
<1>11. doc.status # "none" BY <1>5, <1>7 DEF Made
<1>12. "reopenCheck" \in Labels BY DEF Labels
<1> HIDE DEF doc, units, held
<1>13. HeldBy("reopenCheck", held) BY <1>5, <1>9, HoldsOffer
<1> QED BY <1>6, <1>7, <1>8, <1>9, <1>10, <1>11, <1>12, <1>13, OfferChanges DEF ReturnUnits

LEMMA CheckReopenSafe == ASSUME MarketInv, NEW p \in Proc, CheckReopen(p) PROVE MarketInv'
<1>1. CASE Reopens(loc[p].id)
  <2>1. pc' = [pc EXCEPT ![p] = "reopen"] /\ loc' = [loc EXCEPT ![p] = loc[p]]
    BY <1>1 DEF CheckReopen, Goto, MarketInv, TypeOK
  <2>2. loc[p].id \in Offers /\ Made(loc[p].id) BY HandlerTyped DEF CheckReopen, HeldBy, AtOffer
  <2>3. HeldBy("reopen", loc[p]) BY <2>2, HoldsOffer
  <2>4. loc[p] \in Locals /\ "reopen" \in Labels BY HandlerTyped DEF Labels
  <2> QED BY <2>1, <2>3, <2>4, HandlerMoves DEF CheckReopen
<1>2. CASE ~Reopens(loc[p].id)
  BY <1>2, FinishHolds, HandlerMoves DEF CheckReopen
<1> QED BY <1>1, <1>2

LEMMA ReopenSafe == ASSUME MarketInv, NEW p \in Proc, Reopen(p) PROVE MarketInv'
<1>1. loc[p].id \in Offers /\ Made(loc[p].id) BY HandlerTyped DEF Reopen, HeldBy, AtOffer
<1>2. "active" \in OfferStatuses BY DEF OfferStatuses
<1> QED BY <1>1, <1>2, StatusWritten, FinishHolds, StatusesChange DEF Reopen

-------------------------------------------------------------------------------
(* Managers. *)

(* A new offer's document, about to be inserted. *)
LEMMA NewOffer ==
    ASSUME MarketInv, NEW p \in Proc, NEW doc \in OfferDoc,
           doc.status # "none", doc.remaining = doc.available,
           Hold(p, [loc[p] EXCEPT !.body = doc]), Goto(p, "create"),
           UNCHANGED <<offer, taken, now, paid>>
    PROVE  MarketInv'
<1> DEFINE held == [loc[p] EXCEPT !.body = doc]
<1>1. /\ held \in Locals /\ held.body = doc /\ held.todo = loc[p].todo
      /\ held.resized = loc[p].resized
  <2>1. loc[p] \in Locals BY HandlerTyped
  <2> QED BY <2>1 DEF Locals
<1>2. pc' = [pc EXCEPT ![p] = "create"] /\ loc' = [loc EXCEPT ![p] = held]
  BY DEF Goto, Hold
<1>3. "create" \in Labels /\ "create" \notin AtOffer BY DEF Labels, AtOffer
<1> HIDE DEF held
<1>4. HeldBy("create", held) BY <1>1, <1>3, HandlerTyped DEF HeldBy
<1> QED BY <1>1, <1>2, <1>3, <1>4, HandlerMoves

LEMMA CreateOfferSafe == ASSUME MarketInv, NEW p \in Proc, CreateOffer(p) PROVE MarketInv'
<1>1. PICK w \in Windows, q \in 1..MaxUnits, asked \in {"none", "draft", "scheduled", "active"} :
        Hold(p, [loc[p] EXCEPT !.body =
                   [status |-> IF asked = "none" THEN DeriveStatus(w.start) ELSE asked,
                    start |-> w.start, end |-> w.end, available |-> q, remaining |-> q]])
  BY DEF CreateOffer
<1> DEFINE doc == [status |-> IF asked = "none" THEN DeriveStatus(w.start) ELSE asked,
                   start |-> w.start, end |-> w.end, available |-> q, remaining |-> q]
<1>2. q \in Nat /\ w.start \in 0..Horizon /\ w.end \in 0..Horizon
  BY MarketAssumption DEF Window
<1>3. doc \in OfferDoc /\ doc.status # "none" /\ doc.remaining = doc.available
  BY <1>2 DEF OfferDoc, OfferStatuses, DeriveStatus
<1>4. Hold(p, [loc[p] EXCEPT !.body = doc]) BY <1>1
<1> HIDE DEF doc
<1> QED BY <1>3, <1>4, NewOffer DEF CreateOffer

LEMMA ApproveRecommendationSafe ==
    ASSUME MarketInv, NEW p \in Proc, ApproveRecommendation(p) PROVE MarketInv'
<1>1. PICK w \in Windows, q \in 1..MaxUnits :
        Hold(p, [loc[p] EXCEPT !.body = [status |-> "active", start |-> w.start,
                                         end |-> w.end, available |-> q, remaining |-> q]])
  BY DEF ApproveRecommendation
<1> DEFINE doc == [status |-> "active", start |-> w.start, end |-> w.end,
                   available |-> q, remaining |-> q]
<1>2. q \in Nat /\ w.start \in 0..Horizon /\ w.end \in 0..Horizon
  BY MarketAssumption DEF Window
<1>3. doc \in OfferDoc /\ doc.status # "none" /\ doc.remaining = doc.available
  BY <1>2 DEF OfferDoc, OfferStatuses
<1>4. Hold(p, [loc[p] EXCEPT !.body = doc]) BY <1>1
<1> HIDE DEF doc
<1> QED BY <1>3, <1>4, NewOffer DEF ApproveRecommendation

(* Nothing was taken from the id a new offer gets. *)
LEMMA WriteCreatedSafe == ASSUME MarketInv, NEW p \in Proc, WriteCreated(p) PROVE MarketInv'
<1>1. PICK o \in Offers : offer[o].status = "none" /\ offer' = [offer EXCEPT ![o] = loc[p].body]
  BY DEF WriteCreated
<1>2. /\ loc[p].body \in OfferDoc /\ loc[p].body.status # "none"
      /\ loc[p].body.remaining = loc[p].body.available
  BY HandlerTyped DEF WriteCreated, HeldBy, Locals
<1>3. taken[o] = [open |-> 0, held |-> 0] /\ taken[o] \in [open : Int, held : Int]
  BY <1>1 DEF MarketInv, TypeOK, NothingTakenUnmade, Made
<1>4. Balances(loc[p].body, taken[o])
  BY <1>2, <1>3 DEF OfferDoc, Balances
<1>5. taken' = [taken EXCEPT ![o] = taken[o]] BY DEF WriteCreated, MarketInv, TypeOK
<1>6. Finish(p) /\ UNCHANGED <<now, paid>> BY DEF WriteCreated
<1> QED BY <1>1, <1>2, <1>3, <1>4, <1>5, <1>6, FinishHolds, OfferChanges

(* What an update has checked when it comes to its write.                  *)
Checked(p, o, resized, moved, body) ==
    /\ Unfinished(o)
    /\ body.available - body.remaining = SoldOf(offer[o])
    /\ resized => body.remaining >= 0 /\ MayResize
    /\ body.status = "active" => ~ActiveConflict(o)
    /\ moved => \E w \in Windows : /\ ~Overlaps(w, o)
                                   /\ body.start = w.start /\ body.end = w.end
    /\ Hold(p, [loc[p] EXCEPT !.id = o, !.resized = resized, !.moved = moved, !.body = body])

LEMMA UpdateRead ==
    ASSUME TypeOK, NEW p \in Proc, UpdateOffer(p)
    PROVE  \E o \in Offers, resized \in BOOLEAN, moved \in BOOLEAN, body \in OfferDoc :
              Checked(p, o, resized, moved, body)
<1> DEFINE Allowed(o, resized, moved, asked, q, w) ==
      LET doc       == offer[o]
          remaining == doc.remaining + q - doc.available
          status    == IF asked = "none" THEN Implied(o, remaining, resized, moved, w)
                       ELSE asked
      IN  /\ resized \/ moved \/ asked # "none"
          /\ doc.status \notin {"none", "expired", "cancelled"}
          /\ w.start # doc.start => doc.status \in {"draft", "scheduled"}
          /\ resized => q >= SoldOf(doc)
          /\ moved => w.end > now /\ ~Overlaps(w, o)
          /\ asked # "none" => MayTransit(doc.status, asked)
          /\ asked = "active" => remaining > 0 /\ w.start <= now /\ ~ActiveConflict(o)
          /\ moved /\ w.start < now =>
                (IF status = "none" THEN doc.status ELSE status)
                    \notin {"draft", "scheduled"}
          /\ Hold(p, [loc[p] EXCEPT
                        !.id = o, !.resized = resized, !.moved = moved,
                        !.body = [status |-> status, start |-> w.start, end |-> w.end,
                                  available |-> q, remaining |-> remaining]])
<1>0. \E o \in Offers, resized \in {FALSE, MayResize}, moved \in {FALSE, MayMove},
         asked \in Statuses \cup {"none"} :
         \E q \in IF resized THEN 1..MaxUnits ELSE {offer[o].available},
            w \in IF moved THEN Windows ELSE {[start |-> offer[o].start, end |-> offer[o].end]} :
            Allowed(o, resized, moved, asked, q, w)
  BY DEF UpdateOffer
<1> HIDE DEF Allowed
<1>1. PICK o \in Offers, resized \in {FALSE, MayResize}, moved \in {FALSE, MayMove},
           asked \in Statuses \cup {"none"} :
         \E q \in IF resized THEN 1..MaxUnits ELSE {offer[o].available},
            w \in IF moved THEN Windows ELSE {[start |-> offer[o].start, end |-> offer[o].end]} :
            Allowed(o, resized, moved, asked, q, w)
  BY <1>0
<1>2. PICK q \in IF resized THEN 1..MaxUnits ELSE {offer[o].available},
           w \in IF moved THEN Windows ELSE {[start |-> offer[o].start, end |-> offer[o].end]} :
         Allowed(o, resized, moved, asked, q, w)
  BY <1>1
<1> DEFINE remaining == offer[o].remaining + q - offer[o].available
           status == IF asked = "none" THEN Implied(o, remaining, resized, moved, w) ELSE asked
           body == [status |-> status, start |-> w.start, end |-> w.end,
                    available |-> q, remaining |-> remaining]
<1>3. offer[o] \in OfferDoc BY DEF TypeOK
<1>4. /\ remaining \in Int /\ q \in Nat /\ q - remaining = SoldOf(offer[o])
      /\ resized => remaining >= 0
  BY <1>2, <1>3, MarketAssumption DEF OfferDoc, SoldOf, Allowed
<1>5. w.start \in 0..Horizon /\ w.end \in 0..Horizon
  BY <1>3, MarketAssumption DEF OfferDoc, Window
<1>6. status \in OfferStatuses \cup {"none"}
  BY MarketAssumption DEF Implied, OfferStatuses
<1>7. status = "active" => ~ActiveConflict(o) BY <1>2 DEF Implied, Allowed
<1>8. /\ Unfinished(o) /\ (moved => ~Overlaps(w, o) /\ w \in Windows)
      /\ Hold(p, [loc[p] EXCEPT !.id = o, !.resized = resized, !.moved = moved, !.body = body])
  BY <1>2 DEF Allowed, Unfinished
<1> HIDE DEF remaining, status
<1>9. /\ body \in OfferDoc /\ body.status = status /\ body.available = q
      /\ body.remaining = remaining /\ body.start = w.start /\ body.end = w.end
  BY <1>4, <1>5, <1>6 DEF OfferDoc
<1> HIDE DEF body
<1>10. body.available - body.remaining = SoldOf(offer[o]) /\ (resized => body.remaining >= 0)
  BY <1>4, <1>9
<1>11. body.status = "active" => ~ActiveConflict(o) BY <1>7, <1>9
<1>12. moved => \E v \in Windows : ~Overlaps(v, o) /\ body.start = v.start /\ body.end = v.end
  BY <1>8, <1>9
<1>13. /\ resized \in BOOLEAN /\ moved \in BOOLEAN /\ (resized => MayResize)
  <2>1. MayResize \in BOOLEAN /\ MayMove \in BOOLEAN BY MarketAssumption
  <2>2. resized \in BOOLEAN /\ moved \in BOOLEAN BY <2>1
  <2>3. resized = FALSE \/ resized = MayResize OBVIOUS
  <2>4. resized => MayResize BY <2>2, <2>3
  <2> QED BY <2>2, <2>4
<1>14. Checked(p, o, resized, moved, body) BY <1>8, <1>10, <1>11, <1>12, <1>13 DEF Checked
<1> QED BY <1>9, <1>13, <1>14

LEMMA UpdateOfferSafe ==
    ASSUME MarketInv, NEW p \in Proc, UpdateOffer(p) PROVE MarketInv'
<1>1. PICK o \in Offers, resized \in BOOLEAN, moved \in BOOLEAN, body \in OfferDoc :
        Checked(p, o, resized, moved, body)
  BY UpdateRead DEF MarketInv
<1> DEFINE held == [loc[p] EXCEPT !.id = o, !.resized = resized, !.moved = moved, !.body = body]
<1>2. held \in Locals /\ held.id = o /\ held.todo = loc[p].todo /\ held.resized = resized
  <2>1. loc[p] \in Locals BY HandlerTyped
  <2> QED BY <2>1 DEF Locals
<1>3. pc' = [pc EXCEPT ![p] = "write"] /\ loc' = [loc EXCEPT ![p] = held]
  BY <1>1 DEF UpdateOffer, Goto, Hold, Checked
<1>4. "write" \in Labels /\ Made(o) /\ (resized => MayResize)
  BY <1>1 DEF Labels, Made, Unfinished, Checked
<1> HIDE DEF held
<1>5. HeldBy("write", held) BY <1>2, <1>4, HandlerTyped DEF HeldBy
<1> QED BY <1>2, <1>3, <1>4, <1>5, HandlerMoves DEF UpdateOffer

(* Without a new quantity the body has a window and a status. *)
LEMMA WriteUpdateSafe == ASSUME MarketInv, NEW p \in Proc, WriteUpdate(p) PROVE MarketInv'
<1> DEFINE o     == loc[p].id
           body  == loc[p].body
           dated == IF loc[p].moved
                    THEN [offer[o] EXCEPT !.start = body.start, !.end = body.end] ELSE offer[o]
           sized == IF loc[p].resized
                    THEN [dated EXCEPT !.available = body.available,
                                       !.remaining = body.remaining] ELSE dated
           named == IF body.status = "none" THEN sized ELSE [sized EXCEPT !.status = body.status]
<1>1. /\ o \in Offers /\ Made(o) /\ (loc[p].resized => MayResize)
      /\ body \in OfferDoc /\ loc[p] \in Locals
  BY HandlerTyped DEF WriteUpdate, HeldBy, AtOffer, Locals
<1>2. offer' = [offer EXCEPT ![o] = named] BY DEF WriteUpdate
<1>3. /\ offer[o] \in OfferDoc /\ offer[o].status # "none"
      /\ taken[o] \in [open : Int, held : Int] /\ Balances(offer[o], taken[o])
  BY <1>1 DEF MarketInv, TypeOK, Made, BooksBalance
<1> HIDE DEF o, body
<1>4. /\ dated \in OfferDoc /\ dated.status = offer[o].status
      /\ dated.available = offer[o].available /\ dated.remaining = offer[o].remaining
  BY <1>1, <1>3 DEF OfferDoc
<1> HIDE DEF dated
<1>5. /\ sized \in OfferDoc /\ sized.status = offer[o].status
      /\ \/ loc[p].resized
         \/ sized.available = offer[o].available /\ sized.remaining = offer[o].remaining
  BY <1>1, <1>4 DEF OfferDoc
<1> HIDE DEF sized
<1>6. /\ named \in OfferDoc /\ named.status # "none"
      /\ named.available = sized.available /\ named.remaining = sized.remaining
  BY <1>1, <1>3, <1>5 DEF OfferDoc
<1> HIDE DEF named
<1>7. Balances(named, taken[o]) BY <1>1, <1>3, <1>5, <1>6 DEF Balances
<1>8. taken' = [taken EXCEPT ![o] = taken[o]] BY DEF WriteUpdate, MarketInv, TypeOK
<1>9. Finish(p) /\ UNCHANGED <<now, paid>> BY DEF WriteUpdate
<1> QED BY <1>1, <1>2, <1>3, <1>6, <1>7, <1>8, <1>9, FinishHolds, OfferChanges

LEMMA ReadCancellableSafe == ASSUME MarketInv, NEW p \in Proc, ReadCancellable(p) PROVE MarketInv'
<1>1. PICK o \in Offers : offer[o].status # "none" /\ Hold(p, [loc[p] EXCEPT !.id = o])
  BY DEF ReadCancellable
<1> DEFINE held == [loc[p] EXCEPT !.id = o]
<1>2. held \in Locals /\ held.id = o /\ held.todo = loc[p].todo /\ held.resized = loc[p].resized
  <2>1. loc[p] \in Locals BY HandlerTyped
  <2> QED BY <2>1 DEF Locals
<1>3. pc' = [pc EXCEPT ![p] = "cancel"] /\ loc' = [loc EXCEPT ![p] = held]
  BY <1>1 DEF ReadCancellable, Goto, Hold
<1>4. Made(o) /\ "cancel" \in Labels BY <1>1 DEF Made, Labels
<1> HIDE DEF held
<1>5. HeldBy("cancel", held) BY <1>2, <1>4, HoldsOffer
<1> QED BY <1>2, <1>3, <1>4, <1>5, HandlerMoves DEF ReadCancellable

LEMMA CancelOfferSafe == ASSUME MarketInv, NEW p \in Proc, CancelOffer(p) PROVE MarketInv'
<1>1. loc[p].id \in Offers /\ Made(loc[p].id) BY HandlerTyped DEF CancelOffer, HeldBy, AtOffer
<1>2. "cancelled" \in OfferStatuses BY DEF OfferStatuses
<1> QED BY <1>1, <1>2, StatusWritten, FinishHolds, StatusesChange DEF CancelOffer

-------------------------------------------------------------------------------
(* The cron. *)

(* A pass over many offers, by a handler that goes on. *)
LEMMA PassWrites ==
    ASSUME MarketInv, NEW p \in Proc, NEW label \in Labels, NEW held \in Locals,
           pc' = [pc EXCEPT ![p] = label], loc' = [loc EXCEPT ![p] = held],
           HeldBy(label, held), UNCHANGED <<taken, now, paid>>,
           NEW S, \A o \in Offers : o \in S => Made(o),
           NEW status \in OfferStatuses, UpdateMany(S, status)
    PROVE  MarketInv'
<1>1. /\ offer' \in [Offers -> OfferDoc]
      /\ \A q \in Offers : \/ offer'[q] = offer[q]
                           \/ /\ Made(q) /\ Made(q)'
                              /\ offer'[q].available = offer[q].available
                              /\ offer'[q].remaining = offer[q].remaining
  BY ManyWritten
<1> QED BY <1>1, StatusesChange

LEMMA ExpireSafe == ASSUME MarketInv, NEW p \in Proc, Expire(p) PROVE MarketInv'
<1> DEFINE held == [loc[p] EXCEPT !.at = now]
           S == {o \in Offers : offer[o].status \in {"active", "sold_out"} /\ offer[o].end <= now}
<1>1. held \in Locals /\ held.todo = loc[p].todo /\ held.resized = loc[p].resized
  <2>1. loc[p] \in Locals /\ now \in 0..Horizon BY HandlerTyped DEF MarketInv, TypeOK
  <2> QED BY <2>1 DEF Locals
<1>2. pc' = [pc EXCEPT ![p] = "demote"] /\ loc' = [loc EXCEPT ![p] = held]
  BY DEF Expire, Goto, Hold
<1>3. UpdateMany(S, "expired") /\ \A o \in Offers : o \in S => Made(o) BY DEF Expire, Made
<1>4. "demote" \in Labels /\ "demote" \notin AtOffer \cup {"create"} /\ "expired" \in OfferStatuses
  BY DEF Labels, AtOffer, OfferStatuses
<1>6. UNCHANGED <<taken, now, paid>> BY DEF Expire
<1> HIDE DEF held, S
<1>5. HeldBy("demote", held) BY <1>1, <1>4, HoldsNone
<1> QED BY <1>1, <1>2, <1>3, <1>4, <1>5, <1>6, PassWrites

LEMMA DemoteSafe == ASSUME MarketInv, NEW p \in Proc, Demote(p) PROVE MarketInv'
<1> DEFINE S == {o \in Offers : offer[o].status = "active" /\ offer[o].start > loc[p].at}
<1>1. loc[p] \in Locals BY HandlerTyped
<1>2. pc' = [pc EXCEPT ![p] = "findScheduled"] /\ loc' = [loc EXCEPT ![p] = loc[p]]
  BY DEF Demote, Goto, MarketInv, TypeOK
<1>3. UpdateMany(S, "scheduled") /\ \A o \in Offers : o \in S => Made(o) BY DEF Demote, Made
<1>4. /\ "findScheduled" \in Labels /\ "findScheduled" \notin AtOffer \cup {"create"}
      /\ "scheduled" \in OfferStatuses
  BY DEF Labels, AtOffer, OfferStatuses
<1>5. HeldBy("findScheduled", loc[p]) BY <1>4, HoldsNone
<1>6. UNCHANGED <<taken, now, paid>> BY DEF Demote
<1> HIDE DEF S
<1> QED BY <1>1, <1>2, <1>3, <1>4, <1>5, <1>6, PassWrites

(* The candidates of a pass were made. *)
LEMMA CandidatesSafe ==
    ASSUME MarketInv, NEW p \in Proc, NEW held \in Locals, \A o \in held.todo : Made(o),
           held.resized = loc[p].resized, Hold(p, held), Goto(p, "consider"),
           UNCHANGED <<offer, taken, now, paid>>
    PROVE  MarketInv'
<1>1. "consider" \in Labels /\ "consider" \notin AtOffer \cup {"create"} BY DEF Labels, AtOffer
<1>2. HeldBy("consider", held) BY <1>1, HoldsNone
<1>3. pc' = [pc EXCEPT ![p] = "consider"] /\ loc' = [loc EXCEPT ![p] = held] BY DEF Goto, Hold
<1> QED BY <1>1, <1>2, <1>3, HandlerMoves

LEMMA FindScheduledSafe == ASSUME MarketInv, NEW p \in Proc, FindScheduled(p) PROVE MarketInv'
<1> DEFINE S == {o \in Offers : offer[o].status = "scheduled" /\ Running(o, loc[p].at)}
           held == [loc[p] EXCEPT !.todo = S]
<1>1. S \subseteq Offers /\ \A o \in S : Made(o) BY DEF Made
<1>2. Hold(p, held) /\ Goto(p, "consider") /\ UNCHANGED <<offer, taken, now, paid>>
  BY DEF FindScheduled
<1> HIDE DEF S
<1>3. held \in Locals /\ held.todo = S /\ held.resized = loc[p].resized
  <2>1. loc[p] \in Locals BY HandlerTyped
  <2> QED BY <1>1, <2>1 DEF Locals
<1> HIDE DEF held
<1> QED BY <1>1, <1>2, <1>3, CandidatesSafe

LEMMA FindRestockedSafe == ASSUME MarketInv, NEW p \in Proc, FindRestocked(p) PROVE MarketInv'
<1> DEFINE S == {o \in Offers : /\ offer[o].status = "sold_out"
                                /\ offer[o].remaining > 0
                                /\ Running(o, loc[p].at)}
           held == [loc[p] EXCEPT !.restocked = TRUE, !.todo = S]
<1>1. S \subseteq Offers /\ \A o \in S : Made(o) BY DEF Made
<1>2. Hold(p, held) /\ Goto(p, "consider") /\ UNCHANGED <<offer, taken, now, paid>>
  BY DEF FindRestocked
<1> HIDE DEF S
<1>3. held \in Locals /\ held.todo = S /\ held.resized = loc[p].resized
  <2>1. loc[p] \in Locals BY HandlerTyped
  <2> QED BY <1>1, <2>1 DEF Locals
<1> HIDE DEF held
<1> QED BY <1>1, <1>2, <1>3, CandidatesSafe

LEMMA ConsiderSafe == ASSUME MarketInv, NEW p \in Proc, Consider(p) PROVE MarketInv'
<1>1. PICK o \in loc[p].todo :
        /\ Hold(p, [loc[p] EXCEPT !.id = o, !.todo = @ \ {o}])
        /\ Goto(p, IF ActiveConflict(o) THEN "consider" ELSE "activate")
  BY DEF Consider
<1> DEFINE held  == [loc[p] EXCEPT !.id = o, !.todo = loc[p].todo \ {o}]
           label == IF ActiveConflict(o) THEN "consider" ELSE "activate"
<1>2. loc[p] \in Locals /\ o \in Offers /\ Made(o) BY HandlerTyped DEF HeldBy, Locals
<1>3. /\ held \in Locals /\ held.id = o /\ held.todo = loc[p].todo \ {o}
      /\ held.resized = loc[p].resized
  BY <1>2 DEF Locals
<1>4. pc' = [pc EXCEPT ![p] = label] /\ loc' = [loc EXCEPT ![p] = held]
  BY <1>1 DEF Goto, Hold
<1>5. label \in Labels /\ label # "create" BY DEF Labels
<1> HIDE DEF held, label
<1>6. HeldBy(label, held) BY <1>2, <1>3, <1>5, HoldsOffer
<1> QED BY <1>3, <1>4, <1>5, <1>6, HandlerMoves DEF Consider

LEMMA ActivateSafe == ASSUME MarketInv, NEW p \in Proc, Activate(p) PROVE MarketInv'
<1>1. loc[p].id \in Offers /\ Made(loc[p].id) /\ loc[p] \in Locals
  BY HandlerTyped DEF Activate, HeldBy, AtOffer
<1>2. pc' = [pc EXCEPT ![p] = "consider"] /\ loc' = [loc EXCEPT ![p] = loc[p]]
  BY DEF Activate, Goto, MarketInv, TypeOK
<1>3. "active" \in OfferStatuses /\ "consider" \in Labels BY DEF OfferStatuses, Labels
<1>4. HeldBy("consider", loc[p]) BY <1>1, HoldsOffer
<1>5. /\ offer' \in [Offers -> OfferDoc]
      /\ \A q \in Offers : \/ offer'[q] = offer[q]
                           \/ /\ Made(q) /\ Made(q)'
                              /\ offer'[q].available = offer[q].available
                              /\ offer'[q].remaining = offer[q].remaining
  BY <1>1, <1>3, StatusWritten DEF Activate
<1>6. UNCHANGED <<taken, now, paid>> BY DEF Activate
<1> QED BY <1>1, <1>2, <1>3, <1>4, <1>5, <1>6, StatusesChange

LEMMA MarkDepletedSafe == ASSUME MarketInv, NEW p \in Proc, MarkDepleted(p) PROVE MarketInv'
<1> DEFINE S == {o \in Offers : offer[o].status = "active" /\ offer[o].remaining <= 0}
<1>1. loc[p] \in Locals BY HandlerTyped
<1>2. pc' = [pc EXCEPT ![p] = "findRestocked"] /\ loc' = [loc EXCEPT ![p] = loc[p]]
  BY DEF MarkDepleted, Goto, MarketInv, TypeOK
<1>3. UpdateMany(S, "sold_out") /\ \A o \in Offers : o \in S => Made(o) BY DEF MarkDepleted, Made
<1>4. /\ "findRestocked" \in Labels /\ "findRestocked" \notin AtOffer \cup {"create"}
      /\ "sold_out" \in OfferStatuses
  BY DEF Labels, AtOffer, OfferStatuses
<1>5. HeldBy("findRestocked", loc[p]) BY <1>4, HoldsNone
<1>6. UNCHANGED <<taken, now, paid>> BY DEF MarkDepleted
<1> HIDE DEF S
<1> QED BY <1>1, <1>2, <1>3, <1>4, <1>5, <1>6, PassWrites

LEMMA ReadSubscriptionSafe == ASSUME MarketInv, NEW p \in Proc, ReadSubscription(p) PROVE MarketInv'
<1> DEFINE held == [loc[p] EXCEPT !.access = paid]
<1>1. held \in Locals /\ held.todo = loc[p].todo /\ held.resized = loc[p].resized
  <2>1. loc[p] \in Locals /\ paid \in BOOLEAN BY HandlerTyped DEF MarketInv, TypeOK
  <2> QED BY <2>1 DEF Locals
<1>2. pc' = [pc EXCEPT ![p] = "suspend"] /\ loc' = [loc EXCEPT ![p] = held]
  BY DEF ReadSubscription, Goto, Hold
<1>3. "suspend" \in Labels /\ "suspend" \notin AtOffer \cup {"create"} BY DEF Labels, AtOffer
<1> HIDE DEF held
<1>4. HeldBy("suspend", held) BY <1>1, <1>3, HoldsNone
<1> QED BY <1>1, <1>2, <1>3, <1>4, HandlerMoves DEF ReadSubscription

LEMMA SuspendOrRestoreSafe == ASSUME MarketInv, NEW p \in Proc, SuspendOrRestore(p) PROVE MarketInv'
<1>1. Finish(p) /\ UNCHANGED <<taken, now, paid>> BY DEF SuspendOrRestore
<1>2. "scheduled" \in OfferStatuses /\ "suspended" \in OfferStatuses BY DEF OfferStatuses
<1> DEFINE S == {o \in Offers : offer[o].status = "suspended"}
           T == {o \in Offers : offer[o].status \in {"active", "scheduled", "sold_out"}}
<1>3. UpdateMany(S, "scheduled") \/ UpdateMany(T, "suspended") BY DEF SuspendOrRestore
<1>4. \A o \in Offers : (o \in S => Made(o)) /\ (o \in T => Made(o)) BY DEF Made
<1> HIDE DEF S, T
<1>5. CASE UpdateMany(S, "scheduled") BY <1>1, <1>2, <1>4, <1>5, FinishHolds, PassWrites
<1>6. CASE UpdateMany(T, "suspended") BY <1>1, <1>2, <1>4, <1>6, FinishHolds, PassWrites
<1> QED BY <1>3, <1>5, <1>6

-------------------------------------------------------------------------------
(* The clock, the subscription and steps of other systems. *)
LEMMA WorldSafe ==
    ASSUME MarketInv, UNCHANGED <<offer, taken, pc, loc>>,
           now' \in 0..Horizon, paid' \in BOOLEAN
    PROVE  MarketInv'
<1>1. TypeOK' BY DEF MarketInv, TypeOK
<1>2. \A p \in Proc : HeldBy(pc[p], loc[p])' BY DEF MarketInv, HeldBy, Made
<1>3. NothingTakenUnmade' /\ BooksBalance'
  BY DEF MarketInv, NothingTakenUnmade, BooksBalance, Made
<1> QED BY <1>1, <1>2, <1>3 DEF MarketInv

LEMMA MarketStep == ASSUME MarketInv, [Next]_vars PROVE MarketInv'
<1>1. ASSUME NEW p \in Proc, CustomerStep(p) PROVE MarketInv'
  BY <1>1, ReadOfferSafe, ReserveUnitsSafe, StockLeftSafe, NoStockLeftSafe, MarkSoldOutSafe,
     ReturnUnitsSafe, CheckReopenSafe, ReopenSafe DEF CustomerStep
<1>2. ASSUME NEW p \in Proc, ManagerStep(p) PROVE MarketInv'
  BY <1>2, CreateOfferSafe, ApproveRecommendationSafe, WriteCreatedSafe, UpdateOfferSafe,
     WriteUpdateSafe, ReadCancellableSafe, CancelOfferSafe DEF ManagerStep
<1>3. ASSUME NEW p \in Proc, CronStep(p) PROVE MarketInv'
  BY <1>3, ExpireSafe, DemoteSafe, FindScheduledSafe, ConsiderSafe, ActivateSafe, MarkDepletedSafe,
     FindRestockedSafe, ReadSubscriptionSafe, SuspendOrRestoreSafe DEF CronStep
<1>4. CASE Tick
  <2>1. now' \in 0..Horizon /\ paid \in BOOLEAN
    BY <1>4, MarketAssumption DEF Tick, MarketInv, TypeOK
  <2> QED BY <1>4, <2>1, WorldSafe DEF Tick
<1>5. CASE SubscriptionChanges
  <2>1. now \in 0..Horizon /\ paid' \in BOOLEAN BY <1>5 DEF SubscriptionChanges, MarketInv, TypeOK
  <2> QED BY <1>5, <2>1, WorldSafe DEF SubscriptionChanges
<1>6. CASE UNCHANGED vars
  <2>1. now \in 0..Horizon /\ paid \in BOOLEAN BY DEF MarketInv, TypeOK
  <2> QED BY <1>6, <2>1, WorldSafe DEF vars
<1> QED BY <1>1, <1>2, <1>3, <1>4, <1>5, <1>6 DEF Next

(* Every reachable state is well typed, updates of any kind included.      *)
THEOREM MarketTypeCorrect == Spec => []TypeOK
<1>1. MarketInv => TypeOK BY DEF MarketInv
<1> QED BY <1>1, MarketInit, MarketStep, PTL DEF Spec

(* However checkouts, returned orders, managers and the cron interleave,   *)
(* no unit a merchant offers is lost or sold twice (createOrder,           *)
(* restockFromCancelledOrderItem, processStatusTransitions).               *)
THEOREM UnitsCorrect == ASSUME MayResize = FALSE PROVE Spec => []UnitsConserved
<1>1. MarketInv => UnitsConserved BY DEF MarketInv, BooksBalance, Balances, UnitsConserved
<1> QED BY <1>1, MarketInit, MarketStep, PTL DEF Spec
-------------------------------------------------------------------------------
(* Requests and ticks of the cron one after another, with updates of any   *)
(* kind, by any number of processes.  What a handler read is then still so *)
(* when it writes.                                                         *)
Serial == \A p, q \in Proc : pc[p] # "idle" /\ pc[q] # "idle" => p = q

(* Windows that share no moment, the ends included.                        *)
Separate(v, w) == v.end < w.start \/ w.end < v.start

ApartFromActive(w, except) ==
    \A q \in Offers \ {except} : offer[q].status = "active" => Separate(w, offer[q])

ActiveApart == \A o \in Offers : offer[o].status = "active" => ApartFromActive(offer[o], o)

(* An update that was checked: its quantity leaves what is sold as it is,  *)
(* and an offer that becomes or stays active meets no other active one.    *)
Fits(held) ==
    /\ held.resized => /\ held.body.remaining >= 0
                       /\ held.body.available - held.body.remaining = SoldOf(offer[held.id])
    /\ held.body.status = "active" => ~ActiveConflict(held.id)
    /\ held.body.status = "none" /\ held.moved => ApartFromActive(held.body, held.id)

Sure(label, held) ==
    /\ label \in AtOffer => held.id \in Offers /\ Made(held.id)
    /\ label \in AtOffer \ {"reopenCheck"} => Unfinished(held.id)
    /\ \A o \in held.todo : Unfinished(o)
    /\ label \notin {"consider", "activate"} => held.todo = {}
    /\ label = "reserve" => held.units <= offer[held.id].remaining
    /\ label \in {"reopen", "activate"} => ~ActiveConflict(held.id)
    /\ label = "create" => /\ held.body.status # "none"
                           /\ held.body.remaining = held.body.available
                           /\ held.body.status = "active" => ApartFromActive(held.body, NoOffer)
    /\ label = "write" => Fits(held)

BooksOK == /\ NothingTakenUnmade
           /\ UnitsConserved
           /\ \A o \in Offers : offer[o].remaining >= 0
           /\ ActiveApart

SerialInv == TypeOK /\ BooksOK /\ \A p \in Proc : Sure(pc[p], loc[p])

LEMMA SeparateEither == ASSUME NEW v, NEW w, Separate(v, w) PROVE Separate(w, v)
BY DEF Separate

FinishedKept == \A o \in Offers : offer[o].status \in {"cancelled", "expired"}
                                     => offer'[o].status = offer[o].status

LEMMA SerialInit == Init => SerialInv
<1> SUFFICES ASSUME Init PROVE SerialInv OBVIOUS
<1>1. TypeOK /\ NothingTakenUnmade /\ UnitsConserved
  BY MarketInit DEF MarketInv, Init, NoDoc, UnitsConserved
<1>2. \A o \in Offers : offer[o] = NoDoc BY DEF Init
<1>3. \A o \in Offers : offer[o].status = "none" /\ offer[o].remaining = 0 BY <1>2 DEF NoDoc
<1>4. BooksOK BY <1>1, <1>3 DEF BooksOK, ActiveApart
<1>5. \A p \in Proc : Sure(pc[p], loc[p]) BY NoLocalsTyped DEF Init, Sure, AtOffer
<1> QED BY <1>1, <1>4, <1>5 DEF SerialInv

(* What a step has to show when nobody else is at work.                    *)
LEMMA Alone ==
    ASSUME Serial, Serial', SerialInv, NEW p \in Proc, NEW label \in Labels, NEW held \in Locals,
           pc' = [pc EXCEPT ![p] = label], loc' = [loc EXCEPT ![p] = held],
           offer' \in [Offers -> OfferDoc], taken' \in [Offers -> [open : Int, held : Int]],
           now' = now, paid' = paid, BooksOK', Sure(label, held)',
           pc[p] # "idle" \/ label # "idle"
    PROVE  SerialInv'
<1>1. TypeOK' BY DEF SerialInv, TypeOK
<1>2. ASSUME NEW q \in Proc PROVE Sure(pc[q], loc[q])'
  <2>1. CASE q # p
    <3>1. pc'[q] = pc[q] /\ loc'[q] = loc[q] /\ pc'[p] = label BY <2>1 DEF SerialInv, TypeOK
    <3>2. pc[q] = "idle" BY <2>1, <3>1 DEF Serial
    <3>3. Sure("idle", loc[q]) BY <3>2 DEF SerialInv
    <3>4. loc[q].todo = {} BY <3>3 DEF Sure
    <3> QED BY <3>1, <3>2, <3>4 DEF Sure, AtOffer
  <2>2. CASE q = p
    <3>1. pc'[q] = label /\ loc'[q] = held BY <2>2 DEF SerialInv, TypeOK
    <3> QED
      BY <3>1
      DEF Sure, Fits, ApartFromActive, ActiveConflict, Separate, SoldOf, Made, Unfinished
  <2> QED BY <2>1, <2>2
<1> QED BY <1>1, <1>2 DEF SerialInv

LEMMA SerialTyped ==
    ASSUME SerialInv, NEW p \in Proc
    PROVE  /\ loc[p] \in Locals /\ pc[p] \in Labels /\ Sure(pc[p], loc[p])
           /\ \A o \in Offers : /\ offer[o] \in OfferDoc /\ taken[o] \in [open : Int, held : Int]
                                /\ offer[o].remaining >= 0
                                /\ offer[o].available = offer[o].remaining + taken[o].open + taken[o].held
                                /\ offer[o].status = "active" => ApartFromActive(offer[o], o)
BY DEF SerialInv, TypeOK, BooksOK, UnitsConserved, ActiveApart

(* Steps that only move the handler.                                       *)
LEMMA SerialMoves ==
    ASSUME SerialInv, NEW p \in Proc, NEW label \in Labels, NEW held \in Locals,
           pc' = [pc EXCEPT ![p] = label], loc' = [loc EXCEPT ![p] = held],
           Sure(label, held), UNCHANGED <<offer, taken, now, paid>>
    PROVE  SerialInv' /\ FinishedKept
<1>1. TypeOK' BY DEF SerialInv, TypeOK
<1>2. ASSUME NEW q \in Proc PROVE Sure(pc[q], loc[q])'
  <2>1. \/ pc'[q] = pc[q] /\ loc'[q] = loc[q] /\ Sure(pc[q], loc[q])
        \/ pc'[q] = label /\ loc'[q] = held
    BY DEF SerialInv, TypeOK
  <2> QED
    BY <2>1 DEF Sure, Fits, ApartFromActive, ActiveConflict, Separate, SoldOf, Made, Unfinished
<1>3. BooksOK'
  BY DEF SerialInv, BooksOK, NothingTakenUnmade, UnitsConserved, ActiveApart, ApartFromActive, Made
<1> QED BY <1>1, <1>2, <1>3 DEF SerialInv, FinishedKept

(* Steps that write one offer and its units, in balance.                   *)
LEMMA OneWritten ==
    ASSUME SerialInv, NEW o \in Offers, NEW doc \in OfferDoc, NEW units \in [open : Int, held : Int],
           offer' = [offer EXCEPT ![o] = doc], taken' = [taken EXCEPT ![o] = units],
           doc.status # "none", doc.remaining >= 0,
           doc.available = doc.remaining + units.open + units.held,
           doc.status = "active" => ApartFromActive(doc, o),
           Unfinished(o) \/ offer[o].status \in {"none", doc.status}
    PROVE  /\ offer' \in [Offers -> OfferDoc] /\ taken' \in [Offers -> [open : Int, held : Int]]
           /\ BooksOK' /\ FinishedKept
           /\ offer'[o] = doc /\ \A q \in Offers \ {o} : offer'[q] = offer[q]
<1>1. /\ offer' \in [Offers -> OfferDoc] /\ taken' \in [Offers -> [open : Int, held : Int]]
      /\ offer'[o] = doc /\ taken'[o] = units
      /\ \A q \in Offers \ {o} : offer'[q] = offer[q] /\ taken'[q] = taken[q]
  BY DEF SerialInv, TypeOK
<1>2. NothingTakenUnmade' BY <1>1 DEF SerialInv, BooksOK, NothingTakenUnmade, Made
<1>3. UnitsConserved' BY <1>1 DEF SerialInv, BooksOK, UnitsConserved
<1>4. \A q \in Offers : offer'[q].remaining >= 0 BY <1>1 DEF SerialInv, BooksOK
<1>5. ASSUME NEW a \in Offers, NEW q \in Offers \ {a},
             offer'[a].status = "active", offer'[q].status = "active"
      PROVE  Separate(offer'[a], offer'[q])
  <2>1. CASE a = o BY <1>1, <1>5, <2>1 DEF ApartFromActive
  <2>2. CASE q = o
    <3>1. Separate(offer'[q], offer'[a]) BY <1>1, <1>5, <2>2 DEF ApartFromActive
    <3> QED BY <3>1, SeparateEither
  <2>3. CASE a # o /\ q # o
    BY <1>1, <1>5, <2>3 DEF SerialInv, BooksOK, ActiveApart, ApartFromActive
  <2> QED BY <2>1, <2>2, <2>3
<1>6. ActiveApart' BY <1>5 DEF ActiveApart, ApartFromActive, Separate
<1>7. FinishedKept BY <1>1 DEF FinishedKept, Unfinished
<1>8. BooksOK' BY <1>2, <1>3, <1>4, <1>6 DEF BooksOK
<1> QED BY <1>1, <1>7, <1>8

(* Passes of the cron: no offer becomes active in one.                     *)
LEMMA ManyRelabelled ==
    ASSUME SerialInv, NEW S, \A o \in Offers : o \in S => Unfinished(o),
           NEW status \in OfferStatuses \ {"active"}, UpdateMany(S, status), UNCHANGED taken
    PROVE  /\ offer' \in [Offers -> OfferDoc] /\ taken' \in [Offers -> [open : Int, held : Int]]
           /\ BooksOK' /\ FinishedKept
<1>1. \A o \in Offers : offer[o] \in OfferDoc BY DEF SerialInv, TypeOK
<1>2. \A o \in Offers : offer'[o] = IF o \in S THEN [offer[o] EXCEPT !.status = status] ELSE offer[o]
  BY DEF UpdateMany
<1>3. ASSUME NEW o \in Offers
      PROVE  /\ offer'[o] \in OfferDoc
             /\ offer'[o].available = offer[o].available /\ offer'[o].remaining = offer[o].remaining
             /\ offer'[o].start = offer[o].start /\ offer'[o].end = offer[o].end
             /\ \/ offer'[o].status = offer[o].status
                \/ Unfinished(o) /\ offer'[o].status = status
  <2>1. CASE o \in S
    <3>1. offer'[o] = [offer[o] EXCEPT !.status = status] /\ Unfinished(o) BY <1>2, <2>1
    <3>2. offer[o] \in OfferDoc BY <1>1
    <3> QED BY <3>1, <3>2 DEF OfferDoc
  <2>2. CASE o \notin S
    <3>1. offer'[o] = offer[o] BY <1>2, <2>2
    <3> QED BY <1>1, <3>1
  <2> QED BY <2>1, <2>2
<1>4. offer' \in [Offers -> OfferDoc]
  <2>1. offer' = [o \in Offers |-> offer'[o]] BY DEF UpdateMany
  <2>2. \A o \in Offers : offer'[o] \in OfferDoc BY <1>3
  <2> QED BY <2>1, <2>2
<1>5. NothingTakenUnmade'
  <2>1. status # "none" BY DEF OfferStatuses
  <2> QED BY <1>3, <2>1 DEF SerialInv, BooksOK, NothingTakenUnmade, Made
<1>6. UnitsConserved' BY <1>3 DEF SerialInv, BooksOK, UnitsConserved
<1>7. \A q \in Offers : offer'[q].remaining >= 0 BY <1>3 DEF SerialInv, BooksOK
<1>8. ActiveApart'
  <2>1. \A o \in Offers : offer'[o].status = "active" => offer[o].status = "active" BY <1>3
  <2> QED BY <1>3, <2>1 DEF SerialInv, BooksOK, ActiveApart, ApartFromActive, Separate
<1>9. FinishedKept BY <1>3 DEF FinishedKept, Unfinished
<1>10. BooksOK' BY <1>5, <1>6, <1>7, <1>8 DEF BooksOK
<1>11. taken' \in [Offers -> [open : Int, held : Int]] BY DEF SerialInv, TypeOK
<1> QED BY <1>4, <1>9, <1>10, <1>11

(* A handler that ends is sure of everything.                              *)
LEMMA FinishSure ==
    ASSUME NEW p \in Proc, Finish(p)
    PROVE  /\ pc' = [pc EXCEPT ![p] = "idle"] /\ loc' = [loc EXCEPT ![p] = NoLocals]
           /\ "idle" \in Labels /\ NoLocals \in Locals
           /\ Sure("idle", NoLocals) /\ Sure("idle", NoLocals)'
BY NoLocalsTyped DEF Finish, Labels, Sure, AtOffer

(* A handler that writes an offer and ends.                                *)
LEMMA WritesAndEnds ==
    ASSUME Serial, Serial', SerialInv, NEW p \in Proc, pc[p] # "idle",
           Finish(p), UNCHANGED <<now, paid>>,
           NEW o \in Offers, NEW doc \in OfferDoc, NEW units \in [open : Int, held : Int],
           offer' = [offer EXCEPT ![o] = doc], taken' = [taken EXCEPT ![o] = units],
           doc.status # "none", doc.remaining >= 0,
           doc.available = doc.remaining + units.open + units.held,
           doc.status = "active" => ApartFromActive(doc, o),
           Unfinished(o) \/ offer[o].status \in {"none", doc.status}
    PROVE  SerialInv' /\ FinishedKept
<1>1. /\ offer' \in [Offers -> OfferDoc] /\ taken' \in [Offers -> [open : Int, held : Int]]
      /\ BooksOK' /\ FinishedKept
  BY OneWritten
<1> QED BY <1>1, FinishSure, Alone

(* Alone among the offers, one that becomes active meets no active one.    *)
LEMMA NoneActive ==
    ASSUME NEW o \in Offers, ~ActiveConflict(o), NEW w PROVE ApartFromActive(w, o)
BY DEF ActiveConflict, ApartFromActive

-------------------------------------------------------------------------------
LEMMA ReadOfferSerial ==
    ASSUME Serial, Serial', SerialInv, NEW p \in Proc, ReadOffer(p) PROVE SerialInv' /\ FinishedKept
<1>1. PICK o \in Offers, q \in 1..MaxUnits :
        /\ offer[o].status = "active" /\ q <= offer[o].remaining
        /\ Hold(p, [loc[p] EXCEPT !.id = o, !.units = q])
  BY DEF ReadOffer
<1> DEFINE held == [loc[p] EXCEPT !.id = o, !.units = q]
<1>2. q \in Nat BY MarketAssumption
<1>3. held \in Locals /\ held.id = o /\ held.units = q /\ held.todo = loc[p].todo
  <2>1. loc[p] \in Locals BY SerialTyped
  <2> QED BY <1>2, <2>1 DEF Locals
<1>4. pc' = [pc EXCEPT ![p] = "reserve"] /\ loc' = [loc EXCEPT ![p] = held]
  BY <1>1 DEF ReadOffer, Goto, Hold
<1>5. "reserve" \in Labels BY DEF Labels
<1>6. loc[p].todo = {} BY SerialTyped DEF Sure, ReadOffer
<1> HIDE DEF held
<1>7. Sure("reserve", held) BY <1>1, <1>3, <1>6 DEF Sure, Made, Unfinished
<1> QED BY <1>3, <1>4, <1>5, <1>7, SerialMoves DEF ReadOffer

LEMMA ReserveUnitsSerial ==
    ASSUME Serial, Serial', SerialInv, NEW p \in Proc, ReserveUnits(p) PROVE SerialInv' /\ FinishedKept
<1>7. PICK held \in Locals : held = loc[p] BY SerialTyped
<1>0. PICK o \in Offers, n \in Nat :
        /\ o = held.id /\ n = held.units /\ n <= offer[o].remaining
        /\ Made(o) /\ Unfinished(o) /\ held.todo = {}
  BY <1>7, SerialTyped DEF ReserveUnits, Sure, AtOffer, Locals
<1> DEFINE doc   == [offer[o] EXCEPT !.remaining = offer[o].remaining - n]
           units == [taken[o] EXCEPT !.open = taken[o].open + n]
<1>2. /\ offer[o] \in OfferDoc /\ taken[o] \in [open : Int, held : Int]
      /\ offer[o].available = offer[o].remaining + taken[o].open + taken[o].held
      /\ offer[o].status = "active" => ApartFromActive(offer[o], o)
  BY SerialTyped
<1>3. offer' = [offer EXCEPT ![o] = doc] /\ taken' = [taken EXCEPT ![o] = units]
  BY <1>0, <1>7 DEF ReserveUnits
<1>4. pc' = [pc EXCEPT ![p] = "recheck"] /\ loc' = [loc EXCEPT ![p] = held]
  BY <1>7 DEF ReserveUnits, Goto, SerialInv, TypeOK
<1>5. /\ doc \in OfferDoc /\ units \in [open : Int, held : Int]
      /\ doc.status = offer[o].status /\ doc.start = offer[o].start /\ doc.end = offer[o].end
      /\ doc.remaining >= 0 /\ doc.available = doc.remaining + units.open + units.held
  BY <1>0, <1>2 DEF OfferDoc
<1>6. "recheck" \in Labels /\ UNCHANGED <<now, paid>> BY DEF Labels, ReserveUnits
<1> HIDE DEF doc, units
<1>8. doc.status = "active" => ApartFromActive(doc, o)
  BY <1>2, <1>5 DEF ApartFromActive, Separate
<1>9. doc.status # "none" BY <1>0, <1>5 DEF Made
<1>10. /\ offer' \in [Offers -> OfferDoc] /\ taken' \in [Offers -> [open : Int, held : Int]]
       /\ BooksOK' /\ FinishedKept /\ offer'[o] = doc
  BY <1>0, <1>3, <1>5, <1>8, <1>9, OneWritten
<1>11. Sure("recheck", held)' BY <1>0, <1>5, <1>10 DEF Sure, AtOffer, Made, Unfinished
<1> QED BY <1>4, <1>6, <1>10, <1>11, Alone

(* The units of a basket become units of an order. *)
LEMMA PlaceOrderSerial ==
    ASSUME SerialInv, NEW p \in Proc, pc[p] \in {"recheck", "markSoldOut"}, PlaceOrder(p)
    PROVE  \E units \in [open : Int, held : Int] :
              /\ taken' = [taken EXCEPT ![loc[p].id] = units]
              /\ loc[p].id \in Offers /\ Made(loc[p].id) /\ Unfinished(loc[p].id)
              /\ offer[loc[p].id] \in OfferDoc /\ offer[loc[p].id].remaining >= 0
              /\ offer[loc[p].id].available = offer[loc[p].id].remaining + units.open + units.held
              /\ offer[loc[p].id].status = "active" => ApartFromActive(offer[loc[p].id], loc[p].id)
<1> DEFINE o     == loc[p].id
           units == [open |-> taken[o].open - loc[p].units, held |-> taken[o].held + loc[p].units]
<1>1. o \in Offers /\ Made(o) /\ Unfinished(o) /\ loc[p].units \in Nat
  BY SerialTyped DEF Sure, AtOffer, Locals
<1>2. /\ offer[o] \in OfferDoc /\ taken[o] \in [open : Int, held : Int] /\ offer[o].remaining >= 0
      /\ offer[o].available = offer[o].remaining + taken[o].open + taken[o].held
      /\ offer[o].status = "active" => ApartFromActive(offer[o], o)
  BY <1>1, SerialTyped
<1>3. units \in [open : Int, held : Int] BY <1>1, <1>2
<1>4. offer[o].available = offer[o].remaining + units.open + units.held BY <1>1, <1>2 DEF OfferDoc
<1>5. taken' = [taken EXCEPT ![o] = units] BY DEF PlaceOrder
<1>6. loc[p].id = o OBVIOUS
<1> HIDE DEF o, units
<1> QED BY <1>1, <1>2, <1>3, <1>4, <1>5, <1>6

LEMMA StockLeftSerial ==
    ASSUME Serial, Serial', SerialInv, NEW p \in Proc, StockLeft(p) PROVE SerialInv' /\ FinishedKept
<1>1. PICK units \in [open : Int, held : Int] :
        /\ taken' = [taken EXCEPT ![loc[p].id] = units]
        /\ loc[p].id \in Offers /\ Made(loc[p].id) /\ Unfinished(loc[p].id)
        /\ offer[loc[p].id] \in OfferDoc /\ offer[loc[p].id].remaining >= 0
        /\ offer[loc[p].id].available = offer[loc[p].id].remaining + units.open + units.held
        /\ offer[loc[p].id].status = "active" => ApartFromActive(offer[loc[p].id], loc[p].id)
  BY PlaceOrderSerial DEF StockLeft
<1>2. offer' = [offer EXCEPT ![loc[p].id] = offer[loc[p].id]] BY DEF StockLeft, SerialInv, TypeOK
<1>3. Finish(p) /\ UNCHANGED <<now, paid>> /\ pc[p] # "idle" BY DEF StockLeft
<1> QED BY <1>1, <1>2, <1>3, WritesAndEnds DEF Made

LEMMA NoStockLeftSerial ==
    ASSUME Serial, Serial', SerialInv, NEW p \in Proc, NoStockLeft(p) PROVE SerialInv' /\ FinishedKept
<1>1. pc' = [pc EXCEPT ![p] = "markSoldOut"] /\ loc' = [loc EXCEPT ![p] = loc[p]]
  BY DEF NoStockLeft, Goto, SerialInv, TypeOK
<1>2. "markSoldOut" \in Labels /\ UNCHANGED <<offer, taken, now, paid>> BY DEF Labels, NoStockLeft
<1>3. Sure("markSoldOut", loc[p]) BY SerialTyped DEF NoStockLeft, Sure, AtOffer
<1>4. loc[p] \in Locals BY SerialTyped
<1> QED BY <1>1, <1>2, <1>3, <1>4, SerialMoves

LEMMA MarkSoldOutSerial ==
    ASSUME Serial, Serial', SerialInv, NEW p \in Proc, MarkSoldOut(p) PROVE SerialInv' /\ FinishedKept
<1>1. PICK units \in [open : Int, held : Int] :
        /\ taken' = [taken EXCEPT ![loc[p].id] = units]
        /\ loc[p].id \in Offers /\ Unfinished(loc[p].id)
        /\ offer[loc[p].id] \in OfferDoc /\ offer[loc[p].id].remaining >= 0
        /\ offer[loc[p].id].available = offer[loc[p].id].remaining + units.open + units.held
  BY PlaceOrderSerial DEF MarkSoldOut
<1> DEFINE doc == [offer[loc[p].id] EXCEPT !.status = "sold_out"]
<1>2. offer' = [offer EXCEPT ![loc[p].id] = doc] BY DEF MarkSoldOut, Status
<1>3. /\ doc \in OfferDoc /\ doc.status = "sold_out"
      /\ doc.remaining = offer[loc[p].id].remaining /\ doc.available = offer[loc[p].id].available
  BY <1>1 DEF OfferDoc, OfferStatuses
<1>4. Finish(p) /\ UNCHANGED <<now, paid>> /\ pc[p] # "idle" BY DEF MarkSoldOut
<1> HIDE DEF doc
<1> QED BY <1>1, <1>2, <1>3, <1>4, WritesAndEnds

LEMMA ReturnUnitsSerial ==
    ASSUME Serial, Serial', SerialInv, NEW p \in Proc, ReturnUnits(p) PROVE SerialInv' /\ FinishedKept
<1>0. PICK o \in Offers : \E q \in 1..taken[o].held :
        /\ offer' = [offer EXCEPT ![o].remaining = @ + q]
        /\ taken' = [taken EXCEPT ![o].held = @ - q]
        /\ Hold(p, [loc[p] EXCEPT !.id = o])
  BY DEF ReturnUnits
<1>1. PICK q \in 1..taken[o].held :
        /\ offer' = [offer EXCEPT ![o].remaining = @ + q]
        /\ taken' = [taken EXCEPT ![o].held = @ - q]
        /\ Hold(p, [loc[p] EXCEPT !.id = o])
  BY <1>0
<1> DEFINE doc   == [offer[o] EXCEPT !.remaining = offer[o].remaining + q]
           units == [taken[o] EXCEPT !.held = taken[o].held - q]
<1>2. /\ offer[o] \in OfferDoc /\ taken[o] \in [open : Int, held : Int] /\ offer[o].remaining >= 0
      /\ offer[o].available = offer[o].remaining + taken[o].open + taken[o].held
      /\ offer[o].status = "active" => ApartFromActive(offer[o], o)
  BY SerialTyped
<1>3. q \in Nat /\ taken[o].held >= 1 BY <1>2
<1>4. Made(o) BY <1>3 DEF SerialInv, BooksOK, NothingTakenUnmade
<1>5. offer' = [offer EXCEPT ![o] = doc] /\ taken' = [taken EXCEPT ![o] = units] BY <1>1
<1>6. /\ doc \in OfferDoc /\ units \in [open : Int, held : Int]
      /\ doc.status = offer[o].status /\ doc.start = offer[o].start /\ doc.end = offer[o].end
      /\ doc.remaining >= 0 /\ doc.available = doc.remaining + units.open + units.held
  BY <1>2, <1>3 DEF OfferDoc
<1>7. PICK held \in Locals : held = [loc[p] EXCEPT !.id = o] /\ held.id = o /\ held.todo = {}
  <2>1. loc[p] \in Locals /\ loc[p].todo = {} BY SerialTyped DEF Sure, ReturnUnits
  <2>2. /\ [loc[p] EXCEPT !.id = o] \in Locals /\ [loc[p] EXCEPT !.id = o].id = o
        /\ [loc[p] EXCEPT !.id = o].todo = {}
    BY <2>1 DEF Locals
  <2> QED BY <2>2
<1>8. pc' = [pc EXCEPT ![p] = "reopenCheck"] /\ loc' = [loc EXCEPT ![p] = held]
  BY <1>1, <1>7 DEF ReturnUnits, Goto, Hold
<1>9. "reopenCheck" \in Labels /\ UNCHANGED <<now, paid>> BY DEF Labels, ReturnUnits
<1> HIDE DEF doc, units
<1>10. doc.status = "active" => ApartFromActive(doc, o)
  BY <1>2, <1>6 DEF ApartFromActive, Separate
<1>11. /\ offer' \in [Offers -> OfferDoc] /\ taken' \in [Offers -> [open : Int, held : Int]]
       /\ BooksOK' /\ FinishedKept /\ offer'[o] = doc
  <2>1. doc.status # "none" BY <1>4, <1>6 DEF Made
  <2>2. Unfinished(o) \/ offer[o].status \in {"none", doc.status} BY <1>6
  <2> QED BY <1>5, <1>6, <1>10, <2>1, <2>2, OneWritten
<1>12. Sure("reopenCheck", held)' BY <1>4, <1>6, <1>7, <1>11 DEF Sure, AtOffer, Made
<1> QED BY <1>7, <1>8, <1>9, <1>11, <1>12, Alone

LEMMA CheckReopenSerial ==
    ASSUME Serial, Serial', SerialInv, NEW p \in Proc, CheckReopen(p) PROVE SerialInv' /\ FinishedKept
<1>1. CASE Reopens(loc[p].id)
  <2>1. pc' = [pc EXCEPT ![p] = "reopen"] /\ loc' = [loc EXCEPT ![p] = loc[p]]
    BY <1>1 DEF CheckReopen, Goto, SerialInv, TypeOK
  <2>2. "reopen" \in Labels /\ UNCHANGED <<offer, taken, now, paid>> BY DEF Labels, CheckReopen
  <2>3. Sure("reopen", loc[p])
    BY <1>1, SerialTyped DEF CheckReopen, Reopens, Sure, AtOffer, Unfinished
  <2>4. loc[p] \in Locals BY SerialTyped
  <2> QED BY <2>1, <2>2, <2>3, <2>4, SerialMoves
<1>2. CASE ~Reopens(loc[p].id)
  <2>1. Finish(p) /\ UNCHANGED <<offer, taken, now, paid>> BY <1>2 DEF CheckReopen
  <2> QED BY <2>1, FinishSure, SerialMoves
<1> QED BY <1>1, <1>2

(* A status written to one offer by a handler that ends.                   *)
LEMMA StatusAndEnd ==
    ASSUME Serial, Serial', SerialInv, NEW p \in Proc, pc[p] # "idle",
           Finish(p), UNCHANGED <<taken, now, paid>>,
           NEW o \in Offers, Unfinished(o), NEW status \in OfferStatuses, Status(o, status),
           status = "active" => ~ActiveConflict(o)
    PROVE  SerialInv' /\ FinishedKept
<1> DEFINE doc == [offer[o] EXCEPT !.status = status]
<1>0. PICK units \in [open : Int, held : Int] : units = taken[o] BY SerialTyped
<1>1. /\ offer[o] \in OfferDoc /\ offer[o].remaining >= 0
      /\ offer[o].available = offer[o].remaining + units.open + units.held
  BY <1>0, SerialTyped
<1>2. offer' = [offer EXCEPT ![o] = doc] BY DEF Status
<1>3. taken' = [taken EXCEPT ![o] = units] BY <1>0 DEF SerialInv, TypeOK
<1>4. /\ doc \in OfferDoc /\ doc.status = status
      /\ doc.remaining = offer[o].remaining /\ doc.available = offer[o].available
  BY <1>1 DEF OfferDoc
<1>5. status # "none" BY DEF OfferStatuses
<1> HIDE DEF doc
<1>6. doc.status = "active" => ApartFromActive(doc, o) BY <1>4, NoneActive
<1>7. /\ doc.status # "none" /\ doc.remaining >= 0
      /\ doc.available = doc.remaining + units.open + units.held
  BY <1>1, <1>4, <1>5
<1>8. UNCHANGED <<now, paid>> OBVIOUS
<1> QED BY <1>2, <1>3, <1>4, <1>6, <1>7, <1>8, WritesAndEnds

LEMMA ReopenSerial ==
    ASSUME Serial, Serial', SerialInv, NEW p \in Proc, Reopen(p) PROVE SerialInv' /\ FinishedKept
<1>1. loc[p].id \in Offers /\ Unfinished(loc[p].id) /\ ~ActiveConflict(loc[p].id)
  BY SerialTyped DEF Reopen, Sure, AtOffer
<1>2. "active" \in OfferStatuses BY DEF OfferStatuses
<1> QED BY <1>1, <1>2, StatusAndEnd DEF Reopen

-------------------------------------------------------------------------------
LEMMA CreationSerial ==
    ASSUME Serial, Serial', SerialInv, NEW p \in Proc, pc[p] = "idle", NEW body \in OfferDoc,
           body.status # "none", body.remaining = body.available,
           body.status = "active" => ApartFromActive(body, NoOffer),
           Hold(p, [loc[p] EXCEPT !.body = body]), Goto(p, "create"),
           UNCHANGED <<offer, taken, now, paid>>
    PROVE  SerialInv' /\ FinishedKept
<1>1. PICK held \in Locals : /\ held = [loc[p] EXCEPT !.body = body]
                             /\ held.body = body /\ held.todo = {}
  <2>1. loc[p] \in Locals /\ loc[p].todo = {} BY SerialTyped DEF Sure
  <2>2. /\ [loc[p] EXCEPT !.body = body] \in Locals
        /\ [loc[p] EXCEPT !.body = body].body = body /\ [loc[p] EXCEPT !.body = body].todo = {}
    BY <2>1 DEF Locals
  <2> QED BY <2>2
<1>2. pc' = [pc EXCEPT ![p] = "create"] /\ loc' = [loc EXCEPT ![p] = held]
  BY <1>1 DEF Goto, Hold
<1>3. "create" \in Labels /\ Sure("create", held) BY <1>1 DEF Labels, Sure, AtOffer
<1> QED BY <1>2, <1>3, SerialMoves

(* The window asked for meets none of a live offer.                        *)
LEMMA OverlapsNone ==
    ASSUME SerialInv, NEW w \in Window, NEW except, ~Overlaps(w, except),
           NEW body, body.start = w.start, body.end = w.end
    PROVE  ApartFromActive(body, except)
<1> SUFFICES ASSUME NEW q \in Offers \ {except}, offer[q].status = "active"
             PROVE  Separate(body, offer[q])
  BY DEF ApartFromActive
<1>1. ~(offer[q].start <= w.end /\ offer[q].end >= w.start) BY DEF Overlaps, LIVE_STATUSES
<1>2. offer[q].start \in Int /\ offer[q].end \in Int
  BY MarketAssumption DEF SerialInv, TypeOK, OfferDoc
<1>3. w.start \in Int /\ w.end \in Int BY MarketAssumption DEF Window
<1> QED BY <1>1, <1>2, <1>3 DEF Separate

LEMMA CreateOfferSerial ==
    ASSUME Serial, Serial', SerialInv, NEW p \in Proc, CreateOffer(p) PROVE SerialInv' /\ FinishedKept
<1>1. PICK w \in Windows, q \in 1..MaxUnits, asked \in {"none", "draft", "scheduled", "active"} :
        /\ ~Overlaps(w, NoOffer)
        /\ Hold(p, [loc[p] EXCEPT !.body =
                   [status |-> IF asked = "none" THEN DeriveStatus(w.start) ELSE asked,
                    start |-> w.start, end |-> w.end, available |-> q, remaining |-> q]])
  BY DEF CreateOffer
<1> DEFINE body == [status |-> IF asked = "none" THEN DeriveStatus(w.start) ELSE asked,
                    start |-> w.start, end |-> w.end, available |-> q, remaining |-> q]
<1>2. q \in Nat /\ w \in Window /\ w.start \in 0..Horizon /\ w.end \in 0..Horizon
  BY MarketAssumption DEF Window
<1>3. /\ body \in OfferDoc /\ body.status # "none" /\ body.remaining = body.available
      /\ body.start = w.start /\ body.end = w.end
  BY <1>2 DEF OfferDoc, OfferStatuses, DeriveStatus
<1>4. Hold(p, [loc[p] EXCEPT !.body = body]) BY <1>1
<1> HIDE DEF body
<1>5. ApartFromActive(body, NoOffer) BY <1>1, <1>2, <1>3, OverlapsNone
<1> QED BY <1>3, <1>4, <1>5, CreationSerial DEF CreateOffer

LEMMA ApproveRecommendationSerial ==
    ASSUME Serial, Serial', SerialInv, NEW p \in Proc, ApproveRecommendation(p)
    PROVE  SerialInv' /\ FinishedKept
<1>1. PICK w \in Windows, q \in 1..MaxUnits :
        Hold(p, [loc[p] EXCEPT !.body = [status |-> "active", start |-> w.start,
                                         end |-> w.end, available |-> q, remaining |-> q]])
  BY DEF ApproveRecommendation
<1> DEFINE body == [status |-> "active", start |-> w.start, end |-> w.end,
                    available |-> q, remaining |-> q]
<1>2. q \in Nat /\ w.start \in 0..Horizon /\ w.end \in 0..Horizon
  BY MarketAssumption DEF Window
<1>3. body \in OfferDoc /\ body.status # "none" /\ body.remaining = body.available
  BY <1>2 DEF OfferDoc, OfferStatuses
<1>4. Hold(p, [loc[p] EXCEPT !.body = body]) BY <1>1
<1> HIDE DEF body
<1>5. ApartFromActive(body, NoOffer) BY DEF ApproveRecommendation, ApartFromActive
<1> QED BY <1>3, <1>4, <1>5, CreationSerial DEF ApproveRecommendation

LEMMA WriteCreatedSerial ==
    ASSUME Serial, Serial', SerialInv, NEW p \in Proc, WriteCreated(p) PROVE SerialInv' /\ FinishedKept
<1>1. PICK o \in Offers : offer[o].status = "none" /\ offer' = [offer EXCEPT ![o] = loc[p].body]
  BY DEF WriteCreated
<1>2. PICK body \in OfferDoc :
        /\ body = loc[p].body /\ body.status # "none" /\ body.remaining = body.available
        /\ body.status = "active" => ApartFromActive(body, NoOffer)
  BY SerialTyped DEF WriteCreated, Sure, Locals
<1>3. PICK units \in [open : Int, held : Int] :
        units = taken[o] /\ units.open = 0 /\ units.held = 0
  BY <1>1 DEF SerialInv, TypeOK, BooksOK, NothingTakenUnmade, Made
<1>4. body.available = body.remaining + units.open + units.held /\ body.remaining >= 0
  BY <1>2, <1>3 DEF OfferDoc
<1>5. taken' = [taken EXCEPT ![o] = units] BY <1>3 DEF WriteCreated, SerialInv, TypeOK
<1>6. Finish(p) /\ UNCHANGED <<now, paid>> /\ pc[p] # "idle" BY DEF WriteCreated
<1>7. body.status = "active" => ApartFromActive(body, o)
  BY <1>2, MarketAssumption DEF ApartFromActive
<1>8. offer' = [offer EXCEPT ![o] = body] BY <1>1, <1>2
<1> QED BY <1>1, <1>2, <1>4, <1>5, <1>6, <1>7, <1>8, WritesAndEnds

LEMMA UpdateOfferSerial ==
    ASSUME Serial, Serial', SerialInv, NEW p \in Proc, UpdateOffer(p) PROVE SerialInv' /\ FinishedKept
<1>0. TypeOK BY DEF SerialInv
<1>1. PICK o \in Offers, resized \in BOOLEAN, moved \in BOOLEAN, body \in OfferDoc :
        Checked(p, o, resized, moved, body)
  BY <1>0, UpdateRead
<1> DEFINE held == [loc[p] EXCEPT !.id = o, !.resized = resized, !.moved = moved, !.body = body]
<1>2. /\ held \in Locals /\ held.id = o /\ held.todo = {} /\ held.body = body
      /\ held.resized = resized /\ held.moved = moved
  <2>1. loc[p] \in Locals /\ loc[p].todo = {} BY SerialTyped DEF UpdateOffer, Sure
  <2> QED BY <2>1 DEF Locals
<1>3. pc' = [pc EXCEPT ![p] = "write"] /\ loc' = [loc EXCEPT ![p] = held]
  BY <1>1 DEF UpdateOffer, Goto, Hold, Checked
<1> HIDE DEF held
<1>4. Fits(held)
  <2>1. ASSUME moved PROVE ApartFromActive(body, o)
    <3>1. PICK w \in Windows : ~Overlaps(w, o) /\ body.start = w.start /\ body.end = w.end
      BY <1>1, <2>1 DEF Checked
    <3>2. w \in Window BY MarketAssumption
    <3> QED BY <3>1, <3>2, OverlapsNone
  <2> QED BY <1>1, <1>2, <2>1 DEF Fits, Checked
<1>5. Sure("write", held) BY <1>1, <1>2, <1>4 DEF Sure, Checked, AtOffer, Made, Unfinished
<1>6. "write" \in Labels /\ UNCHANGED <<offer, taken, now, paid>> BY DEF Labels, UpdateOffer
<1> QED BY <1>2, <1>3, <1>5, <1>6, SerialMoves

(* The body goes over the document it was made from.                       *)
LEMMA WriteUpdateSerial ==
    ASSUME Serial, Serial', SerialInv, NEW p \in Proc, WriteUpdate(p) PROVE SerialInv' /\ FinishedKept
<1>1. PICK held \in Locals : held = loc[p] /\ held.id \in Offers /\ Unfinished(held.id) /\ Fits(held)
  BY SerialTyped DEF WriteUpdate, Sure, AtOffer
<1>2. PICK o \in Offers, body \in OfferDoc : o = held.id /\ body = held.body BY <1>1 DEF Locals
<1>3. PICK units \in [open : Int, held : Int] : units = taken[o] BY SerialTyped
<1>4. /\ offer[o] \in OfferDoc /\ offer[o].remaining >= 0 /\ offer[o].status # "none" /\ Unfinished(o)
      /\ offer[o].available = offer[o].remaining + units.open + units.held
      /\ offer[o].status = "active" => ApartFromActive(offer[o], o)
  BY <1>1, <1>2, <1>3, SerialTyped DEF Unfinished
<1>5. held.resized => /\ body.remaining >= 0
                      /\ body.available - body.remaining = offer[o].available - offer[o].remaining
  BY <1>1, <1>2 DEF Fits, SoldOf
<1> DEFINE dated == IF held.moved
                    THEN [offer[o] EXCEPT !.start = body.start, !.end = body.end] ELSE offer[o]
           sized == IF held.resized
                    THEN [dated EXCEPT !.available = body.available,
                                       !.remaining = body.remaining] ELSE dated
           named == IF body.status = "none" THEN sized ELSE [sized EXCEPT !.status = body.status]
<1>6. offer' = [offer EXCEPT ![o] = named] BY <1>1, <1>2 DEF WriteUpdate
<1>7. taken' = [taken EXCEPT ![o] = units] BY <1>3 DEF WriteUpdate, SerialInv, TypeOK
<1>8. /\ dated \in OfferDoc /\ dated.status = offer[o].status
      /\ dated.available = offer[o].available /\ dated.remaining = offer[o].remaining
      /\ IF held.moved THEN dated.start = body.start /\ dated.end = body.end
         ELSE dated.start = offer[o].start /\ dated.end = offer[o].end
  BY <1>4 DEF OfferDoc
<1> HIDE DEF dated
<1>9. /\ sized \in OfferDoc /\ sized.status = offer[o].status
      /\ sized.available = sized.remaining + units.open + units.held /\ sized.remaining >= 0
      /\ sized.start = dated.start /\ sized.end = dated.end
  <2>1. CASE held.resized
    <3>1. sized = [dated EXCEPT !.available = body.available, !.remaining = body.remaining]
      BY <2>1
    <3>2. /\ sized \in OfferDoc /\ sized.status = dated.status
          /\ sized.available = body.available /\ sized.remaining = body.remaining
          /\ sized.start = dated.start /\ sized.end = dated.end
      BY <1>8, <3>1 DEF OfferDoc
    <3>3. body.available \in Int /\ body.remaining \in Int /\ units.open \in Int /\ units.held \in Int
          /\ offer[o].available \in Int /\ offer[o].remaining \in Int
      BY <1>4 DEF OfferDoc
    <3> HIDE DEF sized
    <3>4. body.available = body.remaining + units.open + units.held /\ body.remaining >= 0
      BY <1>4, <1>5, <2>1, <3>3
    <3> QED BY <1>8, <3>2, <3>4
  <2>2. CASE ~held.resized BY <1>4, <1>8, <2>2
  <2> QED BY <2>1, <2>2
<1> HIDE DEF sized
<1>10. /\ named \in OfferDoc
       /\ named.status = IF body.status = "none" THEN offer[o].status ELSE body.status
       /\ named.available = named.remaining + units.open + units.held /\ named.remaining >= 0
       /\ named.start = dated.start /\ named.end = dated.end
  BY <1>9 DEF OfferDoc
<1> HIDE DEF named
<1>11. named.status = "active" => ApartFromActive(named, o)
  <2>1. CASE body.status = "active" BY <1>1, <1>2, <2>1, NoneActive DEF Fits
  <2>2. CASE body.status = "none" /\ held.moved
    <3>1. ApartFromActive(body, o) BY <1>1, <1>2, <2>2 DEF Fits
    <3> QED BY <1>8, <1>10, <2>2, <3>1 DEF ApartFromActive, Separate
  <2>3. CASE body.status = "none" /\ ~held.moved
    BY <1>4, <1>8, <1>10, <2>3 DEF ApartFromActive, Separate
  <2> QED BY <1>10, <2>1, <2>2, <2>3
<1>12. Finish(p) /\ UNCHANGED <<now, paid>> /\ pc[p] # "idle" BY DEF WriteUpdate
<1> QED BY <1>4, <1>6, <1>7, <1>10, <1>11, <1>12, WritesAndEnds

LEMMA ReadCancellableSerial ==
    ASSUME Serial, Serial', SerialInv, NEW p \in Proc, ReadCancellable(p) PROVE SerialInv' /\ FinishedKept
<1>1. PICK o \in Offers : Unfinished(o) /\ Hold(p, [loc[p] EXCEPT !.id = o])
  BY DEF ReadCancellable, Unfinished
<1>2. PICK held \in Locals : held = [loc[p] EXCEPT !.id = o] /\ held.id = o /\ held.todo = {}
  <2>1. loc[p] \in Locals /\ loc[p].todo = {} BY SerialTyped DEF Sure, ReadCancellable
  <2>2. /\ [loc[p] EXCEPT !.id = o] \in Locals /\ [loc[p] EXCEPT !.id = o].id = o
        /\ [loc[p] EXCEPT !.id = o].todo = {}
    BY <2>1 DEF Locals
  <2> QED BY <2>2
<1>3. pc' = [pc EXCEPT ![p] = "cancel"] /\ loc' = [loc EXCEPT ![p] = held]
  BY <1>1, <1>2 DEF ReadCancellable, Goto, Hold
<1>4. "cancel" \in Labels /\ UNCHANGED <<offer, taken, now, paid>> BY DEF Labels, ReadCancellable
<1>5. Sure("cancel", held) BY <1>1, <1>2 DEF Sure, AtOffer, Made, Unfinished
<1> QED BY <1>3, <1>4, <1>5, SerialMoves

LEMMA CancelOfferSerial ==
    ASSUME Serial, Serial', SerialInv, NEW p \in Proc, CancelOffer(p) PROVE SerialInv' /\ FinishedKept
<1>1. loc[p].id \in Offers /\ Unfinished(loc[p].id)
  BY SerialTyped DEF CancelOffer, Sure, AtOffer
<1>2. "cancelled" \in OfferStatuses BY DEF OfferStatuses
<1> QED BY <1>1, <1>2, StatusAndEnd DEF CancelOffer

-------------------------------------------------------------------------------
(* A pass of the cron over many offers.                                    *)
LEMMA PassSerial ==
    ASSUME Serial, Serial', SerialInv, NEW p \in Proc,
           NEW label \in {"idle", "demote", "findScheduled", "findRestocked"},
           pc[p] # "idle" \/ label # "idle", NEW held \in Locals, held.todo = {},
           pc' = [pc EXCEPT ![p] = label], loc' = [loc EXCEPT ![p] = held],
           UNCHANGED <<taken, now, paid>>, NEW S, \A o \in Offers : o \in S => Unfinished(o),
           NEW status \in OfferStatuses \ {"active"}, UpdateMany(S, status)
    PROVE  SerialInv' /\ FinishedKept
<1>1. /\ offer' \in [Offers -> OfferDoc] /\ taken' \in [Offers -> [open : Int, held : Int]]
      /\ BooksOK' /\ FinishedKept
  BY ManyRelabelled
<1>2. Sure(label, held)' BY DEF Sure, AtOffer
<1>3. label \in Labels BY DEF Labels
<1> QED BY <1>1, <1>2, <1>3, Alone

LEMMA ExpireSerial ==
    ASSUME Serial, Serial', SerialInv, NEW p \in Proc, Expire(p) PROVE SerialInv' /\ FinishedKept
<1> DEFINE S == {o \in Offers : offer[o].status \in {"active", "sold_out"} /\ offer[o].end <= now}
           held == [loc[p] EXCEPT !.at = now]
<1>1. held \in Locals /\ held.todo = {}
  <2>1. loc[p] \in Locals /\ loc[p].todo = {} /\ now \in 0..Horizon
    BY SerialTyped DEF Sure, Expire, SerialInv, TypeOK
  <2> QED BY <2>1 DEF Locals
<1>2. pc' = [pc EXCEPT ![p] = "demote"] /\ loc' = [loc EXCEPT ![p] = held]
  BY DEF Expire, Goto, Hold
<1>3. UpdateMany(S, "expired") /\ \A o \in Offers : o \in S => Unfinished(o)
  BY DEF Expire, Unfinished
<1>4. "expired" \in OfferStatuses \ {"active"} BY DEF OfferStatuses
<1>5. UNCHANGED <<taken, now, paid>> BY DEF Expire
<1> HIDE DEF held, S
<1> QED BY <1>1, <1>2, <1>3, <1>4, <1>5, PassSerial

(* A handler between the passes holds no candidates.                       *)
LEMMA StaysHeld ==
    ASSUME SerialInv, NEW p \in Proc, NEW label, Goto(p, label), UNCHANGED loc
    PROVE  pc' = [pc EXCEPT ![p] = label] /\ loc' = [loc EXCEPT ![p] = loc[p]]
BY DEF SerialInv, TypeOK, Goto

LEMMA DemoteSerial ==
    ASSUME Serial, Serial', SerialInv, NEW p \in Proc, Demote(p) PROVE SerialInv' /\ FinishedKept
<1> DEFINE S == {o \in Offers : offer[o].status = "active" /\ offer[o].start > loc[p].at}
<1>1. loc[p] \in Locals /\ loc[p].todo = {} BY SerialTyped DEF Sure, Demote
<1>2. pc' = [pc EXCEPT ![p] = "findScheduled"] /\ loc' = [loc EXCEPT ![p] = loc[p]]
  BY StaysHeld DEF Demote
<1>3. UpdateMany(S, "scheduled") /\ \A o \in Offers : o \in S => Unfinished(o)
  BY DEF Demote, Unfinished
<1>4. "scheduled" \in OfferStatuses \ {"active"} BY DEF OfferStatuses
<1>5. UNCHANGED <<taken, now, paid>> BY DEF Demote
<1> HIDE DEF S
<1> QED BY <1>1, <1>2, <1>3, <1>4, <1>5, PassSerial

LEMMA MarkDepletedSerial ==
    ASSUME Serial, Serial', SerialInv, NEW p \in Proc, MarkDepleted(p) PROVE SerialInv' /\ FinishedKept
<1> DEFINE S == {o \in Offers : offer[o].status = "active" /\ offer[o].remaining <= 0}
<1>1. loc[p] \in Locals /\ loc[p].todo = {} BY SerialTyped DEF MarkDepleted
<1>2. pc' = [pc EXCEPT ![p] = "findRestocked"] /\ loc' = [loc EXCEPT ![p] = loc[p]]
  BY StaysHeld DEF MarkDepleted
<1>3. UpdateMany(S, "sold_out") /\ \A o \in Offers : o \in S => Unfinished(o)
  BY DEF MarkDepleted, Unfinished
<1>4. "sold_out" \in OfferStatuses \ {"active"} BY DEF OfferStatuses
<1>5. UNCHANGED <<taken, now, paid>> BY DEF MarkDepleted
<1> HIDE DEF S
<1> QED BY <1>1, <1>2, <1>3, <1>4, <1>5, PassSerial

LEMMA SuspendOrRestoreSerial ==
    ASSUME Serial, Serial', SerialInv, NEW p \in Proc, SuspendOrRestore(p) PROVE SerialInv' /\ FinishedKept
<1> DEFINE S == {o \in Offers : offer[o].status = "suspended"}
           T == {o \in Offers : offer[o].status \in {"active", "scheduled", "sold_out"}}
<1>1. /\ pc' = [pc EXCEPT ![p] = "idle"] /\ loc' = [loc EXCEPT ![p] = NoLocals]
      /\ NoLocals \in Locals /\ NoLocals.todo = {}
  BY FinishSure, NoLocalsTyped DEF SuspendOrRestore
<1>2. {"scheduled", "suspended"} \subseteq OfferStatuses \ {"active"} BY DEF OfferStatuses
<1>3. UNCHANGED <<taken, now, paid>> /\ pc[p] # "idle" BY DEF SuspendOrRestore
<1>4. UpdateMany(S, "scheduled") \/ UpdateMany(T, "suspended") BY DEF SuspendOrRestore
<1>5. \A o \in Offers : (o \in S => Unfinished(o)) /\ (o \in T => Unfinished(o)) BY DEF Unfinished
<1> HIDE DEF S, T
<1>6. CASE UpdateMany(S, "scheduled") BY <1>1, <1>2, <1>3, <1>5, <1>6, PassSerial
<1>7. CASE UpdateMany(T, "suspended") BY <1>1, <1>2, <1>3, <1>5, <1>7, PassSerial
<1> QED BY <1>4, <1>6, <1>7

(* The candidates of a pass are not finished.                              *)
LEMMA CandidatesSerial ==
    ASSUME Serial, Serial', SerialInv, NEW p \in Proc, NEW held \in Locals, \A o \in held.todo : Unfinished(o),
           Hold(p, held), Goto(p, "consider"), UNCHANGED <<offer, taken, now, paid>>
    PROVE  SerialInv' /\ FinishedKept
<1>1. "consider" \in Labels /\ Sure("consider", held) BY DEF Labels, Sure, AtOffer
<1>2. pc' = [pc EXCEPT ![p] = "consider"] /\ loc' = [loc EXCEPT ![p] = held] BY DEF Goto, Hold
<1> QED BY <1>1, <1>2, SerialMoves

LEMMA FindScheduledSerial ==
    ASSUME Serial, Serial', SerialInv, NEW p \in Proc, FindScheduled(p) PROVE SerialInv' /\ FinishedKept
<1> DEFINE S == {o \in Offers : offer[o].status = "scheduled" /\ Running(o, loc[p].at)}
           held == [loc[p] EXCEPT !.todo = S]
<1>1. S \subseteq Offers /\ \A o \in S : Unfinished(o) BY DEF Unfinished
<1>2. Hold(p, held) /\ Goto(p, "consider") /\ UNCHANGED <<offer, taken, now, paid>>
  BY DEF FindScheduled
<1> HIDE DEF S
<1>3. held \in Locals /\ held.todo = S
  <2>1. loc[p] \in Locals BY SerialTyped
  <2> QED BY <1>1, <2>1 DEF Locals
<1> HIDE DEF held
<1> QED BY <1>1, <1>2, <1>3, CandidatesSerial

LEMMA FindRestockedSerial ==
    ASSUME Serial, Serial', SerialInv, NEW p \in Proc, FindRestocked(p) PROVE SerialInv' /\ FinishedKept
<1> DEFINE S == {o \in Offers : /\ offer[o].status = "sold_out"
                                /\ offer[o].remaining > 0
                                /\ Running(o, loc[p].at)}
           held == [loc[p] EXCEPT !.restocked = TRUE, !.todo = S]
<1>1. S \subseteq Offers /\ \A o \in S : Unfinished(o) BY DEF Unfinished
<1>2. Hold(p, held) /\ Goto(p, "consider") /\ UNCHANGED <<offer, taken, now, paid>>
  BY DEF FindRestocked
<1> HIDE DEF S
<1>3. held \in Locals /\ held.todo = S
  <2>1. loc[p] \in Locals BY SerialTyped
  <2> QED BY <1>1, <2>1 DEF Locals
<1> HIDE DEF held
<1> QED BY <1>1, <1>2, <1>3, CandidatesSerial

LEMMA ConsiderSerial ==
    ASSUME Serial, Serial', SerialInv, NEW p \in Proc, Consider(p) PROVE SerialInv' /\ FinishedKept
<1>1. PICK o \in loc[p].todo :
        /\ Hold(p, [loc[p] EXCEPT !.id = o, !.todo = @ \ {o}])
        /\ Goto(p, IF ActiveConflict(o) THEN "consider" ELSE "activate")
  BY DEF Consider
<1> DEFINE held  == [loc[p] EXCEPT !.id = o, !.todo = loc[p].todo \ {o}]
           label == IF ActiveConflict(o) THEN "consider" ELSE "activate"
<1>2. loc[p] \in Locals /\ o \in Offers /\ \A q \in loc[p].todo : Unfinished(q)
  BY SerialTyped DEF Sure, Locals
<1>3. held \in Locals /\ held.id = o /\ held.todo = loc[p].todo \ {o} BY <1>2 DEF Locals
<1>4. pc' = [pc EXCEPT ![p] = label] /\ loc' = [loc EXCEPT ![p] = held] BY <1>1 DEF Goto, Hold
<1>5. label \in Labels /\ UNCHANGED <<offer, taken, now, paid>> BY DEF Labels, Consider
<1> HIDE DEF held
<1>6. Sure(label, held) BY <1>2, <1>3 DEF Sure, AtOffer, Made, Unfinished
<1> HIDE DEF label
<1> QED BY <1>3, <1>4, <1>5, <1>6, SerialMoves

LEMMA ActivateSerial ==
    ASSUME Serial, Serial', SerialInv, NEW p \in Proc, Activate(p) PROVE SerialInv' /\ FinishedKept
<1>1. PICK held \in Locals : /\ held = loc[p] /\ held.id \in Offers /\ ~ActiveConflict(held.id)
                             /\ \A q \in held.todo : Unfinished(q)
                             /\ Unfinished(held.id) /\ held.todo \subseteq Offers
  BY SerialTyped DEF Activate, Sure, AtOffer, Locals
<1>2. PICK o \in Offers, units \in [open : Int, held : Int] : o = held.id /\ units = taken[held.id]
  BY <1>1, SerialTyped
<1>3. /\ offer[o] \in OfferDoc /\ offer[o].remaining >= 0
      /\ offer[o].available = offer[o].remaining + units.open + units.held
  BY <1>2, SerialTyped
<1> DEFINE doc == [offer[o] EXCEPT !.status = "active"]
<1>4. offer' = [offer EXCEPT ![o] = doc] BY <1>1, <1>2 DEF Activate, Status
<1>5. taken' = [taken EXCEPT ![o] = units] BY <1>2 DEF Activate, SerialInv, TypeOK
<1>6. /\ doc \in OfferDoc /\ doc.status = "active"
      /\ doc.remaining = offer[o].remaining /\ doc.available = offer[o].available
  BY <1>3 DEF OfferDoc, OfferStatuses
<1> HIDE DEF doc
<1>7. /\ ApartFromActive(doc, o) /\ Unfinished(o) /\ doc.status # "none" /\ doc.remaining >= 0
      /\ doc.available = doc.remaining + units.open + units.held
  BY <1>1, <1>2, <1>3, <1>6, NoneActive
<1>8. /\ offer' \in [Offers -> OfferDoc] /\ taken' \in [Offers -> [open : Int, held : Int]]
      /\ BooksOK' /\ FinishedKept
      /\ offer'[o] = doc /\ \A q \in Offers \ {o} : offer'[q] = offer[q]
  BY <1>4, <1>5, <1>6, <1>7, OneWritten
<1>9. pc' = [pc EXCEPT ![p] = "consider"] /\ loc' = [loc EXCEPT ![p] = held]
  BY <1>1, StaysHeld DEF Activate
<1>10. Sure("consider", held)' BY <1>1, <1>6, <1>8 DEF Sure, AtOffer, Unfinished
<1>11. "consider" \in Labels /\ UNCHANGED <<now, paid>> BY DEF Labels, Activate
<1> QED BY <1>8, <1>9, <1>10, <1>11, Alone

LEMMA ReadSubscriptionSerial ==
    ASSUME Serial, Serial', SerialInv, NEW p \in Proc, ReadSubscription(p) PROVE SerialInv' /\ FinishedKept
<1> DEFINE held == [loc[p] EXCEPT !.access = paid]
<1>1. held \in Locals /\ held.todo = {}
  <2>1. loc[p] \in Locals /\ loc[p].todo = {} /\ paid \in BOOLEAN
    BY SerialTyped DEF ReadSubscription, SerialInv, TypeOK
  <2> QED BY <2>1 DEF Locals
<1>2. pc' = [pc EXCEPT ![p] = "suspend"] /\ loc' = [loc EXCEPT ![p] = held]
  BY DEF ReadSubscription, Goto, Hold
<1>3. "suspend" \in Labels /\ UNCHANGED <<offer, taken, now, paid>> BY DEF Labels, ReadSubscription
<1> HIDE DEF held
<1>4. Sure("suspend", held) BY <1>1 DEF Sure, AtOffer
<1> QED BY <1>1, <1>2, <1>3, <1>4, SerialMoves

LEMMA WorldSerial ==
    ASSUME SerialInv, UNCHANGED <<offer, taken, pc, loc>>, now' \in 0..Horizon, paid' \in BOOLEAN
    PROVE  SerialInv' /\ FinishedKept
<1>1. TypeOK' BY DEF SerialInv, TypeOK
<1>2. ASSUME NEW p \in Proc PROVE Sure(pc[p], loc[p])'
  <2>1. Sure(pc[p], loc[p]) BY SerialTyped
  <2> QED BY <2>1 DEF Sure, Fits, ApartFromActive, ActiveConflict, Separate, SoldOf, Made, Unfinished
<1>3. BooksOK'
  BY DEF SerialInv, BooksOK, NothingTakenUnmade, UnitsConserved, ActiveApart, ApartFromActive, Made
<1> QED BY <1>1, <1>2, <1>3 DEF SerialInv, FinishedKept

LEMMA SerialStep ==
    ASSUME Serial, Serial', SerialInv, [Next]_vars PROVE SerialInv' /\ FinishedKept
<1>1. ASSUME NEW p \in Proc, CustomerStep(p) PROVE SerialInv' /\ FinishedKept
  BY <1>1, ReadOfferSerial, ReserveUnitsSerial, StockLeftSerial, NoStockLeftSerial, MarkSoldOutSerial,
     ReturnUnitsSerial, CheckReopenSerial, ReopenSerial DEF CustomerStep
<1>2. ASSUME NEW p \in Proc, ManagerStep(p) PROVE SerialInv' /\ FinishedKept
  BY <1>2, CreateOfferSerial, ApproveRecommendationSerial, WriteCreatedSerial, UpdateOfferSerial,
     WriteUpdateSerial, ReadCancellableSerial, CancelOfferSerial DEF ManagerStep
<1>3. ASSUME NEW p \in Proc, CronStep(p) PROVE SerialInv' /\ FinishedKept
  BY <1>3, ExpireSerial, DemoteSerial, FindScheduledSerial, ConsiderSerial, ActivateSerial,
     MarkDepletedSerial, FindRestockedSerial, ReadSubscriptionSerial, SuspendOrRestoreSerial DEF CronStep
<1>4. CASE Tick
  <2>1. now' \in 0..Horizon /\ paid \in BOOLEAN
    BY <1>4, MarketAssumption DEF Tick, SerialInv, TypeOK
  <2> QED BY <1>4, <2>1, WorldSerial DEF Tick
<1>5. CASE SubscriptionChanges
  <2>1. now \in 0..Horizon /\ paid' \in BOOLEAN
    BY <1>5 DEF SubscriptionChanges, SerialInv, TypeOK
  <2> QED BY <1>5, <2>1, WorldSerial DEF SubscriptionChanges
<1>6. CASE UNCHANGED vars
  <2>1. now \in 0..Horizon /\ paid \in BOOLEAN BY DEF SerialInv, TypeOK
  <2> QED BY <1>6, <2>1, WorldSerial DEF vars
<1> QED BY <1>1, <1>2, <1>3, <1>4, <1>5, <1>6 DEF Next

(* Requests and cron ticks that do not overlap never put two offers of one *)
(* product on sale at the same moment, although a creation looks at the    *)
(* windows, an update, a restock and the cron at the statuses, and a       *)
(* recommendation at neither of the drafts and the sold-out offers         *)
(* (assertNoOverlap, assertActiveConflict, processStatusTransitions).      *)
THEOREM PurchasableCorrect == Spec /\ []Serial => []OnePurchasable
<1>1. SerialInv => OnePurchasable
  <2> SUFFICES ASSUME SerialInv, NEW o \in Offers, NEW q \in Offers,
                      Purchasable(o), Purchasable(q), o # q
               PROVE  FALSE
    BY DEF OnePurchasable
  <2>1. Separate(offer[o], offer[q])
    BY DEF SerialInv, BooksOK, ActiveApart, ApartFromActive, Purchasable
  <2>2. /\ now \in Int /\ offer[o].start \in Int /\ offer[o].end \in Int
        /\ offer[q].start \in Int /\ offer[q].end \in Int
    BY MarketAssumption DEF SerialInv, TypeOK, OfferDoc
  <2> QED BY <2>1, <2>2 DEF Separate, Purchasable
<1>2. SerialInv /\ Serial /\ Serial' /\ [Next]_vars => SerialInv' BY SerialStep
<1> QED BY <1>1, <1>2, SerialInit, PTL DEF Spec

(* Nor do their orders hold more units than were offered, however often an *)
(* offer is resized (createOrder, updateOffer).                            *)
THEOREM OversoldCorrect == Spec /\ []Serial => []NeverOversold
<1>1. SerialInv => NeverOversold
  <2> SUFFICES ASSUME SerialInv, NEW o \in Offers
               PROVE  taken[o].open + taken[o].held <= offer[o].available
    BY DEF NeverOversold
  <2>1. /\ offer[o].remaining >= 0
        /\ offer[o].available = offer[o].remaining + taken[o].open + taken[o].held
        /\ offer[o].remaining \in Int /\ taken[o].open \in Int /\ taken[o].held \in Int
    BY DEF SerialInv, BooksOK, UnitsConserved, TypeOK, OfferDoc
  <2> QED BY <2>1
<1>2. SerialInv /\ Serial /\ Serial' /\ [Next]_vars => SerialInv' BY SerialStep
<1> QED BY <1>1, <1>2, SerialInit, PTL DEF Spec

(* Nor does an offer that was cancelled or has expired come back           *)
(* (STATUS_TRANSITIONS; the cron and the restock pick other statuses).     *)
THEOREM FinishedCorrect == Spec /\ []Serial => FinishedStaysFinished
<1>1. SerialInv /\ Serial /\ Serial' /\ [Next]_vars => SerialInv' /\ [FinishedKept]_vars
  BY SerialStep
<1> QED BY <1>1, SerialInit, PTL DEF Spec, FinishedStaysFinished, FinishedKept
===============================================================================
