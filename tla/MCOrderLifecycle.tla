--------------------------- MODULE MCOrderLifecycle ---------------------------
(***************************************************************************)
(* Values for OrderLifecycle.  Every line of an order costs one piaster,   *)
(* so an order costs as many as it has lines and a partial refund of a     *)
(* line, an order and the group all differ as soon as there are two lines  *)
(* and two orders.                                                         *)
(***************************************************************************)
EXTENDS OrderLifecycle

LineCount == Cardinality(Lines)

UnitLines == [o \in Orders |-> [l \in Lines |-> 1]]
UnitTotals == [o \in Orders |-> IF LineCount = 0 THEN 1 ELSE LineCount]
UnitPaid == NumOrders * (IF LineCount = 0 THEN 1 ELSE LineCount)

Symmetric == UNION {Permutations(Webhooks), Permutations(Admins), Permutations(Refunds),
                    Permutations(Lines)}
===============================================================================
