---------------------------- MODULE MCOfferMarket ----------------------------
(* Values for OfferMarket: two windows that do not meet, and two that do.  *)
EXTENDS OfferMarket, TLC

Apart   == {[start |-> 0, end |-> 1], [start |-> 2, end |-> 3]}
Meeting == {[start |-> 0, end |-> 1], [start |-> 1, end |-> 2]}
===============================================================================
