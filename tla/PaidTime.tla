------------------------------- MODULE PaidTime -------------------------------
(***************************************************************************)
(* What a subscription payment promises: each payment extends the time its *)
(* restaurant has paid for, once and at one moment, by the whole interval  *)
(* that was bought, and nothing else moves that date.  Subscriptions       *)
(* implements it with a settlement of five steps.                          *)
(***************************************************************************)
EXTENDS Integers

CONSTANTS
    Restaurants,
    Bills,
    Lengths         \* the days an interval lasts

VARIABLES
    until,      \* until[m]: the day m has paid for, -1 if it never paid
    granted     \* the payments that were used

paidTimeVars == <<until, granted>>

InitPaidTime == until = [m \in Restaurants |-> -1] /\ granted = {}

(* onPaid: the new period starts no earlier than the old one ends. *)
Grant(m, p, days) ==
    /\ p \notin granted
    /\ granted' = granted \cup {p}
    /\ until'[m] >= until[m] + days
    /\ until' = [until EXCEPT ![m] = until'[m]]

NextPaidTime == \E m \in Restaurants, p \in Bills, days \in Lengths : Grant(m, p, days)

SpecPaidTime == InitPaidTime /\ [][NextPaidTime]_paidTimeVars
===============================================================================
