----------------------------- MODULE PowerBudget -----------------------------
(***************************************************************************)
(* What the power tokens promise: never more than Budget clients hold power *)
(* at the same time, and a client that starts was not holding power before. *)
(***************************************************************************)
EXTENDS Integers, FiniteSets

CONSTANTS
    Clients,  \* who may hold power
    Budget    \* how many of them at once

VARIABLE using

Init == using = {}

Start(c) ==
    /\ c \notin using
    /\ Cardinality(using) < Budget
    /\ using' = using \cup {c}

Stop(c) ==
    /\ c \in using
    /\ using' = using \ {c}

Next == \E c \in Clients : Start(c) \/ Stop(c)

Spec == Init /\ [][Next]_using
=============================================================================
