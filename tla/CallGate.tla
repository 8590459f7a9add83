------------------------------ MODULE CallGate ------------------------------
(***************************************************************************)
(* What the ledger promises about model calls, without locks, permits or   *)
(* time (docstrings of src/src/rlm/ledger.py:16-30 and 97-104): a run      *)
(* starts at most Budget calls, at most Ceiling of them are inside a       *)
(* backend at once, and only a call that was started gets inside.          *)
(***************************************************************************)
EXTENDS Integers, FiniteSets

CONSTANTS Callers, Budget, Ceiling

VARIABLES
    started,        \* calls started so far
    admitted,       \* callers with a started, unfinished call
    inside          \* those of them inside a backend

gateVars == <<started, admitted, inside>>

Init ==
    /\ started = 0
    /\ admitted = {}
    /\ inside = {}

Start(c) ==
    /\ c \notin admitted
    /\ started < Budget
    /\ started' = started + 1
    /\ admitted' = admitted \cup {c}
    /\ UNCHANGED inside

Enter(c) ==
    /\ c \in admitted \ inside
    /\ Cardinality(inside) < Ceiling
    /\ inside' = inside \cup {c}
    /\ UNCHANGED <<started, admitted>>

Leave(c) ==
    /\ c \in inside
    /\ inside' = inside \ {c}
    /\ UNCHANGED <<started, admitted>>

Finish(c) ==
    /\ c \in admitted \ inside
    /\ admitted' = admitted \ {c}
    /\ UNCHANGED <<started, inside>>

Next == \E c \in Callers : Start(c) \/ Enter(c) \/ Leave(c) \/ Finish(c)

Spec == Init /\ [][Next]_gateVars
=============================================================================
