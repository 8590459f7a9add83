---------------------------- MODULE DurableWork ----------------------------
(***************************************************************************)
(* What a resumable experiment promises, whatever file it keeps: a unit of *)
(* work is paid for (a model is asked) until its record is stored, a       *)
(* record once stored is never lost, and stored work is never paid again.  *)
(* Implemented by the paired benchmark and by the sweep.                   *)
(***************************************************************************)
EXTENDS Naturals

CONSTANT Keys               \* the units of work

VARIABLES
    stored,                 \* units whose record survives any crash
    paid                    \* unit -> how often it was executed

Init ==
    /\ stored = {}
    /\ paid = [k \in Keys |-> 0]

Pay(k) ==
    /\ k \notin stored
    /\ paid' = [paid EXCEPT ![k] = @ + 1]
    /\ UNCHANGED stored

\* Several records may become durable in one step.
Store(S) ==
    /\ \A k \in S : k \notin stored /\ paid[k] > 0
    /\ stored' = stored \cup S
    /\ UNCHANGED paid

Next ==
    \/ \E k \in Keys : Pay(k)
    \/ \E S \in SUBSET Keys : Store(S)

Spec == Init /\ [][Next]_<<stored, paid>>

=============================================================================
