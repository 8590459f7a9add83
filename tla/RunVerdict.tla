----------------------------- MODULE RunVerdict -----------------------------
(***************************************************************************)
(* What a run promises about failure, without branches, cells or events    *)
(* (README.md:219-224, the comment at src/src/rlm/executor.py:520-522): a  *)
(* provider, limit or transport failure anywhere in the run is fatal.      *)
(* From then on the run asks no model anything and can only fail; and a    *)
(* verdict, once given, is final.                                          *)
(***************************************************************************)
EXTENDS Integers

VARIABLES
    verdict,        \* "open", then "doomed", then "completed" or "failed"
    asked           \* requests made of models so far

verdictVars == <<verdict, asked>>

Init == verdict = "open" /\ asked = 0

Request ==
    /\ verdict = "open"
    /\ asked' = asked + 1
    /\ UNCHANGED verdict

Doom ==
    /\ verdict = "open"
    /\ verdict' = "doomed"
    /\ UNCHANGED asked

Complete ==
    /\ verdict = "open"
    /\ verdict' = "completed"
    /\ UNCHANGED asked

Fail ==
    /\ verdict = "doomed"
    /\ verdict' = "failed"
    /\ UNCHANGED asked

Next == Request \/ Doom \/ Complete \/ Fail

Spec == Init /\ [][Next]_verdictVars
=============================================================================
