--------------------------- MODULE MCObservation ---------------------------
(***************************************************************************)
(* What is written for a controller and for every other boundary, for TLC: *)
(* the encoder of observations with three of its candidates and the room   *)
(* their JSON entries really take (Observation), and the JSON contract of  *)
(* small values (StrictJSON).  A behaviour follows one of them, which      *)
(* `scenario` names; the other rests where it starts.                      *)
(***************************************************************************)
EXTENDS Observation

CONSTANTS Ids, MaxItems

VARIABLES
    scenario,       \* "observation" or "json"
    heap, verdict, document, decoded, step

jsonVars == <<heap, verdict, document, decoded, step>>

JSON == INSTANCE StrictJSON

CandidatesValue == <<"fault.message", "stdout", "namespace">>
StructuredValue == {"namespace"}

\* ,"message":"" in the fault; ,"stdout":"" and ,"namespace": in the execution
EntryCharsValue == [c \in {"fault.message", "stdout", "namespace"} |->
    IF c = "stdout" THEN 12 ELSE 13]

\* "fault.message": and the others, each before its count
CountCharsValue == [c \in {"fault.message", "stdout", "namespace"} |->
    CASE c = "fault.message" -> 16 [] c = "stdout" -> 9 [] OTHER -> 12]

\* Around one and two digits, from no room to room for everything.
BudgetsValue == 30..100

ScenarioInit ==
    /\ \/ scenario = "observation" /\ heap = [i \in Ids |-> [kind |-> "list", items |-> <<>>]]
       \/ scenario = "json" /\ length = [c \in Names |-> 0] /\ width = 1 /\ budget = 30
    /\ Init
    /\ JSON!Init

ObservationStep == scenario = "observation" /\ Next /\ UNCHANGED <<scenario, jsonVars>>
JSONStep == scenario = "json" /\ JSON!Next /\ UNCHANGED <<scenario, vars>>

\* The value is refused, or was written and read.
JSONOver == scenario = "json" /\ step = "end" /\ UNCHANGED <<scenario, vars, jsonVars>>

ScenarioSpec ==
    /\ ScenarioInit
    /\ [][ObservationStep \/ JSONStep \/ JSONOver]_<<scenario, vars, jsonVars>>
    /\ WF_vars(scenario = "observation" /\ Step)

-----------------------------------------------------------------------------
(* Properties of the components, of the behaviours that follow them        *)

\* Every encoding ends, refused or done.
EncodingEnds == scenario = "observation" => Ends

\* A value is refused exactly when some container it reaches holds itself, or
\* an item or key that cannot be written.
VerdictExact == JSON!VerdictExact

\* What is accepted of a document is all of it.
NothingDropped == JSON!NothingDropped
=============================================================================
