---------------------------- MODULE MCModelCalls ----------------------------
(***************************************************************************)
(* What must come to an end, for TLC: a run whose thread is interrupted    *)
(* (ModelCalls), and two callers of a ledger with one slot whose holder    *)
(* may never come back (RunLedger).  A behaviour follows one of the two,   *)
(* which `scenario` names, on the same ledger variables.                   *)
(***************************************************************************)
EXTENDS ModelCalls

CONSTANTS t1, t2        \* callers of the ledger

VARIABLES scenario, callerPc, callerWait, outcome, callerArrived

callerVars == <<callerPc, callerWait, outcome, callerArrived>>
runVars == <<traceVars, engineVars, callVars>>
allVars == <<scenario, vars, callerVars>>

Callers == INSTANCE RunLedger WITH
    pc <- callerPc, wait <- callerWait, arrived <- callerArrived,
    Threads <- {t1, t2}, BatchSizes <- {1}

ScenarioInit == scenario \in {"run", "callers"} /\ Init /\ Callers!Init

RunStep == scenario = "run" /\ Next /\ UNCHANGED <<scenario, callerVars>>
CallersStep == scenario = "callers" /\ Callers!Next /\ UNCHANGED <<scenario, runVars>>

\* FairSpec of either module.
Fairness ==
    /\ WF_vars(scenario = "run" /\ Tick)
    /\ WF_vars(scenario = "run" /\ EngineStep)
    /\ WF_vars(scenario = "run" /\ CellStep)
    /\ \A c \in Calls : WF_vars(scenario = "run" /\ CallStep(c))
    /\ \A c \in Calls : WF_vars(scenario = "run" /\ BackendStep(c))
    /\ WF_<<ledgerVars, callerVars>>(scenario = "callers" /\ Callers!Tick)
    /\ \A t \in {t1, t2} :
          WF_<<ledgerVars, callerVars>>(scenario = "callers" /\ Callers!RuntimeStep(t))

ScenarioSpec == ScenarioInit /\ [][RunStep \/ CallersStep]_allVars /\ Fairness

\* complete returns or raises by its timeout, the contract of ModelBackend.
HonestBackends ==
    \A t \in {t1, t2} :
        WF_<<ledgerVars, callerVars>>(scenario = "callers" /\ Callers!BackendStep(t))

-----------------------------------------------------------------------------
\* engine.py:119-209.  Every run ends with a closed trace, whatever its backends
\* answer and whenever the interrupt comes.
EveryRunCloses == scenario = "run" ~> closed

\* ledger.py:96-127.  Behind a backend that never answers, a caller waiting for
\* the slot still gives up.
WaitersLeave == Callers!WaitersLeave

\* engine.py:795-840.  If the backends answer, every call comes to its end.
CallsSettle == HonestBackends => Callers!CallsSettle

\* Nothing a run is waiting for keeps it waiting for ever.
AllEnds == EveryRunCloses /\ WaitersLeave /\ CallsSettle
=============================================================================
