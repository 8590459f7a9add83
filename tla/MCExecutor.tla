----------------------------- MODULE MCExecutor -----------------------------
(***************************************************************************)
(* The executor's protocol and the cell worker's inside, for TLC.  They    *)
(* are two views of one process: Executor has the frames and the signals,  *)
(* CellWorker what happens within a cell.  A behaviour follows one of      *)
(* them, which `scenario` names, while the other rests where it starts.    *)
(***************************************************************************)
EXTENDS Executor

CONSTANTS MaxChars, Streams, Lengths, MaxWrites, Background, Exports

\* The traceback has a stream of its own (executor.py:808, 867-869), and the cell runs on
\* the worker's main thread.
ASSUME StreamsAssumption ==
    /\ MaxChars \in Nat /\ Lengths \subseteq Nat
    /\ IsFiniteSet(Streams) /\ "traceback" \notin Streams
    /\ "main" \notin Background

VARIABLES
    scenario,       \* the component that moves
    phase, workerCell, owner, submission, latched, error, cap, budget, pen, ink,
    shared, frame, outcome

insideVars == <<phase, workerCell, owner, submission, latched, error, cap, budget, pen,
                ink, shared, frame, outcome>>
allVars == <<scenario, vars, insideVars>>

Worker == INSTANCE CellWorker WITH cell <- workerCell

ScenarioInit ==
    /\ scenario \in {"protocol", "cell"}
    /\ Init
    /\ Worker!Init

ProtocolStep == scenario = "protocol" /\ Next /\ UNCHANGED <<scenario, insideVars>>
CellStep == scenario = "cell" /\ Worker!Next /\ UNCHANGED <<scenario, vars>>

\* The cells of the bound are over, or the worker is dead.
CellsOver == scenario = "cell" /\ UNCHANGED allVars

ScenarioNext == ProtocolStep \/ CellStep \/ CellsOver

ScenarioSpec ==
    /\ ScenarioInit
    /\ [][ScenarioNext]_allVars
    /\ WF_vars(scenario = "protocol" /\ HostStep)

-----------------------------------------------------------------------------
(* CellWorker's properties, of the behaviours that follow it               *)

\* A failure of the host is never lost, even when the cell swallowed the
\* exception and submitted an answer, and an answer counts only if this very
\* cell gave it and did not fail after it.
SubmissionCounts == scenario = "cell" => Worker!SubmissionCounts

\* Of a cell that no other thread disturbed, the frame's texts and truncations
\* are exactly what the streams kept and what is missing of them.
TruncationsExact == scenario = "cell" => Worker!TruncationsExact

\* The frame a worker sends tells what its cell did.
FrameTrue == SubmissionCounts /\ TruncationsExact

\* DESIGN.md, "Harness prelude".  When a cell begins, the harness's names are
\* the harness's own.
NamesRestored ==
    [][scenario = "cell" /\ phase # "running" /\ phase' = "running" =>
         \A n \in Worker!AbiNames \union Exports : owner'[n] = "harness"]_<<phase, owner>>

\* README.md, "Kernel contract": a fault of the cell is answered by the
\* recovery policy and ends no executor.
FaultsAreRecoverable == scenario = "cell" => Worker!FaultsAreRecoverable
=============================================================================
