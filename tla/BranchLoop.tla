----------------------------- MODULE BranchLoop -----------------------------
(***************************************************************************)
(* The controller loop of a run: RLM.run and RLM._run_branch of            *)
(* src/src/rlm/engine.py, with the exchange between a cell and its host in *)
(* src/src/rlm/executor.py and the conversation of src/src/rlm/protocol.py.*)
(*                                                                         *)
(* A branch asks its controller for a cell, runs it, and tells the         *)
(* controller what came of it, until a cell submits a final response.  A   *)
(* cell may call a model or start a child branch, which runs to its end    *)
(* while the cell waits: the branches that are open form a stack, and only *)
(* the top one moves.  An exception is in raised while it leaves a branch; *)
(* then it reaches the cell that started the branch, or RLM.run.           *)
(*                                                                         *)
(* A model call is a request and its outcome here; slots, usage and the    *)
(* parallel calls of a batch are ModelCalls'.  Time is the ledger's: it    *)
(* matters whether the deadline has passed.  A cell's own timeout may      *)
(* strike at any moment.                                                   *)
(***************************************************************************)
EXTENDS Ledger, TraceLog

CONSTANTS
    MaxTurns,       \* limits.max_turns
    MaxDepth,       \* limits.max_depth
    RecoveryModes   \* the values harness.recovery.mode is tried with

ASSUME TurnsAssumption == MaxTurns \in Nat \ {0}
ASSUME DepthAssumption == MaxDepth \in Nat
ASSUME NoCallAssumption == NoCall \notin Nat
ASSUME RecoveryAssumption == RecoveryModes \subseteq {"repair", "abort"}

VARIABLES
    phase,          \* where RLM.run is
    mode,           \* config.harness.recovery.mode
    stack,          \* the open branches, the root first
    branches,       \* branches started so far
    raised,         \* the exception leaving the top branch and its causal event
    fatal,          \* the exception run failed with and its causal event
    turns           \* what note_root_turn recorded

loopVars == <<phase, mode, stack, branches, raised, fatal, turns>>
vars == <<ledgerVars, traceVars, loopVars>>

NoError == [error |-> "none", cause |-> NoEvent]

Places == {"starting", "opening", "turn", "asked", "answered", "parse", "launch",
           "cell", "asking", "returning", "ran", "recover", "repairing", "exiting"}

Results == {"exception", "final", "bad_final", "nothing"}

\* invalid: an InvalidRequestError; killed: an ExecutionTimeoutError or a
\* HostProtocolError; remote: an error that has passed through a record.
Errors == {"none", "limit", "invalid", "killed", "executor", "remote", "aborted"}

Exceptions == [error : Errors, cause : Nat \cup {NoEvent}]

Frames == [
    branch : Nat,
    place  : Places,
    turn   : 1..(MaxTurns + 1),
    cause  : Nat,               \* the event the next one of the branch hangs on
    role   : {"controller", "subcall"},
    call   : Nat,               \* the latest model call
    action : Nat,               \* the controller.action of the running cell
    latch  : Exceptions,        \* the worker's host_failure
    result : Results,
    items  : Seq(Nat)]          \* the conversation, an item as its event

TypeOK ==
    /\ LedgerTypeOK
    /\ closed \in BOOLEAN
    /\ phase \in {"starting", "running", "completing", "failing", "closing", "closed"}
    /\ mode \in RecoveryModes
    /\ stack \in Seq(Frames)
    /\ branches \in Nat
    /\ raised \in Exceptions
    /\ fatal \in Exceptions
    /\ turns \in 0..MaxTurns

Init ==
    /\ LedgerInit
    /\ TraceInit
    /\ phase = "starting"
    /\ mode \in RecoveryModes
    /\ stack = <<>>
    /\ branches = 0
    /\ raised = NoError
    /\ fatal = NoError
    /\ turns = 0

Tick ==
    /\ ~closed /\ ~Expired
    /\ clock' = clock + 1
    /\ UNCHANGED <<counters, traceVars, loopVars>>

-----------------------------------------------------------------------------
Depth == Len(stack) - 1
Top == stack[Len(stack)]
Below == SubSeq(stack, 1, Len(stack) - 1)

OnTop(s, f) == [s EXCEPT ![Len(s)] = f]

\* The top branch is at a place, and no exception is on its way.
TopAt(place) == stack # <<>> /\ raised = NoError /\ Top.place = place

Log(type, call, parent, good) == Emit(type, Top.branch, call, parent, good)

Become(f) == stack' = OnTop(stack, f)

NewBranch(parent) ==
    [branch |-> branches, place |-> "starting", turn |-> 1, cause |-> parent,
     role |-> "controller", call |-> 0, action |-> 0, latch |-> NoError,
     result |-> "nothing", items |-> <<>>]

\* The branch raises: with closes its executor and the exception leaves it.
Leave(error, cause) ==
    /\ raised' = [error |-> error, cause |-> cause]
    /\ UNCHANGED stack

(* How an exception of a host call is delivered, s being the stack whose   *)
(* top branch runs the cell that made the call.  A timeout or a breach of  *)
(* the IPC protocol closes the executor by force and leaves the branch, as *)
(* a new exception without a causal event; an invalid request goes to the  *)
(* cell; any other is latched in the worker, for good.                     *)
HostRaisesFault(s, exception) ==
    IF exception.error = "killed"
       THEN UNCHANGED <<stack, raised>>
       ELSE /\ stack' = OnTop(s, [s[Len(s)] EXCEPT !.place = "cell", !.latch = exception])
            /\ raised' = NoError

HostRaises(s, exception) ==
    LET f == s[Len(s)]
    IN  \/ /\ exception.error = "killed"
           /\ stack' = s
           /\ raised' = [error |-> "killed", cause |-> NoEvent]
        \/ /\ exception.error = "invalid"
           /\ stack' = OnTop(s, [f EXCEPT !.place = "cell"])
           /\ raised' = NoError
        \/ /\ exception.error \notin {"killed", "invalid"}
           /\ stack' = OnTop(s, [f EXCEPT !.place = "cell", !.latch = exception])
           /\ raised' = NoError

Limit == [error |-> "limit", cause |-> NoEvent]

\* The run's deadline has passed, or that of the cell a child was started by.
OutOfTime ==
    \/ Expired /\ Leave("limit", NoEvent)
    \/ Depth > 0 /\ Leave("killed", NoEvent)

\* The handler looks at the deadline once more before the value is sent.
HostReturns(s) ==
    \/ /\ ~Expired
       /\ stack' = OnTop(s, [s[Len(s)] EXCEPT !.place = "cell"])
       /\ raised' = NoError
    \/ /\ Expired
       /\ HostRaises(s, Limit)

-----------------------------------------------------------------------------
(* The start of a run and of a branch *)

StartRun ==
    /\ phase = "starting"
    /\ Emit("run.started", Root, NoCall, NoEvent, TRUE)
    /\ phase' = "running"
    /\ stack' = <<NewBranch(nextId)>>
    /\ branches' = branches + 1
    /\ UNCHANGED <<ledgerVars, mode, raised, fatal, turns>>

StartBranch ==
    /\ TopAt("starting")
    /\ \/ /\ ~Expired
          /\ Log("branch.started", NoCall, Top.cause, TRUE)
          /\ Become([Top EXCEPT !.place = "opening", !.cause = nextId, !.items = <<nextId>>])
          /\ UNCHANGED raised
       \/ OutOfTime /\ UNCHANGED traceVars
    /\ UNCHANGED <<ledgerVars, phase, mode, branches, fatal, turns>>

\* The executor starts, or does not in time, or not at all.
OpenExecutor ==
    /\ TopAt("opening")
    /\ \/ Become([Top EXCEPT !.place = "turn"]) /\ UNCHANGED raised
       \/ OutOfTime
       \/ \E error \in {"killed", "executor"} : Leave(error, NoEvent)
    /\ UNCHANGED <<ledgerVars, traceVars, phase, mode, branches, fatal, turns>>

-----------------------------------------------------------------------------
(* A turn, up to the cell *)

TurnsLeftFault(f) == f.turn <= MaxTurns + 1

TurnsLeft(f) == f.turn <= MaxTurns

\* reserve_model_call and the request event of _call_model.
Request(f, parent) ==
    /\ CanReserveModelCall
    /\ ReserveModelCall
    /\ Log("model.request", modelCalls + 1, parent, TRUE)
    /\ Become([f EXCEPT !.place = "asked", !.call = modelCalls + 1])
    /\ UNCHANGED raised

ControllerTurn ==
    /\ TopAt("turn")
    /\ TurnsLeft(Top)
    /\ turns' = IF Depth = 0 THEN Top.turn ELSE turns
    /\ \/ Request([Top EXCEPT !.role = "controller"], Top.cause)
       \/ /\ ~CanReserveModelCall
          /\ Leave("limit", NoEvent)
          /\ UNCHANGED <<ledgerVars, traceVars>>
    /\ UNCHANGED <<phase, mode, branches, fatal>>

TurnsExhausted ==
    /\ TopAt("turn")
    /\ ~TurnsLeft(Top)
    /\ Leave("limit", NoEvent)
    /\ UNCHANGED <<ledgerVars, traceVars, phase, mode, branches, fatal, turns>>

CallResponds ==
    /\ TopAt("asked")
    /\ \E good \in BOOLEAN :
          Log("model.response", Top.call, IdOf("model.request", Top.call), good)
    /\ Become([Top EXCEPT !.place = "answered", !.cause = nextId])
    /\ UNCHANGED <<ledgerVars, phase, mode, branches, raised, fatal, turns>>

\* The exception of a call is a record from here on, but a record still
\* tells an InvalidRequestError, which a backend may raise, from the others.
FailureOfCall == {"remote", "invalid"}

\* append_response keeps the first item and what it takes of this response,
\* which may be nothing.
ItemsAfterResponse(items, event) == {<<items[1]>>, <<items[1], event>>}

FailureParentFault(f) == IdOf("model.request", f.call)

FailureParent(f) ==
    IF f.place = "answered" THEN IdOf("model.response", f.call)
                            ELSE IdOf("model.request", f.call)

\* Every check after model.response may fail a response that is good; see
\* ModelCalls for the reasons.  A response that is not good fails.
CallFails ==
    /\ TopAt("asked") \/ TopAt("answered")
    /\ Log("model.failed", Top.call, FailureParent(Top), FALSE)
    /\ \E error \in FailureOfCall :
          IF Top.role = "controller"
             THEN Leave(error, nextId)
             ELSE HostRaises(stack, [error |-> error, cause |-> nextId])
    /\ UNCHANGED <<ledgerVars, phase, mode, branches, fatal, turns>>

CallSucceeds ==
    /\ TopAt("answered")
    /\ ~Expired
    /\ lines[Len(lines)].good
    /\ IF Top.role = "controller"
          THEN \E items \in ItemsAfterResponse(Top.items, Top.cause) :
                     Become([Top EXCEPT !.place = "parse", !.items = items])
          ELSE Become([Top EXCEPT !.place = "returning"])
    /\ UNCHANGED <<ledgerVars, traceVars, phase, mode, branches, raised, fatal, turns>>

\* The response of a subcall is on its way to the cell.
ReturnValue ==
    /\ TopAt("returning")
    /\ HostReturns(stack)
    /\ UNCHANGED <<ledgerVars, traceVars, phase, mode, branches, fatal, turns>>

\* The response is incomplete or holds no cell, or its cell is started.
Parse ==
    /\ TopAt("parse")
    /\ \/ Become([Top EXCEPT !.place = "recover"]) /\ UNCHANGED traceVars
       \/ /\ Log("controller.action", NoCall, Top.cause, TRUE)
          /\ Become([Top EXCEPT !.place = "launch", !.action = nextId,
                                !.latch = NoError, !.result = "nothing"])
    /\ UNCHANGED <<ledgerVars, phase, mode, branches, raised, fatal, turns>>

\* The timeout of the cell is computed before it is sent to the worker.
StartCell ==
    /\ TopAt("launch")
    /\ \/ ~Expired /\ Become([Top EXCEPT !.place = "cell"]) /\ UNCHANGED raised
       \/ OutOfTime
    /\ UNCHANGED <<ledgerVars, traceVars, phase, mode, branches, fatal, turns>>

-----------------------------------------------------------------------------
(* The cell *)

\* The latch is not looked at.
HostCallsFault(f) == TRUE

\* host_call refuses once a failure is latched; the cell may go on without.
HostCalls(f) == f.latch = NoError

\* reserve_subcalls comes first in every operation of _handle_action.
SubcallReserved ==
    /\ TopAt("cell")
    /\ HostCalls(Top)
    /\ CanReserveSubcalls(1)
    /\ ReserveSubcalls(1)

SubcallRefused ==
    /\ TopAt("cell")
    /\ HostCalls(Top)
    /\ ~CanReserveSubcalls(1)
    /\ HostRaises(stack, Limit)
    /\ UNCHANGED <<ledgerVars, traceVars, phase, mode, branches, fatal, turns>>

ModelComplete ==
    /\ SubcallReserved
    /\ Become([Top EXCEPT !.place = "asking", !.role = "subcall"])
    /\ UNCHANGED <<traceVars, phase, mode, branches, raised, fatal, turns>>

\* The subcall stays spent when there is no model call left for it.
AskModel ==
    /\ TopAt("asking")
    /\ \/ Request(Top, Top.action)
       \/ /\ ~CanReserveModelCall
          /\ HostRaises(stack, Limit)
          /\ UNCHANGED <<ledgerVars, traceVars>>
    /\ UNCHANGED <<phase, mode, branches, fatal, turns>>

MayRecurseFault == Depth <= MaxDepth

\* allow_recursion in the worker and _ensure_recursion in the host.
MayRecurse == Depth < MaxDepth

\* The child hangs on the controller.action of the cell that starts it.
RlmComplete ==
    /\ MayRecurse
    /\ SubcallReserved
    /\ stack' = Append(stack, NewBranch(Top.action))
    /\ branches' = branches + 1
    /\ UNCHANGED <<traceVars, phase, mode, raised, fatal, turns>>

\* A request is validated after its subcall was reserved; the cell is told.
InvalidRequest ==
    /\ SubcallReserved
    /\ UNCHANGED <<traceVars, loopVars>>

\* execute returns.  The cell may have swallowed the exception of a failed
\* host call and even submitted a final: the latch outlasts both.
CellEnds ==
    /\ TopAt("cell")
    /\ Log("controller.execution", NoCall, Top.action, TRUE)
    /\ \E result \in Results :
          Become([Top EXCEPT !.place = "ran", !.cause = nextId, !.result = result])
    /\ UNCHANGED <<ledgerVars, phase, mode, branches, raised, fatal, turns>>

\* The cell outlives its timeout, or its process dies: there is no result.
CellDies ==
    /\ TopAt("cell")
    /\ \E error \in {"killed", "executor"} : Leave(error, NoEvent)
    /\ UNCHANGED <<ledgerVars, traceVars, phase, mode, branches, fatal, turns>>

-----------------------------------------------------------------------------
(* After the cell *)

\* The event of the execution instead of the latched one.
HostFailureFault ==
    /\ TopAt("ran")
    /\ Top.latch # NoError
    /\ Leave("remote", Top.cause)
    /\ UNCHANGED <<ledgerVars, traceVars, phase, mode, branches, fatal, turns>>

\* _raise_host_failure: the latched error, with the event that caused it.
HostFailure ==
    /\ TopAt("ran")
    /\ Top.latch # NoError
    /\ Leave("remote", Top.latch.cause)
    /\ UNCHANGED <<ledgerVars, traceVars, phase, mode, branches, fatal, turns>>

\* An exception of the cell, or a final that cannot be accepted.
CellFaulty ==
    /\ TopAt("ran")
    /\ Top.latch = NoError
    /\ Top.result \in {"exception", "bad_final"}
    /\ Become([Top EXCEPT !.place = "recover"])
    /\ UNCHANGED <<ledgerVars, traceVars, phase, mode, branches, raised, fatal, turns>>

\* A final that is accepted is traced before the executor is closed.
BranchCompletes ==
    /\ TopAt("ran")
    /\ Top.latch = NoError
    /\ Top.result = "final"
    /\ Log("branch.completed", NoCall, Top.cause, TRUE)
    /\ Become([Top EXCEPT !.place = "exiting", !.cause = nextId])
    /\ UNCHANGED <<ledgerVars, phase, mode, branches, raised, fatal, turns>>

\* close may fail, which takes the final away; with an exception on its way
\* out the failure of close would be only its cause.
ExitExecutor ==
    /\ TopAt("exiting")
    /\ \/ Leave("executor", NoEvent) /\ UNCHANGED phase
       \/ /\ Depth = 0
          /\ phase' = "completing"
          /\ stack' = <<>>
          /\ UNCHANGED raised
       \/ /\ Depth > 0
          /\ HostReturns(Below)
          /\ UNCHANGED phase
    /\ UNCHANGED <<ledgerVars, traceVars, mode, branches, fatal, turns>>

NextTurn(f, event) ==
    [f EXCEPT !.place = "turn", !.turn = f.turn + 1, !.cause = event,
              !.items = Append(f.items, event)]

Observe ==
    /\ TopAt("ran")
    /\ Top.latch = NoError
    /\ Top.result = "nothing"
    /\ Log("controller.observation", NoCall, Top.cause, TRUE)
    /\ Become(NextTurn(Top, nextId))
    /\ UNCHANGED <<ledgerVars, phase, mode, branches, raised, fatal, turns>>

\* _repair: the decision is traced, then carried out.
Recover ==
    /\ TopAt("recover")
    /\ Log("controller.recovery_decision", NoCall, Top.cause, TRUE)
    /\ \/ /\ mode = "repair"
          /\ Become([Top EXCEPT !.place = "repairing", !.cause = nextId])
          /\ UNCHANGED raised
       \/ /\ mode = "abort"
          /\ Leave("aborted", nextId)
    /\ UNCHANGED <<ledgerVars, phase, mode, branches, fatal, turns>>

\* The decision instead of the repair is what the next turn hangs on.
RepairFault ==
    /\ TopAt("repairing")
    /\ Log("controller.repair", NoCall, Top.cause, TRUE)
    /\ Become(NextTurn(Top, Top.cause))
    /\ UNCHANGED <<ledgerVars, phase, mode, branches, raised, fatal, turns>>

Repair ==
    /\ TopAt("repairing")
    /\ Log("controller.repair", NoCall, Top.cause, TRUE)
    /\ Become(NextTurn(Top, nextId))
    /\ UNCHANGED <<ledgerVars, phase, mode, branches, raised, fatal, turns>>

-----------------------------------------------------------------------------
(* The end of a branch that raised, and of the run *)

\* To the cell that started the branch, as the exception of its host call.
Unwind ==
    /\ raised # NoError
    /\ IF Depth = 0
          THEN /\ phase' = "failing"
               /\ fatal' = raised
               /\ stack' = <<>>
               /\ raised' = NoError
          ELSE /\ HostRaises(Below, raised)
               /\ UNCHANGED <<phase, fatal>>
    /\ UNCHANGED <<ledgerVars, traceVars, mode, branches, turns>>

CompleteRun ==
    /\ phase = "completing"
    /\ Emit("run.completed", Root, NoCall, lines[Len(lines)].id, TRUE)
    /\ phase' = "closing"
    /\ UNCHANGED <<ledgerVars, mode, stack, branches, raised, fatal, turns>>

FailRun ==
    /\ phase = "failing"
    /\ Emit("run.failed", Root, NoCall, IF fatal.cause = NoEvent THEN 0 ELSE fatal.cause, TRUE)
    /\ phase' = "closing"
    /\ UNCHANGED <<ledgerVars, mode, stack, branches, raised, fatal, turns>>

CloseRun ==
    /\ phase = "closing"
    /\ Close([status |-> IF fatal = NoError THEN "completed" ELSE "failed",
              turns |-> turns, modelCalls |-> modelCalls, subcalls |-> subcalls])
    /\ phase' = "closed"
    /\ UNCHANGED <<ledgerVars, mode, stack, branches, raised, fatal, turns>>

-----------------------------------------------------------------------------
BranchStep ==
    \/ StartBranch
    \/ OpenExecutor
    \/ ControllerTurn
    \/ TurnsExhausted
    \/ CallResponds
    \/ CallFails
    \/ CallSucceeds
    \/ ReturnValue
    \/ Parse
    \/ StartCell
    \/ AskModel
    \/ CellEnds
    \/ CellDies
    \/ HostFailure
    \/ CellFaulty
    \/ BranchCompletes
    \/ ExitExecutor
    \/ Observe
    \/ Recover
    \/ Repair
    \/ Unwind

HostCallStep ==
    \/ ModelComplete
    \/ RlmComplete
    \/ InvalidRequest
    \/ SubcallRefused

RunStep == StartRun \/ CompleteRun \/ FailRun \/ CloseRun

\* run has returned or raised.
Terminated == closed /\ UNCHANGED vars

Next == Tick \/ BranchStep \/ HostCallStep \/ RunStep \/ Terminated

Spec == Init /\ [][Next]_vars

\* The engine's thread runs; backends answer and cells end by their timeouts.
FairSpec == Spec /\ WF_vars(BranchStep) /\ WF_vars(RunStep)

-----------------------------------------------------------------------------
(* Properties *)

\* trace_reader.py:164-220, 362-432, test_trace_reader.py:158-162.  While model
\* calls come one at a time, what a run leaves is a trace the reader accepts: a
\* response and its failure are adjacent, whatever fails and however deep.
TraceAccepted ==
    closed =>
        /\ IdsOrdered /\ OneStartOneEnd /\ CallsCoherent /\ CallsAdjacent
        /\ manifest.status = "completed" <=> lines[Len(lines)].type = "run.completed"

\* README.md:255-258, executor.py:515-537.  The failure of a call or a recovery
\* that was aborted keeps its causal event through every executor it crosses:
\* it is what run.failed names, unless a second failure took its place.
CauseSurvives ==
    LET aborts == {i \in Positions : lines[i].type = "controller.recovery_decision"}
        failures == {i \in Positions : lines[i].type = "model.failed"}
    IN  closed /\ fatal.cause # NoEvent =>
            \E i \in aborts \cup failures :
                /\ lines[i].id = lines[Len(lines)].parent
                /\ \A j \in Positions :
                      i < j /\ j < Len(lines) => lines[j].type = "controller.execution"

\* What is left of a run is a trace the reader accepts, and its last event names
\* the first cause of the failure.
TraceTellsTheCause == TraceAccepted /\ CauseSurvives

LastOf(branch, types) ==
    LET events == {i \in Positions : lines[i].branch = branch /\ lines[i].type \in types}
    IN  lines[CHOOSE i \in events : \A j \in events : j <= i].id

Turning == {"branch.started", "controller.observation", "controller.repair"}

\* protocol.py:77-104, engine.py:384-560.  When a branch asks its controller, the
\* conversation is the bootstrap or ends with the latest observation or repair of
\* that branch, holds at most the latest response besides, nothing of a child's
\* or of an older turn, and the request hangs on that last event.
ConversationCurrent ==
    \A k \in DOMAIN stack :
        LET f == stack[k]
            latest == LastOf(f.branch, Turning)
        IN  f.place = "turn" =>
                /\ f.cause = latest
                /\ f.items[Len(f.items)] = latest
                /\ f.turn = 1 => Len(f.items) = 1
                /\ Len(f.items) <= 3
                /\ Len(f.items) = 3 =>
                      \E i \in Positions :
                          /\ lines[i].id = f.items[2]
                          /\ lines[i].type = "model.response"
                          /\ lines[i].branch = f.branch
                          /\ \A j \in Positions :
                                lines[j].branch = f.branch /\ lines[j].type = "controller.action"
                                    => j < i \/ lines[j].parent = lines[i].id

\* engine.py:708-752, 877-882.  No branch is deeper than the limit, and every
\* child was paid for with a subcall of its own, as was every call of a cell.
RecursionPaid ==
    /\ Depth <= MaxDepth
    /\ stack # <<>> =>
          branches - 1 + Cardinality({i \in Positions : lines[i].type = "model.request"
                                         /\ \E j \in Positions : lines[j].id = lines[i].parent
                                               /\ lines[j].type = "controller.action"})
              <= subcalls

\* A run ends although its controller never submits a final response.
RunCloses == <>closed

-----------------------------------------------------------------------------
(* What a run promises about failure, see RunVerdict *)

Doomed ==
    \/ phase = "failing"
    \/ raised.error \notin {"none", "invalid"}
    \/ \E k \in DOMAIN stack : stack[k].latch # NoError

Verdict == INSTANCE RunVerdict WITH
    verdict <- IF phase \in {"closing", "closed"}
                  THEN IF fatal = NoError THEN "completed" ELSE "failed"
                  ELSE IF Doomed THEN "doomed" ELSE "open",
    asked <- modelCalls

VerdictSpec == Verdict!Spec
=============================================================================
