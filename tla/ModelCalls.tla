----------------------------- MODULE ModelCalls -----------------------------
(***************************************************************************)
(* One run of the engine as its model calls see it: RLM.run, _call_model   *)
(* and _parallel_map of src/src/rlm/engine.py over the shared ledger and   *)
(* the shared trace.                                                       *)
(*                                                                         *)
(* The engine's thread performs one operation after another: a controller  *)
(* call, a single subcall or a batch of subcalls.  A batch runs on a pool  *)
(* of workers while the engine's thread waits, so the calls of a batch     *)
(* interleave with each other at every lock and reading of the clock.  When *)
(* the run ends, well or not, the trace gets its final event and manifest. *)
(*                                                                         *)
(* Calls are numbered in the order they are asked for; an operation takes  *)
(* the numbers low..high.  What a cell does with its results, and turns,   *)
(* repairs and recursion, are BranchLoop's; here the engine's thread       *)
(* chooses its next operation freely.                                      *)
(***************************************************************************)
EXTENDS Ledger, TraceLog

CONSTANTS
    NCalls,         \* bound on the model calls asked for in a run
    MaxClock,       \* bound of the clock, past the deadline
    Interrupts      \* whether a KeyboardInterrupt may reach the engine's thread

ASSUME NCallsAssumption == NCalls \in Nat \ {0}
ASSUME MaxClockAssumption == MaxClock \in Nat /\ MaxClock > Deadline
ASSUME InterruptsAssumption == Interrupts \in BOOLEAN

Calls == 1..NCalls

ASSUME NoCallAssumption == NoCall \notin Calls

VARIABLES
    phase,          \* what the engine's thread is doing
    op,             \* the kind of the current operation
    low, high,      \* its calls; 1..high have been asked for
    role,           \* the role of each call in its ModelCallContext
    interrupted,    \* whether the KeyboardInterrupt has come
    fatal,          \* the exception that ends the run and its causal event
    pc,             \* where each call is
    err,            \* the exception each call carries
    reply,          \* what the backend answered
    wait,           \* the acquire timeout read
    arrived         \* the tick at which the backend answered

engineVars == <<phase, op, low, high, role, interrupted, fatal>>
callVars == <<pc, err, reply, wait, arrived>>
vars == <<ledgerVars, traceVars, engineVars, callVars>>

Phases == {"starting", "running", "waiting", "failing", "closing", "closed"}

Places == {"unused", "queued", "reserve", "request", "slot", "checked", "timed",
           "acquired", "entered", "backend", "exiting", "releasing",
           "response", "recheck", "record", "failing", "done", "cancelled"}

Errors == {"none", "deadline", "call_limit", "subcall_limit", "cell_timeout",
           "upstream", "protocol", "token_limit", "status", "interrupt", "abandoned"}

\* The ways a backend can answer: an outcome, a value that is no JSON object,
\* a malformed envelope, and an envelope with a failed or nonterminal status.
Replies == {"outcome", "no_object", "bad_envelope", "bad_status"}

Operation == low..high
Running == {c \in Calls : pc[c] \notin {"unused", "queued", "done", "cancelled"}}
Queued == {c \in Calls : pc[c] = "queued"}
Settled == \A c \in Operation : pc[c] \in {"done", "cancelled"}
Failed == {c \in Operation : err[c] # "none"}
IsFirst(c, S) == c \in S /\ \A d \in S : c <= d

\* As many workers as calls, whatever the limit.
WorkersFault == high - low + 1

Workers == IF MaxParallel < high - low + 1 THEN MaxParallel ELSE high - low + 1

CallsTypeOK ==
    /\ phase \in Phases
    /\ op \in {"none", "controller", "subcall", "batch"}
    /\ low \in Nat /\ high \in 0..NCalls
    /\ role \in [Calls -> {"none", "controller", "subcall"}]
    /\ interrupted \in BOOLEAN
    /\ fatal.error \in Errors
    /\ pc \in [Calls -> Places]
    /\ err \in [Calls -> Errors]
    /\ reply \in [Calls -> Replies]
    /\ wait \in [Calls -> Nat]
    /\ arrived \in [Calls -> Nat]

TypeOK ==
    /\ LedgerTypeOK
    /\ nextId \in Nat /\ closed \in BOOLEAN /\ known \subseteq Nat
    /\ CallsTypeOK

Init ==
    /\ LedgerInit
    /\ TraceInit
    /\ phase = "starting"
    /\ op = "none"
    /\ low = 1 /\ high = 0
    /\ role = [c \in Calls |-> "none"]
    /\ interrupted = FALSE
    /\ fatal = [error |-> "none", cause |-> NoEvent]
    /\ pc = [c \in Calls |-> "unused"]
    /\ err = [c \in Calls |-> "none"]
    /\ reply = [c \in Calls |-> "outcome"]
    /\ wait = [c \in Calls |-> 0]
    /\ arrived = [c \in Calls |-> 0]

Tick ==
    /\ clock < MaxClock
    /\ ~closed
    /\ clock' = clock + 1
    /\ UNCHANGED <<counters, traceVars, engineVars, callVars>>

-----------------------------------------------------------------------------
(* RLM.run, up to its operations *)

\* The first event of the run; _run_branch adds its own before any call.
StartRun ==
    /\ phase = "starting"
    /\ Emit("run.started", Root, NoCall, NoEvent, TRUE)
    /\ phase' = "running"
    /\ UNCHANGED <<ledgerVars, op, low, high, role, interrupted, fatal, callVars>>

\* An exception reaches run; its causal parent is the event it names.
FailRun(error, cause) ==
    /\ phase' = "failing"
    /\ fatal' = [error |-> error, cause |-> cause]

Ask(kind, n, place) ==
    /\ phase = "running"
    /\ high + n <= NCalls
    /\ op' = kind
    /\ low' = high + 1
    /\ high' = high + n
    /\ role' = [c \in Calls |-> IF c \notin (high + 1)..(high + n) THEN role[c]
                               ELSE IF kind = "controller" THEN kind ELSE "subcall"]
    /\ pc' = [c \in Calls |-> IF c \in (high + 1)..(high + n) THEN place ELSE pc[c]]
    /\ phase' = "waiting"
    /\ UNCHANGED <<traceVars, interrupted, fatal, err, reply, wait, arrived>>

\* The controller's turn: a model call, but not a subcall.
AskController ==
    /\ Ask("controller", 1, "reserve")
    /\ UNCHANGED ledgerVars

\* MODEL_COMPLETE: one reserved subcall, on the engine's own thread.
AskSubcall ==
    /\ CanReserveSubcalls(1)
    /\ ReserveSubcalls(1)
    /\ Ask("subcall", 1, "reserve")

\* MODEL_COMPLETE_BATCH: the whole batch is reserved before any of it is
\* submitted, and its members queue for the workers in order.
AskBatchFault(n) ==
    /\ n > 1
    /\ CanReserveSubcalls(1)
    /\ ReserveSubcalls(1)
    /\ Ask("batch", n, "queued")

AskBatch(n) ==
    /\ n > 1
    /\ CanReserveSubcalls(n)
    /\ ReserveSubcalls(n)
    /\ Ask("batch", n, "queued")

\* A single request is validated only after its subcall was reserved; the
\* cell gets an exception it may handle, and the subcall stays spent.
InvalidSubcall ==
    /\ phase = "running"
    /\ CanReserveSubcalls(1)
    /\ ReserveSubcalls(1)
    /\ UNCHANGED <<traceVars, engineVars, callVars>>

RefuseSubcalls(n) ==
    /\ phase = "running"
    /\ high + n <= NCalls
    /\ ~CanReserveSubcalls(n)
    /\ FailRun(IF Expired THEN "deadline" ELSE "subcall_limit", NoEvent)
    /\ UNCHANGED <<ledgerVars, traceVars, op, low, high, role, interrupted, callVars>>

\* The run ends for a reason of its own: no turns left, a recovery that
\* aborts, an executor that fails.
AbandonRun ==
    /\ phase = "running"
    /\ FailRun("abandoned", NoEvent)
    /\ UNCHANGED <<ledgerVars, traceVars, op, low, high, role, interrupted, callVars>>

-----------------------------------------------------------------------------
(* _parallel_map *)

\* A worker with nothing to do takes the first submitted call.
WorkerTakes(c) ==
    /\ IsFirst(c, Queued)
    /\ Cardinality(Running) < Workers
    /\ pc' = [pc EXCEPT ![c] = "reserve"]
    /\ UNCHANGED <<ledgerVars, traceVars, engineVars, err, reply, wait, arrived>>

\* future.result() is interrupted: queued futures are cancelled and the pool
\* is shut down, which still waits for the running ones.
InterruptBatch ==
    /\ Interrupts /\ ~interrupted
    /\ phase = "waiting" /\ op = "batch"
    /\ interrupted' = TRUE
    /\ pc' = [c \in Calls |-> IF c \in Queued THEN "cancelled" ELSE pc[c]]
    /\ UNCHANGED <<ledgerVars, traceVars, phase, op, low, high, role, fatal,
                   err, reply, wait, arrived>>

\* The causal parent of a call's exception is its model.failed event.
CauseOf(c) == IdOf("model.failed", c)

\* The failure that surfaces is the first in request order, not the first in
\* time; an interrupt goes before it.  A handled operation checks the deadline.
OperationOutcome ==
    /\ phase = "waiting"
    /\ \/ interrupted /\ FailRun("interrupt", NoEvent)
       \/ /\ ~interrupted
          /\ \E c \in Operation : IsFirst(c, Failed) /\ FailRun(err[c], CauseOf(c))
       \/ /\ ~interrupted /\ Failed = {} /\ Expired /\ op # "controller"
          /\ FailRun("deadline", NoEvent)
       \/ /\ ~interrupted /\ Failed = {} /\ (~Expired \/ op = "controller")
          /\ phase' = "running" /\ UNCHANGED fatal
    /\ UNCHANGED <<ledgerVars, traceVars, op, low, high, role, interrupted, callVars>>

\* The first exception ends the operation, as a map over futures would.
OperationEndsFault == (Settled \/ Failed # {}) /\ OperationOutcome

\* The exception of whichever call failed first is taken.
OperationEndsOrderFault ==
    \/ Settled /\ Failed = {} /\ OperationOutcome
    \/ /\ phase = "waiting" /\ Settled
       /\ \E c \in Failed : FailRun(err[c], CauseOf(c))
       /\ UNCHANGED <<ledgerVars, traceVars, op, low, high, role, interrupted, callVars>>

\* A cancelled future is polled for a result, for ever.
OperationEndsPollFault ==
    \/ (\A c \in Operation : pc[c] = "done") /\ OperationOutcome
    \/ phase = "waiting" /\ Settled /\ UNCHANGED vars

\* The operation is over once every call of it has an outcome.
OperationEnds == Settled /\ OperationOutcome

-----------------------------------------------------------------------------
(* _call_model for call c, on the engine's thread or on a worker           *)

Goto(c, from, to) == pc[c] = from /\ pc' = [pc EXCEPT ![c] = to]

Raise(c, error) == err' = [err EXCEPT ![c] = error]

Move(c, from, to) ==
    /\ Goto(c, from, to)
    /\ UNCHANGED <<ledgerVars, traceVars, engineVars, err, reply, wait, arrived>>

\* An exception inside the try statement: the handler writes model.failed.
Fail(c, from, error) ==
    /\ Goto(c, from, "failing")
    /\ Raise(c, error)
    /\ UNCHANGED <<ledgerVars, traceVars, engineVars, reply, wait, arrived>>

\* Before the try statement: the call was not made and leaves no event.
Reserve(c) ==
    \/ /\ CanReserveModelCall
       /\ ReserveModelCall
       /\ Goto(c, "reserve", "request")
       /\ UNCHANGED <<traceVars, engineVars, err, reply, wait, arrived>>
    \/ /\ ~CanReserveModelCall
       /\ Goto(c, "reserve", "done")
       /\ Raise(c, IF Expired THEN "deadline" ELSE "call_limit")
       /\ UNCHANGED <<ledgerVars, traceVars, engineVars, reply, wait, arrived>>

Request(c) ==
    /\ Goto(c, "request", "slot")
    /\ Emit("model.request", Root, c, 0, TRUE)
    /\ UNCHANGED <<ledgerVars, engineVars, err, reply, wait, arrived>>

CheckSlot(c) ==
    \/ ~Expired /\ Move(c, "slot", "checked")
    \/ Expired /\ Fail(c, "slot", "deadline")

ReadRemaining(c) ==
    /\ Goto(c, "checked", "timed")
    /\ wait' = [wait EXCEPT ![c] = Remaining]
    /\ UNCHANGED <<ledgerVars, traceVars, engineVars, err, reply, arrived>>

\* There is a worker for each slot at most, so acquire never has to wait here;
\* callers that do are RunLedger's.
Acquire(c) ==
    /\ TakePermit
    /\ Goto(c, "timed", "acquired")
    /\ UNCHANGED <<traceVars, engineVars, err, reply, wait, arrived>>

EnterOrExpire(c) ==
    \/ /\ ~Expired
       /\ EnterSlot
       /\ Goto(c, "acquired", "entered")
       /\ UNCHANGED <<traceVars, engineVars, err, reply, wait, arrived>>
    \/ /\ Expired
       /\ Goto(c, "acquired", "releasing")
       /\ Raise(c, "deadline")
       /\ UNCHANGED <<ledgerVars, traceVars, engineVars, reply, wait, arrived>>

\* The arguments of backend.complete are computed inside the slot.
StartBackend(c) ==
    \/ ~Expired /\ Move(c, "entered", "backend")
    \/ /\ Expired
       /\ Goto(c, "entered", "exiting")
       /\ Raise(c, "deadline")
       /\ UNCHANGED <<ledgerVars, traceVars, engineVars, reply, wait, arrived>>

BackendReturns(c) ==
    /\ Goto(c, "backend", "exiting")
    /\ \E r \in Replies : reply' = [reply EXCEPT ![c] = r]
    /\ arrived' = [arrived EXCEPT ![c] = clock]
    /\ UNCHANGED <<ledgerVars, traceVars, engineVars, err, wait>>

BackendRaises(c) ==
    /\ Goto(c, "backend", "exiting")
    /\ Raise(c, "upstream")
    /\ UNCHANGED <<ledgerVars, traceVars, engineVars, reply, wait, arrived>>

\* A KeyboardInterrupt while the engine's own thread is in the backend.
InterruptCall(c) ==
    /\ Interrupts /\ ~interrupted
    /\ op # "batch"
    /\ Goto(c, "backend", "exiting")
    /\ Raise(c, "interrupt")
    /\ interrupted' = TRUE
    /\ UNCHANGED <<ledgerVars, traceVars, phase, op, low, high, role, fatal, reply, wait, arrived>>

\* The cell that asked has a deadline of its own, looked at before the backend
\* starts and after its response is traced; its clock is not modelled.
CellTimeout(c) ==
    /\ role[c] = "subcall"
    /\ \/ /\ Goto(c, "entered", "exiting")
          /\ Raise(c, "cell_timeout")
          /\ UNCHANGED <<ledgerVars, traceVars, engineVars, reply, wait, arrived>>
       \/ Fail(c, "recheck", "cell_timeout")

ExitSlot(c) ==
    /\ LeaveSlot
    /\ Goto(c, "exiting", "releasing")
    /\ UNCHANGED <<traceVars, engineVars, err, reply, wait, arrived>>

ReleaseSlot(c) ==
    /\ ReleasePermit
    /\ Goto(c, "releasing", IF err[c] = "none" THEN "response" ELSE "failing")
    /\ UNCHANGED <<traceVars, engineVars, err, reply, wait, arrived>>

\* Only a JSON object is traced as a response.
Response(c) ==
    \/ /\ reply[c] # "no_object"
       /\ Goto(c, "response", "recheck")
       /\ Emit("model.response", Root, c, IdOf("model.request", c), reply[c] = "outcome")
       /\ UNCHANGED <<ledgerVars, engineVars, err, reply, wait, arrived>>
    \/ /\ reply[c] = "no_object"
       /\ Fail(c, "response", "protocol")

RecheckFault(c) == Move(c, "recheck", "record")

\* The deadline, then the envelope.
Recheck(c) ==
    \/ Expired /\ Fail(c, "recheck", "deadline")
    \/ ~Expired /\ Move(c, "recheck", "record")

\* A failed or nonterminal response is counted before its status is refused.
Record(c, u) ==
    \/ /\ reply[c] = "bad_envelope"
       /\ Fail(c, "record", "protocol")
    \/ /\ reply[c] # "bad_envelope"
       /\ RecordResponse(u)
       /\ LET error == IF RecordError(u) # "none" THEN RecordError(u)
                       ELSE IF reply[c] = "bad_status" THEN "status" ELSE "none"
          IN  /\ Raise(c, error)
              /\ Goto(c, "record", IF error = "none" THEN "done" ELSE "failing")
       /\ UNCHANGED <<traceVars, engineVars, reply, wait, arrived>>

\* parent_event_id=request_event_id in the handler as well.
FailedEventFault(c) ==
    /\ Goto(c, "failing", "done")
    /\ Emit("model.failed", Root, c, IdOf("model.request", c), FALSE)
    /\ UNCHANGED <<ledgerVars, engineVars, err, reply, wait, arrived>>

\* The exception handler, in a critical section of its own: other calls may
\* write events between the response of this call and its failure.
FailedEvent(c) ==
    /\ Goto(c, "failing", "done")
    /\ Emit("model.failed", Root, c,
            IF IdOf("model.response", c) # NoEvent THEN IdOf("model.response", c)
                                                   ELSE IdOf("model.request", c),
            FALSE)
    /\ UNCHANGED <<ledgerVars, engineVars, err, reply, wait, arrived>>

-----------------------------------------------------------------------------
(* RLM.run, after its operations *)

\* The root branch has its final; run.completed is written.
CompleteRun ==
    /\ phase = "running"
    /\ Emit("run.completed", Root, NoCall, 0, TRUE)
    /\ phase' = "closing"
    /\ UNCHANGED <<ledgerVars, op, low, high, role, interrupted, fatal, callVars>>

\* except BaseException: the failure names its causal event, or the start.
FailedRun ==
    /\ phase = "failing"
    /\ Emit("run.failed", Root, NoCall, IF fatal.cause # NoEvent THEN fatal.cause ELSE 0, TRUE)
    /\ phase' = "closing"
    /\ UNCHANGED <<ledgerVars, op, low, high, role, interrupted, fatal, callVars>>

\* finally: the manifest is built from the ledger under the trace's lock.
CloseRun ==
    /\ phase = "closing"
    /\ Close([status |-> IF fatal.error = "none" THEN "completed" ELSE "failed",
              active |-> active, peak |-> peak, maxParallel |-> MaxParallel,
              modelCalls |-> modelCalls, maxModelCalls |-> MaxModelCalls,
              subcalls |-> subcalls, maxSubcalls |-> MaxSubcalls,
              unreported |-> unreported])
    /\ phase' = "closed"
    /\ UNCHANGED <<ledgerVars, op, low, high, role, interrupted, fatal, callVars>>

-----------------------------------------------------------------------------
EngineStep ==
    \/ StartRun
    \/ OperationEnds
    \/ FailedRun
    \/ CloseRun

\* What the engine's thread does next, as the cells decide.
CellStep ==
    \/ AskController
    \/ AskSubcall
    \/ \E n \in 2..NCalls : AskBatch(n)
    \/ InvalidSubcall
    \/ \E n \in 1..NCalls : RefuseSubcalls(n)
    \/ AbandonRun
    \/ CompleteRun

CallStep(c) ==
    \/ WorkerTakes(c)
    \/ Reserve(c)
    \/ Request(c)
    \/ CheckSlot(c)
    \/ ReadRemaining(c)
    \/ Acquire(c)
    \/ EnterOrExpire(c)
    \/ StartBackend(c)
    \/ ExitSlot(c)
    \/ ReleaseSlot(c)
    \/ Response(c)
    \/ Recheck(c)
    \/ \E u \in Usages : Record(c, u)
    \/ FailedEvent(c)

BackendStep(c) == BackendReturns(c) \/ BackendRaises(c)

Interrupt == InterruptBatch \/ \E c \in Calls : InterruptCall(c)

\* run has returned or raised.
Terminated == closed /\ UNCHANGED vars

Next ==
    \/ Tick
    \/ EngineStep
    \/ CellStep
    \/ Interrupt
    \/ \E c \in Calls : CallStep(c) \/ BackendStep(c) \/ CellTimeout(c)
    \/ Terminated

Spec == Init /\ [][Next]_vars

\* Time passes, threads are scheduled, backends answer by their timeout and a
\* cell does not think for ever (it has a deadline of its own).
FairSpec ==
    /\ Spec
    /\ WF_vars(Tick) /\ WF_vars(EngineStep) /\ WF_vars(CellStep)
    /\ \A c \in Calls : WF_vars(CallStep(c)) /\ WF_vars(BackendStep(c))

-----------------------------------------------------------------------------
(* Properties *)

\* A run that left its trace closed left one that load_trace accepts
\* (trace_reader.py:164-220), but for the adjacency of a response and its
\* failure: ids in order, causal parents earlier, every request with its
\* outcome, one final event, and a manifest that agrees with it.
ClosedTraceCoherent ==
    closed => IdsOrdered /\ OneStartOneEnd /\ CallsCoherent /\ ManifestAgrees

\* trace_reader.py:402-403: "model.failed must occur immediately after its
\* model.response", in every trace a run leaves.
ResponseFailureAdjacent == closed => CallsAdjacent

\* engine.py:842-875.  Once the run has failed or closed no call is under way:
\* the pool is joined on every path, interrupts included, and all permits are
\* back in the semaphore.
QuietAtEnd ==
    phase \in {"failing", "closing", "closed"} =>
        /\ Running = {} /\ Queued = {}
        /\ permits = MaxParallel /\ active = 0

\* engine.py:668-707.  Every subcall that goes upstream was reserved, the
\* members of a batch all together: the requests of role subcall in the trace
\* never outnumber the reservations, although workers write them in any order.
SubcallsCovered ==
    Cardinality({c \in Calls : role[c] = "subcall" /\ At("model.request", c) # {}})
        <= subcalls

\* engine.py:845-852, test_engine.py:800-806.  When a batch fails, the event the
\* run's failure names is that of the first failed call in request order,
\* whichever call failed first in time.
FirstFailureSurfaces ==
    closed /\ fatal.error \in {"upstream", "protocol", "token_limit", "status"} =>
        LET failures == {c \in Operation : At("model.failed", c) # {}}
        IN  /\ failures # {}
            /\ \E c \in failures :
                  /\ \A d \in Operation : d < c => err[d] = "none"
                  /\ lines[Len(lines)].parent = IdOf("model.failed", c)

\* Every run ends with a closed trace, whatever its backends answer.
RunCloses == <>closed

-----------------------------------------------------------------------------
(* The calls of a run use the ledger as its callers do in RunLedger, so    *)
(* what is proved there holds here.                                        *)

CallerAt(place) ==
    CASE place \in {"unused", "queued", "reserve", "failing", "done", "cancelled"} -> "idle"
      [] place \in {"request", "slot"} -> "reserved"
      [] place \in {"response", "recheck"} -> "returned"
      [] place = "record" -> "recording"
      [] OTHER -> place

\* A status is refused after the ledger has recorded the response.
CallerOutcome(c) ==
    IF err[c] # "none"
       THEN CASE err[c] = "status" -> "ok"
              [] err[c] = "interrupt" -> "upstream"
              [] OTHER -> err[c]
       ELSE CASE pc[c] \in {"unused", "queued", "reserve", "cancelled"} -> "none"
              [] pc[c] = "done" -> "ok"
              [] OTHER -> "pending"

Caller == INSTANCE RunLedger WITH
            Threads <- Calls,
            BatchSizes <- 1..NCalls,
            pc <- [c \in Calls |-> CallerAt(pc[c])],
            outcome <- [c \in Calls |-> CallerOutcome(c)]

LedgerSpec == Caller!Spec
=============================================================================
