------------------------------ MODULE Executor ------------------------------
(***************************************************************************)
(* One IPythonExecutor and its worker process, src/src/rlm/executor.py:    *)
(* the host's start, execute and close, the command loop and host_call of  *)
(* _worker_main, and the two directions of the pipe between them.          *)
(*                                                                         *)
(* The worker runs one cell at a time; a cell may call the host and waits  *)
(* for the reply.  The worker may die, hang, or leave processes of its own *)
(* behind; the host may be interrupted.  Whatever happens, close walks     *)
(* through all its stages, each of which may fail.                         *)
(*                                                                         *)
(* Cells and host calls are numbers.  A frame that is not valid JSON, is   *)
(* too large or has the wrong fields ends the exchange as a dead worker or *)
(* a broken pipe does, and is not modelled apart.                          *)
(***************************************************************************)
EXTENDS Naturals, Sequences, FiniteSets

CONSTANTS
    MaxCells,       \* bound on the cells executed
    MaxCalls,       \* bound on the host calls of the worker
    MaxFaults       \* bound on the stages of close that fail

ASSUME MaxCellsAssumption == MaxCells \in Nat \ {0}
ASSUME MaxCallsAssumption == MaxCalls \in Nat
ASSUME MaxFaultsAssumption == MaxFaults \in Nat

VARIABLES
    host,           \* what the host's thread is doing
    cell,           \* the cell it executes, by number
    call,           \* the request it handles
    refused,        \* the first request of the cell it failed, or 0
    result,         \* the ExecutionResult it has: its cell and host_failure
    primary,        \* the exception that leaves the executor
    worker,         \* what the worker is doing
    running,        \* the cell the worker runs
    nextId,         \* state["next_id"]
    latch,          \* state["host_failure"]: the request that failed, or 0
    offspring,      \* processes the cells left in the worker's group
    toHost,         \* frames on their way to the host
    toWorker,       \* frames on their way to the worker
    stage,          \* the stage of close
    force,          \* its argument
    signalled,      \* the last signal reached the process group
    faults,         \* the stages that failed
    endpoints       \* the ends of the pipe the host still holds

hostVars == <<host, cell, call, refused, result, primary>>
workerVars == <<worker, running, nextId, latch, offspring>>
pipeVars == <<toHost, toWorker>>
closeVars == <<stage, force, signalled, faults, endpoints>>
vars == <<hostVars, workerVars, pipeVars, closeVars>>

Stages == {"alive", "shutdown", "await", "join", "sigterm", "terminate", "reap",
           "exists", "sigkill", "kill", "join_kill", "child", "parent", "process"}

NoResult == [cell |-> 0, failure |-> 0]

TypeOK ==
    /\ host \in {"new", "starting", "idle", "executing", "handling", "closing", "closed"}
    /\ cell \in 0..MaxCells
    /\ call \in 0..MaxCalls
    /\ refused \in 0..MaxCalls
    /\ result \in [cell : 0..MaxCells, failure : 0..MaxCalls]
    /\ primary \in {"none", "startup", "state", "timeout", "exit", "protocol", "interrupt"}
    /\ worker \in {"unborn", "booting", "loop", "cell", "asking", "leaving", "dead"}
    /\ running \in 0..MaxCells
    /\ nextId \in 0..MaxCalls
    /\ latch \in 0..MaxCalls
    /\ offspring \in BOOLEAN
    /\ Len(toHost) <= 2 /\ Len(toWorker) <= 2
    /\ stage \in Stages
    /\ force \in BOOLEAN /\ signalled \in BOOLEAN
    /\ faults \subseteq Stages
    /\ endpoints \subseteq {"child", "parent"}

Init ==
    /\ host = "new" /\ cell = 0 /\ call = 0 /\ refused = 0
    /\ result = NoResult /\ primary = "none"
    /\ worker = "unborn" /\ running = 0 /\ nextId = 0 /\ latch = 0 /\ offspring = FALSE
    /\ toHost = <<>> /\ toWorker = <<>>
    /\ stage = "alive" /\ force = FALSE /\ signalled = FALSE
    /\ faults = {} /\ endpoints = {"child", "parent"}

Alive == worker \notin {"unborn", "dead"}
Frame(kind, id, failed) == [kind |-> kind, id |-> id, failed |-> failed]
FromWorker(kind) == toHost # <<>> /\ Head(toHost).kind = kind

\* The worker closes its end of the pipe before it ends, if it can.
Connected == Alive /\ worker # "leaving"
Eof == toHost = <<>> /\ ~Connected

-----------------------------------------------------------------------------
(* The host *)

\* close is entered, by force or not, with the exception on its way out.
BeginClose(byForce, exception) ==
    /\ host' = "closing"
    /\ stage' = "alive"
    /\ force' = byForce
    /\ primary' = exception
    /\ UNCHANGED <<signalled, faults>>

Start ==
    /\ host = "new"
    /\ \/ /\ host' = "starting"
          /\ worker' = "booting"
          /\ endpoints' = endpoints \ {"child"}
          /\ UNCHANGED <<primary, stage, force, signalled, faults>>
       \/ BeginClose(TRUE, "startup") /\ UNCHANGED <<worker, endpoints>>
    /\ UNCHANGED <<cell, call, refused, result, running, nextId, latch, offspring, pipeVars>>

Ready ==
    /\ host = "starting"
    /\ FromWorker("ready")
    /\ toHost' = Tail(toHost)
    /\ host' = "idle"
    /\ UNCHANGED <<cell, call, refused, result, primary, workerVars, toWorker, closeVars>>

\* STARTUP_ERROR, the end of the pipe, the startup timeout, or an interrupt.
StartFails ==
    /\ host = "starting"
    /\ \/ FromWorker("startup_error") /\ BeginClose(TRUE, "startup")
       \/ Eof /\ BeginClose(TRUE, "exit")
       \/ toHost = <<>> /\ BeginClose(TRUE, "timeout")
       \/ BeginClose(TRUE, "interrupt")
    /\ UNCHANGED <<cell, call, refused, result, workerVars, pipeVars, endpoints>>

Execute ==
    /\ host = "idle"
    /\ cell < MaxCells
    /\ Alive
    /\ cell' = cell + 1
    /\ refused' = 0
    /\ result' = NoResult
    /\ toWorker' = Append(toWorker, Frame("execute", cell + 1, FALSE))
    /\ host' = "executing"
    /\ UNCHANGED <<call, primary, workerVars, toHost, closeVars>>

\* A worker that died between cells is noticed by is_alive, or by the pipe.
ExecuteFails ==
    /\ host = "idle"
    /\ cell < MaxCells
    /\ ~Alive
    /\ \/ BeginClose(FALSE, "state")
       \/ BeginClose(TRUE, "protocol")
    /\ UNCHANGED <<cell, call, refused, result, workerVars, pipeVars, endpoints>>

Request ==
    /\ host = "executing"
    /\ FromWorker("request")
    /\ call' = Head(toHost).id
    /\ toHost' = Tail(toHost)
    /\ host' = "handling"
    /\ UNCHANGED <<cell, refused, result, primary, workerVars, toWorker, closeVars>>

\* The handler's value, or its exception.  An invalid request is told to the
\* cell, which goes on as with a value; any other exception has failed.
Reply ==
    /\ host = "handling"
    /\ Connected
    /\ \E failed \in BOOLEAN :
          /\ toWorker' = Append(toWorker, Frame("response", call, failed))
          /\ refused' = IF failed /\ refused = 0 THEN call ELSE refused
    /\ host' = "executing"
    /\ UNCHANGED <<cell, call, result, primary, workerVars, toHost, closeVars>>

\* The answer is late, breaks the protocol, or finds the pipe broken.
ReplyFails ==
    /\ host = "handling"
    /\ \/ \E error \in {"timeout", "protocol"} : BeginClose(TRUE, error)
       \/ ~Connected /\ BeginClose(TRUE, "protocol")
    /\ UNCHANGED <<cell, call, refused, result, workerVars, pipeVars, endpoints>>

Result ==
    /\ host = "executing"
    /\ FromWorker("result")
    /\ result' = [cell |-> Head(toHost).id, failure |-> Head(toHost).failed]
    /\ toHost' = Tail(toHost)
    /\ host' = "idle"
    /\ UNCHANGED <<cell, call, refused, primary, workerVars, toWorker, closeVars>>

\* The cell is too late, and the executor is left as it is.
ExecutionFailsFault ==
    /\ host = "executing"
    /\ host' = "idle"
    /\ UNCHANGED <<cell, call, refused, result, primary, workerVars, pipeVars, closeVars>>

\* The timeout, whatever the worker has sent meanwhile; the end of the pipe.
ExecutionFails ==
    /\ host = "executing"
    /\ \/ BeginClose(TRUE, "timeout")
       \/ Eof /\ BeginClose(TRUE, "exit")
    /\ UNCHANGED <<cell, call, refused, result, workerVars, pipeVars, endpoints>>

\* __exit__: at the end of the branch, or with an exception that is not the
\* executor's, an interrupt in the middle of a cell among them.
Exit ==
    /\ host \in {"idle", "executing", "handling"}
    /\ BeginClose(FALSE, IF host = "idle" THEN "none" ELSE "interrupt")
    /\ UNCHANGED <<cell, call, refused, result, workerVars, pipeVars, endpoints>>

-----------------------------------------------------------------------------
(* The worker *)

Boot ==
    /\ worker = "booting"
    /\ \/ worker' = "loop" /\ toHost' = Append(toHost, Frame("ready", 0, 0))
       \/ worker' = "leaving" /\ toHost' = Append(toHost, Frame("startup_error", 0, 0))
    /\ UNCHANGED <<hostVars, running, nextId, latch, offspring, toWorker, closeVars>>

\* What a cell left behind is not cleared before the next one.
RunCellFault ==
    /\ worker = "loop"
    /\ toWorker # <<>> /\ Head(toWorker).kind = "execute"
    /\ toWorker' = Tail(toWorker)
    /\ running' = Head(toWorker).id
    /\ worker' = "cell"
    /\ UNCHANGED <<hostVars, nextId, latch, offspring, toHost, closeVars>>

RunCell ==
    /\ worker = "loop"
    /\ toWorker # <<>> /\ Head(toWorker).kind = "execute"
    /\ toWorker' = Tail(toWorker)
    /\ running' = Head(toWorker).id
    /\ latch' = 0
    /\ worker' = "cell"
    /\ UNCHANGED <<hostVars, nextId, offspring, toHost, closeVars>>

\* SHUTDOWN is answered and obeyed; a closed pipe ends the loop, too.  What
\* cells left running in the process may keep it from ending.
Leave ==
    /\ worker = "loop"
    /\ \/ /\ toWorker # <<>> /\ Head(toWorker).kind = "shutdown"
          /\ toWorker' = Tail(toWorker)
          /\ toHost' = Append(toHost, Frame("shutdown_complete", 0, 0))
       \/ /\ toWorker = <<>> /\ "parent" \notin endpoints
          /\ UNCHANGED pipeVars
    /\ worker' = "leaving"
    /\ UNCHANGED <<hostVars, running, nextId, latch, offspring, closeVars>>

\* The request is sent, and the cell goes on without waiting for the reply.
HostCallFault ==
    /\ worker = "cell"
    /\ latch = 0
    /\ nextId < MaxCalls
    /\ nextId' = nextId + 1
    /\ toHost' = Append(toHost, Frame("request", nextId + 1, 0))
    /\ UNCHANGED <<hostVars, worker, running, latch, offspring, toWorker, closeVars>>

\* A failure that is latched refuses every later call of the cell.
HostCall ==
    /\ worker = "cell"
    /\ latch = 0
    /\ nextId < MaxCalls
    /\ nextId' = nextId + 1
    /\ toHost' = Append(toHost, Frame("request", nextId + 1, 0))
    /\ worker' = "asking"
    /\ UNCHANGED <<hostVars, running, latch, offspring, toWorker, closeVars>>

\* The cell is told and goes on; a frame that is no reply to this request, as
\* the shutdown of an interrupted host, is an exception of the cell.
HostCallReturns ==
    /\ worker = "asking"
    /\ toWorker # <<>>
    /\ toWorker' = Tail(toWorker)
    /\ LET reply == Head(toWorker)
       IN  latch' = IF reply.kind = "response" /\ reply.id = nextId /\ reply.failed /\ latch = 0
                       THEN nextId ELSE latch
    /\ worker' = "cell"
    /\ UNCHANGED <<hostVars, running, nextId, offspring, toHost, closeVars>>

CellEnds ==
    /\ worker = "cell"
    /\ toHost' = Append(toHost, Frame("result", running, latch))
    /\ worker' = "loop"
    /\ UNCHANGED <<hostVars, running, nextId, latch, offspring, toWorker, closeVars>>

\* A process of the worker's group that outlives the cell.
Spawn ==
    /\ worker = "cell"
    /\ ~offspring
    /\ offspring' = TRUE
    /\ UNCHANGED <<hostVars, worker, running, nextId, latch, pipeVars, closeVars>>

\* The worker ends on its own: a crash, or an end of its own making.
Die ==
    /\ Alive
    /\ worker' = "dead"
    /\ UNCHANGED <<hostVars, running, nextId, latch, offspring, pipeVars, closeVars>>

-----------------------------------------------------------------------------
(* close *)

At(s) == host = "closing" /\ stage = s

\* attempt: the stage fails, is recorded, and its default is gone on with.
Fault(s) ==
    /\ Cardinality(faults) < MaxFaults
    /\ faults' = faults \cup {s}

\* Is the process alive, as far as the host knows?
IsAlive ==
    /\ At("alive")
    /\ \/ /\ UNCHANGED faults
          /\ stage' = IF Alive /\ ~force THEN "shutdown" ELSE "sigterm"
       \/ Fault("alive") /\ stage' = "sigterm"
    /\ UNCHANGED <<hostVars, workerVars, pipeVars, force, signalled, endpoints>>

\* A broken pipe is no failure: the worker is gone already.
Shutdown ==
    /\ At("shutdown")
    /\ \/ /\ Connected
          /\ toWorker' = Append(toWorker, Frame("shutdown", 0, FALSE))
          /\ stage' = "await"
          /\ UNCHANGED faults
       \/ ~Connected /\ stage' = "sigterm" /\ UNCHANGED <<toWorker, faults>>
       \/ Fault("shutdown") /\ stage' = "sigterm" /\ UNCHANGED toWorker
    /\ UNCHANGED <<hostVars, workerVars, toHost, force, signalled, endpoints>>

\* The host waits for its confirmation without a limit.
AwaitFault ==
    /\ At("await")
    /\ IF toHost = <<>>
          THEN UNCHANGED <<toHost, stage>>
          ELSE /\ toHost' = Tail(toHost)
               /\ stage' = IF FromWorker("shutdown_complete") THEN "join" ELSE "sigterm"
    /\ UNCHANGED <<hostVars, workerVars, toWorker, force, signalled, faults, endpoints>>

\* One frame is looked at; it may be one the cell sent before.
Await ==
    /\ At("await")
    /\ \/ /\ toHost # <<>>
          /\ toHost' = Tail(toHost)
          /\ stage' = IF FromWorker("shutdown_complete") THEN "join" ELSE "sigterm"
          /\ UNCHANGED faults
       \/ /\ toHost = <<>>
          /\ stage' = "sigterm"
          /\ UNCHANGED <<toHost, faults>>
       \/ /\ Fault("shutdown")
          /\ stage' = "sigterm"
          /\ UNCHANGED toHost
    /\ UNCHANGED <<hostVars, workerVars, toWorker, force, signalled, endpoints>>

JoinGraceful ==
    /\ At("join")
    /\ stage' = "sigterm"
    /\ UNCHANGED faults \/ Fault("join")
    /\ UNCHANGED <<hostVars, workerVars, pipeVars, force, signalled, endpoints>>

\* The processes a signal to the group reaches; until the worker has set up
\* the group the host finds none to signal.
Group == Alive \/ offspring
GroupFound == IF worker = "booting" THEN {TRUE, FALSE} ELSE {Group}

\* Members of the group may ignore SIGTERM.
SignalTerm ==
    /\ At("sigterm")
    /\ \/ /\ signalled' \in GroupFound
          /\ worker' \in IF signalled' /\ Alive THEN {worker, "dead"} ELSE {worker}
          /\ offspring' \in IF signalled' THEN {offspring, FALSE} ELSE {offspring}
          /\ UNCHANGED faults
       \/ signalled' = FALSE /\ Fault("sigterm") /\ UNCHANGED <<worker, offspring>>
    /\ stage' = "terminate"
    /\ UNCHANGED <<hostVars, running, nextId, latch, pipeVars, force, endpoints>>

\* Without a group to signal, the process alone is asked to end.
Terminate ==
    /\ At("terminate")
    /\ \/ /\ worker' \in IF Alive /\ ~signalled THEN {worker, "dead"} ELSE {worker}
          /\ UNCHANGED faults
       \/ Alive /\ ~signalled /\ Fault("terminate") /\ UNCHANGED worker
       \/ Fault("alive") /\ UNCHANGED worker
    /\ stage' = IF worker = "unborn" THEN "child" ELSE "reap"
    /\ UNCHANGED <<hostVars, running, nextId, latch, offspring, pipeVars, force,
                   signalled, endpoints>>

\* A join that runs into its timeout is not a failure.
Reap ==
    /\ At("reap")
    /\ stage' = "exists"
    /\ UNCHANGED faults \/ Fault("reap")
    /\ UNCHANGED <<hostVars, workerVars, pipeVars, force, signalled, endpoints>>

\* Only the process is looked at, not what it left behind.
ExistsFault ==
    /\ At("exists")
    /\ stage' = IF Alive THEN "sigkill" ELSE "child"
    /\ UNCHANGED <<hostVars, workerVars, pipeVars, force, signalled, faults, endpoints>>

\* The process is looked at; if it is not alive, or seems so, then the group.
Exists ==
    /\ At("exists")
    /\ \/ Alive /\ stage' = "sigkill" /\ UNCHANGED faults
       \/ /\ Alive
          /\ Fault("alive")
          /\ \E found \in GroupFound : stage' = IF found THEN "sigkill" ELSE "child"
       \/ /\ ~Alive
          /\ stage' = IF offspring THEN "sigkill" ELSE "child"
          /\ UNCHANGED faults
       \/ ~Alive /\ Fault("exists") /\ stage' = "child"
    /\ UNCHANGED <<hostVars, workerVars, pipeVars, force, signalled, endpoints>>

SignalKill ==
    /\ At("sigkill")
    /\ \/ /\ signalled' \in GroupFound
          /\ worker' = IF signalled' THEN "dead" ELSE worker
          /\ offspring' = (offspring /\ ~signalled')
          /\ UNCHANGED faults
       \/ signalled' = FALSE /\ Fault("sigkill") /\ UNCHANGED <<worker, offspring>>
    /\ stage' = "kill"
    /\ UNCHANGED <<hostVars, running, nextId, latch, pipeVars, force, endpoints>>

\* The process alone, if the signal has not reached the group.
Kill ==
    /\ At("kill")
    /\ \/ worker' = (IF signalled THEN worker ELSE "dead") /\ UNCHANGED faults
       \/ Alive /\ ~signalled /\ Fault("kill") /\ UNCHANGED worker
       \/ Fault("alive") /\ UNCHANGED worker
    /\ stage' = "join_kill"
    /\ UNCHANGED <<hostVars, running, nextId, latch, offspring, pipeVars, force,
                   signalled, endpoints>>

JoinKill ==
    /\ At("join_kill")
    /\ stage' = "child"
    /\ UNCHANGED faults \/ Fault("join_kill")
    /\ UNCHANGED <<hostVars, workerVars, pipeVars, force, signalled, endpoints>>

\* The ends of the pipe, one after the other.
CloseEndpoint(end, next) ==
    /\ At(end)
    /\ stage' = next
    /\ \/ endpoints' = endpoints \ {end} /\ UNCHANGED faults
       \/ end \in endpoints /\ Fault(end) /\ UNCHANGED endpoints
    /\ UNCHANGED <<hostVars, workerVars, pipeVars, force, signalled>>

\* process.close and the temporary directory; then close returns or raises.
Closed ==
    /\ At("process")
    /\ host' = "closed"
    /\ UNCHANGED faults \/ Fault("process")
    /\ UNCHANGED <<cell, call, refused, result, primary, workerVars, pipeVars, stage,
                   force, signalled, endpoints>>

CloseStep ==
    \/ IsAlive \/ Shutdown \/ Await \/ JoinGraceful
    \/ SignalTerm \/ Terminate \/ Reap \/ Exists \/ SignalKill \/ Kill \/ JoinKill
    \/ CloseEndpoint("child", "parent")
    \/ CloseEndpoint("parent", "process")
    \/ Closed

-----------------------------------------------------------------------------
HostStep ==
    \/ Start \/ Ready \/ StartFails
    \/ Execute \/ ExecuteFails
    \/ Request \/ Reply \/ ReplyFails \/ Result \/ ExecutionFails
    \/ Exit
    \/ CloseStep

WorkerStep ==
    \/ Boot \/ RunCell \/ Leave \/ HostCall \/ HostCallReturns \/ CellEnds \/ Spawn \/ Die

\* The executor is closed, and what is left of the worker takes its time.
Over == host = "closed" /\ UNCHANGED vars

Next == HostStep \/ WorkerStep \/ Over

Spec == Init /\ [][Next]_vars

\* The host's thread runs, its timeouts and all; nothing is assumed of a cell.
FairSpec == Spec /\ WF_vars(HostStep)

-----------------------------------------------------------------------------
(* Properties *)

\* executor.py:1000-1024, 515-537, test_executor.py:426.  A result is that of the
\* cell just sent, never one an earlier cell was late with, and it carries the
\* first host call of that cell that failed, whatever the cell made of it.
ResultCurrent ==
    host = "idle" /\ result # NoResult => result = [cell |-> cell, failure |-> refused]

\* executor.py:491-510.  A cell that waits for a reply gets its own, unless the
\* host is closing the executor.
ReplyCurrent ==
    worker = "asking" /\ host \in {"executing", "handling"} =>
        \A i \in DOMAIN toWorker :
            toWorker[i].kind = "response" /\ toWorker[i].id = nextId /\ running = cell

\* No frame that is late is taken for the one that is expected, by either side.
NothingStale == ResultCurrent /\ ReplyCurrent

\* executor.py:1170-1211, test_executor.py:611-652, 894.  Whatever other stages
\* failed, close ends the worker as long as it can see and kill it, ends what
\* the cells left in its group as long as it can find and kill that, and lets go
\* of each end of the pipe it could close.
NothingLeft ==
    host = "closed" =>
        /\ faults \cap {"alive", "kill"} = {} => ~Alive
        /\ faults \cap {"exists", "sigkill"} = {} => ~offspring
        /\ endpoints \subseteq faults

\* executor.py:993-1012, 1142-1233.  The host is never held up for ever by its
\* worker: a cell that is executed ends, and so does a close.
HostMovesOn ==
    /\ host = "executing" ~> host \in {"idle", "closing"}
    /\ host = "closing" ~> host = "closed"
=============================================================================
