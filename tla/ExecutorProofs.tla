--------------------------- MODULE ExecutorProofs ---------------------------
(***************************************************************************)
(* Proofs about Executor, for any number of cells, host calls and failing  *)
(* stages of close, wherever the worker dies and the host is interrupted.  *)
(*                                                                         *)
(* Two invariants do not meet: while the executor is in use, the two       *)
(* directions of the pipe hold at most one frame between them, and where   *)
(* the host and the worker are says which one (Exchange); once it closes,  *)
(* what has been signalled, killed and closed depends on the stages passed *)
(* and on those that failed (CloseInv).                                    *)
(*                                                                         *)
(* The last part is about CellWorker, for any streams, budget and threads: *)
(* what the streams of a cell keep adds up to what was taken from their    *)
(* budget, whatever write the cell is in the middle of, until another      *)
(* thread writes to them (StreamsInv); and the outcome of a cell is that   *)
(* of the frame it sent (AnswerInv).                                       *)
(***************************************************************************)
EXTENDS MCExecutor, FiniteSetTheorems, WellFoundedInduction, TLAPS

\* What a worker that died may have left in the pipe.
LastWords(frames) == worker = "dead" /\ toHost \in frames

\* The pipe while a cell runs: at every moment one side is awaited.
CellExchange ==
    \/ worker = "loop" /\ toHost = <<>> /\ refused = 0
          /\ toWorker = <<Frame("execute", cell, FALSE)>>
    \/ worker = "cell" /\ running = cell /\ latch = refused
          /\ toHost = <<>> /\ toWorker = <<>>
    \/ worker = "asking" /\ running = cell /\ latch = 0 /\ refused = 0
          /\ toHost = <<Frame("request", nextId, 0)>> /\ toWorker = <<>>
    \/ worker = "asking" /\ running = cell /\ latch = 0
          /\ toHost = <<>>
          /\ \E failed \in BOOLEAN : /\ toWorker = <<Frame("response", nextId, failed)>>
                                     /\ refused = IF failed THEN nextId ELSE 0
    \/ worker = "loop" /\ toWorker = <<>>
          /\ toHost = <<Frame("result", cell, refused)>>
    \/ LastWords({<<>>, <<Frame("request", nextId, 0)>>, <<Frame("result", cell, refused)>>})

Exchange ==
    /\ host = "new" => worker = "unborn" /\ toHost = <<>> /\ toWorker = <<>>
    /\ host \in {"new", "starting"} => result = NoResult
    /\ host = "starting" =>
          /\ toWorker = <<>>
          /\ \/ worker = "booting" /\ toHost = <<>>
             \/ worker = "loop" /\ toHost = <<Frame("ready", 0, 0)>>
             \/ worker = "leaving" /\ toHost = <<Frame("startup_error", 0, 0)>>
             \/ LastWords({<<>>, <<Frame("ready", 0, 0)>>, <<Frame("startup_error", 0, 0)>>})
    /\ host = "idle" =>
          /\ worker \in {"loop", "dead"} /\ toHost = <<>>
          /\ worker = "loop" => toWorker = <<>>
    /\ host = "executing" => CellExchange
    /\ host = "handling" =>
          /\ call = nextId /\ toHost = <<>>
          /\ \/ worker = "asking" /\ running = cell /\ toWorker = <<>>
                   /\ latch = 0 /\ refused = 0
             \/ worker = "dead"

\* The host's thread and its last result.
HostInv ==
    /\ host \in {"new", "starting", "idle", "executing", "handling", "closing", "closed"}
    /\ cell \in Nat /\ call \in Nat /\ nextId \in Nat
    /\ ResultCurrent
    /\ endpoints \subseteq {"child", "parent"}
    /\ host \notin {"closing", "closed"} => stage = "alive"
    /\ host \notin {"closing", "closed"} => "parent" \in endpoints
    /\ host = "closed" => stage = "process"

HostFrames == [kind : {"execute", "response", "shutdown"}, id : Nat, failed : BOOLEAN]

NoCellToRun == \A i \in DOMAIN toWorker : toWorker[i].kind # "execute"

\* A worker that has left nothing behind and will not.
Harmless ==
    /\ ~offspring
    /\ worker \notin {"cell", "asking"}
    /\ worker \in {"unborn", "booting", "loop"} => NoCellToRun

CloseInv ==
    /\ toWorker \in Seq(HostFrames)
    /\ worker \in {"unborn", "booting"} => Harmless
    /\ stage = "kill" /\ signalled => worker = "dead"
    /\ stage \in {"join_kill", "child", "parent", "process"} =>
          (faults \cap {"alive", "kill"} = {} => ~Alive)
    /\ stage \in {"kill", "join_kill", "child", "parent", "process"} =>
          (faults \cap {"exists", "sigkill"} = {} => Harmless)
    /\ stage \in {"parent", "process"} /\ "child" \in endpoints => "child" \in faults
    /\ stage = "process" /\ "parent" \in endpoints => "parent" \in faults

ExecutorInv == Exchange /\ HostInv /\ CloseInv
-----------------------------------------------------------------------------
(* The pipe *)

\* Nothing is in the pipe at first.
LEMMA ExecutorInit == Init => ExecutorInv
BY DEF Init, ExecutorInv, Exchange, HostInv, CloseInv, ResultCurrent, NoResult, Harmless,
       NoCellToRun, HostFrames

\* One frame is all there is: reading it empties the direction it came by.
LEMMA OneFrame ==
    ASSUME NEW e
    PROVE  /\ <<e>> # <<>> /\ Head(<<e>>) = e /\ Tail(<<e>>) = <<>> /\ Append(<<>>, e) = <<e>>
           /\ DOMAIN <<e>> = {1} /\ <<e>>[1] = e
OBVIOUS

\* The steps that close the executor leave no promise about the pipe.
LEMMA ClosingExchange ==
    ASSUME ExecutorInv, StartFails \/ ExecuteFails \/ ReplyFails \/ ExecutionFails \/ Exit \/ CloseStep
    PROVE  Exchange' /\ ResultCurrent'
<1>1. host' \in {"closing", "closed"}
    BY DEF StartFails, ExecuteFails, ReplyFails, ExecutionFails, Exit, BeginClose, CloseStep,
           IsAlive, Shutdown, Await, JoinGraceful, SignalTerm, Terminate, Reap, Exists,
           SignalKill, Kill, JoinKill, CloseEndpoint, Closed, At, hostVars
<1> QED  BY <1>1 DEF Exchange, ResultCurrent

\* The steps of the host keep the exchange of frames.
LEMMA HostExchange ==
    ASSUME ExecutorInv, Start \/ Ready \/ Execute \/ Request \/ Reply \/ Result
    PROVE  Exchange' /\ ResultCurrent'
<1> USE DEF ExecutorInv, Exchange, LastWords, ResultCurrent, Frame, FromWorker
<1>1. CASE Start
    BY <1>1 DEF Start, BeginClose, pipeVars
<1>2. CASE Ready
    <2>1. /\ host = "starting" /\ toHost # <<>> /\ Head(toHost).kind = "ready"
          /\ toHost' = Tail(toHost) /\ host' = "idle"
          /\ UNCHANGED <<worker, toWorker, result, cell, refused>>
        BY <1>2 DEF Ready, workerVars
    <2>2. worker \in {"loop", "dead"} /\ toHost = <<[kind |-> "ready", id |-> 0, failed |-> 0]>>
          /\ toWorker = <<>>
        BY <2>1, OneFrame
    <2>3. toHost' = <<>>
        BY <2>1, <2>2, OneFrame
    <2>4. result = NoResult
        BY <2>1
    <2> QED  BY <2>1, <2>2, <2>3, <2>4
<1>3. CASE Execute
    BY <1>3, OneFrame DEF Execute, CellExchange, Alive, NoResult, workerVars
<1>4. CASE Request
    BY <1>4, OneFrame DEF Request, CellExchange, workerVars
<1>5. CASE Reply
    BY <1>5, OneFrame DEF Reply, CellExchange, Connected, Alive, workerVars
<1>6. CASE Result
    <2>1. /\ host = "executing" /\ toHost # <<>> /\ Head(toHost).kind = "result"
          /\ toHost' = Tail(toHost) /\ host' = "idle"
          /\ result' = [cell |-> Head(toHost).id, failure |-> Head(toHost).failed]
          /\ UNCHANGED <<worker, toWorker, cell, refused>>
        BY <1>6 DEF Result, workerVars
    <2>2. /\ toHost = <<[kind |-> "result", id |-> cell, failed |-> refused]>>
          /\ (worker = "loop" /\ toWorker = <<>>) \/ worker = "dead"
        BY <2>1, OneFrame DEF CellExchange
    <2>3. toHost' = <<>> /\ result' = [cell |-> cell, failure |-> refused]
        BY <2>1, <2>2, OneFrame
    <2> QED  BY <2>1, <2>2, <2>3
<1> QED  BY <1>1, <1>2, <1>3, <1>4, <1>5, <1>6

\* So do those of the worker.
LEMMA WorkerExchange ==
    ASSUME ExecutorInv, WorkerStep
    PROVE  Exchange' /\ ResultCurrent'
<1> USE DEF ExecutorInv, Exchange, LastWords, HostInv, ResultCurrent, Frame, hostVars
<1>1. CASE Boot
    BY <1>1, OneFrame DEF Boot, CellExchange
<1>2. CASE RunCell
    <2>1. /\ worker = "loop" /\ toWorker # <<>> /\ Head(toWorker).kind = "execute"
          /\ toWorker' = Tail(toWorker) /\ running' = Head(toWorker).id
          /\ latch' = 0 /\ worker' = "cell"
          /\ UNCHANGED <<host, cell, refused, result, toHost>>
        BY <1>2 DEF RunCell
    <2>2. CASE host = "executing"
        <3>1. /\ toWorker = <<[kind |-> "execute", id |-> cell, failed |-> FALSE]>>
              /\ refused = 0 /\ toHost = <<>>
            BY <2>1, <2>2 DEF CellExchange
        <3>2. toWorker' = <<>> /\ running' = cell
            BY <2>1, <3>1, OneFrame
        <3> QED  BY <2>1, <2>2, <3>1, <3>2 DEF CellExchange
    <2>3. CASE host # "executing"
        <3>1. host \in {"closing", "closed"}
            BY <2>1, <2>3
        <3> QED  BY <2>1, <3>1
    <2> QED  BY <2>2, <2>3
<1>3. CASE Leave
    BY <1>3, OneFrame DEF Leave, CellExchange, pipeVars
<1>4. CASE HostCall
    BY <1>4, OneFrame DEF HostCall, CellExchange
<1>5. CASE HostCallReturns
    <2>1. /\ worker = "asking" /\ toWorker # <<>> /\ toWorker' = Tail(toWorker)
          /\ worker' = "cell" /\ UNCHANGED <<host, cell, refused, result, running, toHost>>
          /\ latch' = IF Head(toWorker).kind = "response" /\ Head(toWorker).id = nextId
                         /\ Head(toWorker).failed /\ latch = 0 THEN nextId ELSE latch
        BY <1>5 DEF HostCallReturns
    <2>2. CASE host = "executing"
        <3>1. PICK failed \in BOOLEAN :
                  /\ toWorker = <<[kind |-> "response", id |-> nextId, failed |-> failed]>>
                  /\ refused = IF failed THEN nextId ELSE 0
                  /\ toHost = <<>> /\ running = cell /\ latch = 0
            BY <2>1, <2>2 DEF CellExchange
        <3>2. toWorker' = <<>> /\ latch' = refused
            BY <2>1, <3>1, OneFrame
        <3> QED  BY <2>1, <2>2, <3>1, <3>2 DEF CellExchange
    <2>3. CASE host # "executing"
        <3>1. host \in {"closing", "closed"}
            BY <2>1, <2>3
        <3> QED  BY <2>1, <3>1
    <2> QED  BY <2>2, <2>3
<1>6. CASE CellEnds
    BY <1>6, OneFrame DEF CellEnds, CellExchange
<1>7. CASE Spawn
    BY <1>7 DEF Spawn, CellExchange, pipeVars
<1>8. CASE Die
    BY <1>8 DEF Die, CellExchange, pipeVars, Alive
<1> QED  BY <1>1, <1>2, <1>3, <1>4, <1>5, <1>6, <1>7, <1>8 DEF WorkerStep

-----------------------------------------------------------------------------
(* The host's thread and the stages of close *)

\* The steps of the host keep what is known of the host.
LEMMA HostKept ==
    ASSUME ExecutorInv, ResultCurrent', HostStep
    PROVE  HostInv'
<1> USE DEF ExecutorInv, HostInv
<1>1. CASE StartFails \/ ExecuteFails \/ ReplyFails \/ ExecutionFails \/ Exit
    <2>1. host' = "closing" /\ UNCHANGED <<cell, call, nextId, endpoints>>
        BY <1>1 DEF StartFails, ExecuteFails, ReplyFails, ExecutionFails, Exit, BeginClose,
                    workerVars
    <2> QED  BY <2>1
<1>2. CASE Start
    <2>1. UNCHANGED <<cell, call, nextId>>
        BY <1>2 DEF Start
    <2>2. CASE host' = "starting" /\ endpoints' = endpoints \ {"child"} /\ UNCHANGED stage
        BY <1>2, <2>1, <2>2 DEF Start, Exchange
    <2>3. CASE host' = "closing" /\ UNCHANGED endpoints
        BY <2>1, <2>3
    <2> QED  BY <1>2, <2>2, <2>3 DEF Start, BeginClose
<1>5. CASE Ready \/ Reply \/ Result
    <2>1. /\ UNCHANGED <<cell, call, nextId, stage, endpoints>> /\ host' \in {"idle", "executing"}
          /\ host \in {"starting", "executing", "handling"}
        BY <1>5 DEF Ready, Reply, Result, workerVars, closeVars
    <2> QED  BY <2>1
<1>6. CASE Execute
    <2>1. /\ UNCHANGED <<call, nextId, stage, endpoints>> /\ host' = "executing"
          /\ host = "idle" /\ cell' = cell + 1
        BY <1>6 DEF Execute, workerVars, closeVars
    <2> QED  BY <2>1
<1>3. CASE Request
    <2>1. call' = nextId
        BY <1>3, OneFrame DEF Request, FromWorker, Exchange, CellExchange, LastWords, Frame
    <2> QED  BY <1>3, <2>1 DEF Request, workerVars, closeVars
<1>4. CASE CloseStep
    <2>1. CASE Closed
        BY <1>4, <2>1 DEF Closed, At, workerVars
    <2>2. CASE CloseEndpoint("child", "parent") \/ CloseEndpoint("parent", "process")
        BY <1>4, <2>2 DEF CloseEndpoint, At, hostVars, workerVars
    <2>3. CASE IsAlive \/ Shutdown \/ Await \/ JoinGraceful \/ SignalTerm \/ Terminate \/ Reap
               \/ Exists \/ SignalKill \/ Kill \/ JoinKill
        BY <1>4, <2>3
           DEF IsAlive, Shutdown, Await, JoinGraceful, SignalTerm, Terminate, Reap, Exists,
               SignalKill, Kill, JoinKill, At, hostVars, workerVars
    <2> QED  BY <1>4, <2>1, <2>2, <2>3 DEF CloseStep
<1> QED  BY <1>1, <1>2, <1>3, <1>4, <1>5, <1>6 DEF HostStep

\* So do those of the worker.
LEMMA WorkerKeepsHost ==
    ASSUME ExecutorInv, ResultCurrent', WorkerStep
    PROVE  HostInv'
<1>1. UNCHANGED <<host, cell, call, stage, endpoints>> /\ (nextId' = nextId \/ nextId' = nextId + 1)
    BY DEF WorkerStep, Boot, RunCell, Leave, HostCall, HostCallReturns, CellEnds, Spawn, Die,
           hostVars, closeVars
<1> QED  BY <1>1 DEF ExecutorInv, HostInv

\* The frames of the host grow at the end and are taken from the front.
LEMMA HostFramesKept ==
    ASSUME ExecutorInv
    PROVE  /\ \A f \in HostFrames : Append(toWorker, f) \in Seq(HostFrames)
           /\ \A f \in HostFrames : f.kind # "execute" /\ NoCellToRun =>
                 \A i \in DOMAIN Append(toWorker, f) : Append(toWorker, f)[i].kind # "execute"
           /\ toWorker # <<>> =>
                 /\ Tail(toWorker) \in Seq(HostFrames)
                 /\ NoCellToRun => /\ Head(toWorker).kind # "execute"
                                   /\ \A i \in DOMAIN Tail(toWorker) :
                                         Tail(toWorker)[i].kind # "execute"
<1>1. toWorker \in Seq(HostFrames)
    BY DEF ExecutorInv, CloseInv
<1>2. toWorker # <<>> => Tail(toWorker) \in Seq(HostFrames)
    BY <1>1
<1>3. toWorker # <<>> /\ NoCellToRun =>
          /\ Head(toWorker).kind # "execute"
          /\ \A i \in DOMAIN Tail(toWorker) : Tail(toWorker)[i].kind # "execute"
    BY <1>1 DEF NoCellToRun
<1>4. \A f \in HostFrames : Append(toWorker, f) \in Seq(HostFrames)
    BY <1>1
<1>5. \A f \in HostFrames : f.kind # "execute" /\ NoCellToRun =>
          \A i \in DOMAIN Append(toWorker, f) : Append(toWorker, f)[i].kind # "execute"
    BY <1>1 DEF NoCellToRun
<1> QED  BY <1>2, <1>3, <1>4, <1>5

\* In use, the stage is still the first, and all that is owed is what the host
\* sends to a worker that is not up yet.
LEMMA UseKeepsClose ==
    ASSUME ExecutorInv, Exchange', HostInv',
           Start \/ Ready \/ Execute \/ Request \/ Reply \/ Result
           \/ StartFails \/ ExecuteFails \/ ReplyFails \/ ExecutionFails \/ Exit
    PROVE  CloseInv'
<1>1. stage' = "alive"
    BY DEF ExecutorInv, HostInv, Start, Ready, Execute, Request, Reply, Result, StartFails,
           ExecuteFails, ReplyFails, ExecutionFails, Exit, BeginClose, closeVars
<1>2. toWorker' \in Seq(HostFrames) /\ (worker' \in {"unborn", "booting"} => Harmless')
    <2>1. CASE Execute \/ Reply
        <3>1. worker' \notin {"unborn", "booting"}
            BY <2>1 DEF Execute, Reply, Alive, Connected, ExecutorInv, Exchange, workerVars
        <3>2. toWorker' \in Seq(HostFrames)
            BY <2>1, HostFramesKept
               DEF Execute, Reply, Frame, HostFrames, ExecutorInv, HostInv
        <3> QED  BY <3>1, <3>2
    <2>2. CASE UNCHANGED <<workerVars, toWorker>>
        BY <2>2 DEF ExecutorInv, CloseInv, Harmless, NoCellToRun, workerVars
    <2>3. CASE Start
        BY <2>3
           DEF Start, ExecutorInv, CloseInv, Exchange, Harmless, NoCellToRun, workerVars,
               pipeVars
    <2> QED  BY <2>1, <2>2, <2>3
             DEF Ready, Request, Result, StartFails, ExecuteFails, ReplyFails, ExecutionFails,
                 Exit, pipeVars
<1> QED  BY <1>1, <1>2 DEF CloseInv

\* The steps of the worker keep what the stages of close have settled.
LEMMA WorkerKeepsClose ==
    ASSUME ExecutorInv, WorkerStep
    PROVE  CloseInv'
<1> USE HostFramesKept DEF ExecutorInv, CloseInv, Harmless, NoCellToRun, hostVars, closeVars, Alive
<1>1. CASE Boot
    BY <1>1 DEF Boot
<1>2. CASE RunCell
    BY <1>2 DEF RunCell
<1>3. CASE Leave
    BY <1>3 DEF Leave, pipeVars
<1>4. CASE HostCall \/ CellEnds
    BY <1>4 DEF HostCall, CellEnds
<1>5. CASE HostCallReturns
    BY <1>5 DEF HostCallReturns
<1>6. CASE Spawn \/ Die
    BY <1>6 DEF Spawn, Die, pipeVars
<1> QED  BY <1>1, <1>2, <1>3, <1>4, <1>5, <1>6 DEF WorkerStep

\* A signal to the whole group leaves a harmless worker, or finds nothing.
LEMMA SignalSettles ==
    ASSUME ExecutorInv, SignalKill, faults' \cap {"exists", "sigkill"} = {}
    PROVE  Harmless'
<1>1. /\ signalled' \in GroupFound
      /\ worker' = IF signalled' THEN "dead" ELSE worker
      /\ offspring' = (offspring /\ ~signalled')
      /\ UNCHANGED toWorker
    BY DEF SignalKill, Fault, pipeVars
<1>2. CASE worker = "booting"
    BY <1>1, <1>2 DEF ExecutorInv, CloseInv, Harmless, NoCellToRun
<1>3. CASE worker # "booting" /\ (Alive \/ offspring)
    BY <1>1, <1>3 DEF GroupFound, Group, Harmless, ExecutorInv, CloseInv
<1>4. CASE worker # "booting" /\ ~Alive /\ ~offspring
    BY <1>1, <1>4 DEF GroupFound, Group, Harmless, ExecutorInv, CloseInv, Alive, NoCellToRun
<1> QED  BY <1>2, <1>3, <1>4

\* The frames to the worker grow by a shutdown at most, and the worker ends at most.
LEMMA HarmlessKept ==
    ASSUME Harmless, UNCHANGED toWorker, worker' \in {worker, "dead"}, offspring' \in {offspring, FALSE}
    PROVE  Harmless'
<1>1. ~offspring'
    BY Zenon DEF Harmless
<1>2. worker' \notin {"cell", "asking"} /\ (worker' \in {"unborn", "booting", "loop"} => NoCellToRun')
    BY DEF Harmless, NoCellToRun
<1> QED  BY <1>1, <1>2 DEF Harmless

\* So do those of close itself.
LEMMA CloseKeepsClose ==
    ASSUME ExecutorInv, CloseStep
    PROVE  CloseInv'
<1> USE DEF ExecutorInv, CloseInv, At, hostVars, workerVars, pipeVars
<1>1. CASE IsAlive \/ Await \/ JoinGraceful \/ Reap
    BY <1>1, HarmlessKept DEF IsAlive, Await, JoinGraceful, Reap
<1>2. CASE Shutdown
    <2>1. toWorker' \in Seq(HostFrames)
        BY <1>2, HostFramesKept DEF Shutdown, Frame, HostFrames
    <2>2. worker' \in {"unborn", "booting"} => Harmless'
        BY <1>2, HostFramesKept DEF Shutdown, Frame, HostFrames, Harmless, NoCellToRun
    <2> QED  BY <1>2, <2>1, <2>2 DEF Shutdown
<1>3. CASE SignalTerm
    <2>1. /\ worker' \in {worker, "dead"} /\ offspring' \in {offspring, FALSE}
          /\ UNCHANGED toWorker /\ stage' = "terminate"
        BY <1>3 DEF SignalTerm
    <2> QED  BY <2>1, HarmlessKept
<1>4. CASE Terminate
    <2>1. /\ worker' \in {worker, "dead"} /\ UNCHANGED <<offspring, toWorker>>
          /\ stage' = IF worker = "unborn" THEN "child" ELSE "reap"
        BY <1>4 DEF Terminate
    <2>2. worker = "unborn" => ~Alive' /\ Harmless'
        BY <2>1, HarmlessKept DEF Alive
    <2> QED  BY <2>1, <2>2, HarmlessKept
<1>5. CASE Exists
    <2>1. UNCHANGED <<worker, offspring, toWorker>> /\ stage' \in {"sigkill", "child"}
        BY <1>5 DEF Exists
    <2>2. ASSUME stage' = "child", faults' \cap {"alive", "kill"} = {}
          PROVE  ~Alive'
        BY <1>5, <2>1, <2>2 DEF Exists, Fault, Alive
    <2>3. ASSUME stage' = "child", faults' \cap {"exists", "sigkill"} = {}
          PROVE  Harmless'
        <3>1. CASE ~Alive /\ ~offspring
            BY <2>1, <3>1 DEF Harmless, Alive, NoCellToRun
        <3>2. CASE Alive
            BY <1>5, <2>1, <2>3, <3>2, HarmlessKept DEF Exists, Fault, GroupFound, Group
        <3> QED  BY <1>5, <2>3, <3>1, <3>2 DEF Exists, Fault
    <2> QED  BY <2>1, <2>2, <2>3, HarmlessKept
<1>6. CASE SignalKill
    <2>1. /\ worker' \in {worker, "dead"} /\ offspring' \in {offspring, FALSE}
          /\ UNCHANGED toWorker /\ stage' = "kill" /\ (signalled' => worker' = "dead")
        BY <1>6 DEF SignalKill, Fault
    <2> QED  BY <1>6, <2>1, SignalSettles, HarmlessKept
<1>7. CASE Kill
    <2>1. /\ worker' \in {worker, "dead"} /\ UNCHANGED <<offspring, toWorker>>
          /\ stage' = "join_kill" /\ faults \subseteq faults'
        BY <1>7 DEF Kill, Fault
    <2>2. faults' \cap {"alive", "kill"} = {} => ~Alive'
        BY <1>7 DEF Kill, Fault, Alive
    <2>3. faults' \cap {"exists", "sigkill"} = {} => Harmless'
        BY <1>7, <2>1, HarmlessKept DEF Kill
    <2> QED  BY <2>1, <2>2, <2>3, HarmlessKept
<1>8. CASE JoinKill
    BY <1>8, HarmlessKept DEF JoinKill, Fault, Alive
<1>9. CASE CloseEndpoint("child", "parent")
    BY <1>9, HarmlessKept DEF CloseEndpoint, Fault, Alive
<1>10. CASE CloseEndpoint("parent", "process")
    BY <1>10, HarmlessKept DEF CloseEndpoint, Fault, Alive
<1>11. CASE Closed
    BY <1>11, HarmlessKept DEF Closed, Fault, Alive
<1> QED  BY <1>1, <1>2, <1>3, <1>4, <1>5, <1>6, <1>7, <1>8, <1>9, <1>10, <1>11 DEF CloseStep

\* The inductive invariant behind NothingStale and the theorems about close
\* (executor.py): which frame is in the pipe, and what each stage of close has
\* settled.
THEOREM InvariantHolds == Spec => []ExecutorInv
<1>1. ExecutorInv /\ [Next]_vars => ExecutorInv'
    <2> SUFFICES ASSUME ExecutorInv, [Next]_vars PROVE ExecutorInv'
        OBVIOUS
    <2>1. CASE UNCHANGED vars
        BY <2>1, ZenonT(60)
           DEF vars, hostVars, workerVars, pipeVars, closeVars, ExecutorInv, Exchange,
                    CellExchange, LastWords, HostInv, ResultCurrent, CloseInv, Harmless,
                    NoCellToRun, Alive
    <2>2. CASE WorkerStep
        BY <2>2, WorkerExchange, WorkerKeepsHost, WorkerKeepsClose DEF ExecutorInv
    <2>3. CASE HostStep
        <3>1. Exchange' /\ ResultCurrent'
            BY <2>3, ClosingExchange, HostExchange DEF HostStep
        <3>2. HostInv'
            BY <2>3, <3>1, HostKept
        <3>3. CloseInv'
            BY <2>3, <3>1, <3>2, UseKeepsClose, CloseKeepsClose DEF HostStep
        <3> QED  BY <3>1, <3>2, <3>3 DEF ExecutorInv
    <2> QED  BY <2>1, <2>2, <2>3 DEF Next, Over
<1> QED  BY <1>1, ExecutorInit, PTL DEF Spec

\* executor.py:1000-1024, 491-537.  For any number of cells and host calls, a
\* result is that of the cell just sent, with the first host call of it that
\* failed, and a reply goes to the request that waits for it (execute,
\* host_call).
THEOREM NoFrameIsStale == Spec => []NothingStale
<1>1. ExecutorInv => NothingStale
    <2> SUFFICES ASSUME ExecutorInv PROVE ReplyCurrent
        BY DEF NothingStale, ExecutorInv, HostInv
    <2> QED
        BY OneFrame
           DEF ExecutorInv, Exchange, CellExchange, LastWords, ReplyCurrent, Frame
<1> QED  BY <1>1, InvariantHolds, PTL

\* executor.py:1170-1211.  Whichever stages of close fail, and however many, the
\* stages that work end the worker and what it left behind, and let go of the
\* pipe (close, its attempts).
THEOREM CloseLeavesNothing == Spec => []NothingLeft
<1>1. ExecutorInv => NothingLeft
    BY DEF ExecutorInv, HostInv, CloseInv, NothingLeft, Harmless
<1> QED  BY <1>1, InvariantHolds, PTL

-----------------------------------------------------------------------------
(* Sums over a finite set, by the size of its parts                          *)

\* A set of numbers that is not empty has a least one.
LEMMA LeastOf ==
    ASSUME NEW T \in SUBSET Nat, T # {} PROVE \E m \in T : \A n \in T : m <= n
<1>1. PICK m \in T : \A n \in T : ~(<<n, m>> \in OpToRel(<, Nat))
  BY NatLessThanWellFounded, WFMin
<1>2. \A n \in T : n < m => <<n, m>> \in OpToRel(<, Nat)
  BY DEF OpToRel
<1>3. \A n \in T : ~(n < m)
  BY <1>1, <1>2
<1>4. \A n \in T : n \in Nat /\ m \in Nat
  OBVIOUS
<1>5. \A n \in T : m <= n
  BY <1>3, <1>4
<1> QED
  BY <1>5

\* Induction over the numbers, for a set of them.
LEMMA AllNumbers == ASSUME NEW T \in SUBSET Nat, 0 \in T, \A n \in T : n + 1 \in T PROVE T = Nat
<1> SUFFICES ASSUME Nat \ T # {} PROVE FALSE
  OBVIOUS
<1>1. PICK m \in Nat \ T : \A n \in Nat \ T : m <= n
  BY LeastOf
<1>2. m # 0 /\ m - 1 \in Nat /\ m - 1 \in T
  BY <1>1
<1> QED
  BY <1>1, <1>2

\* Sums over the parts of a finite set.
OneOf(s) == CHOOSE x \in s : TRUE
SumStep(f, g, s) == IF s = {} THEN 0 ELSE f[OneOf(s)] + g[s \ {OneOf(s)}]
Sums(f, g, S) == g = [s \in SUBSET S |-> SumStep(f, g, s)]
SumOf(f) == (CHOOSE g : Sums(f, g, DOMAIN f))[DOMAIN f]

\* The sum CellWorker takes of a text is SumOf.
LEMMA FoldIsSum == \A f : Worker!FoldFunction(+, 0, f) = SumOf(f)
<1> TAKE f
<1>1. Worker!FoldFunction(+, 0, f) =
        (CHOOSE g : g = [s \in SUBSET (DOMAIN f) |->
              IF s = {} THEN 0 ELSE f[CHOOSE x \in s : TRUE] + g[s \ {CHOOSE x \in s : TRUE}]])[DOMAIN f]
  BY DEF Worker!FoldFunction, Worker!FoldFunctionOnSet, Worker!MapThenFoldSet
<1> QED
  BY <1>1 DEF SumOf, Sums, SumStep, OneOf

\* A part with one element less is smaller.
LEMMA OneLess ==
    ASSUME NEW S, IsFiniteSet(S), NEW s \in SUBSET S
    PROVE  /\ IsFiniteSet(s) /\ Cardinality(s) \in Nat /\ Cardinality(s) <= Cardinality(S)
           /\ Cardinality(s) = 0 <=> s = {}
           /\ s # {} => /\ OneOf(s) \in s /\ s \ {OneOf(s)} \in SUBSET S
                        /\ Cardinality(s \ {OneOf(s)}) = Cardinality(s) - 1
<1>1. IsFiniteSet(s) /\ Cardinality(s) <= Cardinality(S)
  BY FS_Subset
<1>2. Cardinality(s) \in Nat /\ (Cardinality(s) = 0 <=> s = {})
  BY <1>1, FS_CardinalityType, FS_EmptySet
<1>3. s # {} => OneOf(s) \in s
  BY DEF OneOf
<1>4. s # {} => Cardinality(s \ {OneOf(s)}) = Cardinality(s) - 1
  BY <1>1, <1>3, FS_RemoveElement
<1> QED
  BY <1>1, <1>2, <1>3, <1>4

\* What holds of the empty part, and of a part if of one with an element less,
\* holds of all.
LEMMA ForAllParts ==
    ASSUME NEW S, IsFiniteSet(S), NEW P \in SUBSET SUBSET S, {} \in P,
           \A s \in SUBSET S : s # {} /\ s \ {OneOf(s)} \in P => s \in P
    PROVE  P = SUBSET S
<1> DEFINE T == {n \in Nat : \A s \in SUBSET S : Cardinality(s) <= n => s \in P}
<1>1. 0 \in T
  <2>1. ASSUME NEW s \in SUBSET S, Cardinality(s) <= 0
        PROVE  s = {}
    <3>1. Cardinality(s) \in Nat /\ (Cardinality(s) = 0 <=> s = {})
      BY OneLess
    <3> QED
      BY <2>1, <3>1
  <2> QED
    BY <2>1
<1>2. ASSUME NEW n \in T
      PROVE  n + 1 \in T
  <2>1. ASSUME NEW s \in SUBSET S, Cardinality(s) <= n + 1
        PROVE  s \in P
    <3>1. CASE s = {}
      BY <3>1
    <3>2. CASE s # {}
      <4>1. s \ {OneOf(s)} \in SUBSET S /\ Cardinality(s \ {OneOf(s)}) <= n
        BY <2>1, <3>2, OneLess
      <4> QED
        BY <3>2, <4>1
    <3> QED
      BY <3>1, <3>2
  <2> QED
    BY <2>1
<1>3. T \in SUBSET Nat
  OBVIOUS
<1>4. T = Nat
  <2> HIDE DEF T
  <2> QED
    BY <1>1, <1>2, <1>3, AllNumbers
<1>5. ASSUME NEW s \in SUBSET S
      PROVE  s \in P
  BY <1>4, OneLess
<1> QED
  BY <1>5

\* There are sums of the parts of a finite set: part by part, by their size.
LEMMA SumsExist ==
    ASSUME NEW f, NEW S, IsFiniteSet(S)
    PROVE  \E g : Sums(f, g, S)
<1> DEFINE Upto(n) == {s \in SUBSET S : Cardinality(s) <= n}
           T == {n \in Nat : \E g : g = [s \in Upto(n) |-> SumStep(f, g, s)]}
<1>1. 0 \in T
  <2> DEFINE g == [s \in Upto(0) |-> 0]
  <2>1. ASSUME NEW s \in Upto(0)
        PROVE  s = {}
    <3>1. Cardinality(s) \in Nat /\ (Cardinality(s) = 0 <=> s = {}) /\ Cardinality(s) <= 0
      BY OneLess
    <3> QED
      BY <3>1
  <2>2. g = [s \in Upto(0) |-> SumStep(f, g, s)]
    BY <2>1 DEF SumStep
  <2> QED
    BY <2>2
<1>2. ASSUME NEW n \in T
      PROVE  n + 1 \in T
  <2>1. PICK g : g = [s \in Upto(n) |-> SumStep(f, g, s)]
    BY <1>2
  <2> DEFINE h == [s \in Upto(n + 1) |-> SumStep(f, g, s)]
  <2>2. \A s \in Upto(n + 1) : s # {} => s \ {OneOf(s)} \in Upto(n)
            /\ s \ {OneOf(s)} \in Upto(n + 1)
    BY OneLess
  <2>3. \A s \in Upto(n) : h[s] = g[s]
    <3>1. ASSUME NEW s \in Upto(n)
          PROVE  s \in Upto(n + 1)
      <4>1. s \in SUBSET S /\ Cardinality(s) \in Nat /\ Cardinality(s) <= n /\ n \in Nat
        BY OneLess
      <4> QED
        BY <4>1
    <3>2. \A s \in Upto(n) : g[s] = SumStep(f, g, s)
      BY <2>1
    <3> QED
      BY <3>1, <3>2
  <2>4. \A s \in Upto(n + 1) : SumStep(f, g, s) = SumStep(f, h, s)
    BY <2>2, <2>3 DEF SumStep
  <2>5. h = [s \in Upto(n + 1) |-> SumStep(f, h, s)]
    BY <2>4
  <2>6. \E k : k = [s \in Upto(n + 1) |-> SumStep(f, k, s)]
    BY <2>5
  <2>7. n \in Nat /\ n + 1 \in Nat
    OBVIOUS
  <2> QED
    BY <2>6, <2>7
<1>3. T \in SUBSET Nat
  OBVIOUS
<1>4. T = Nat
  <2> HIDE DEF T
  <2> QED
    BY <1>1, <1>2, <1>3, AllNumbers
<1>5. Cardinality(S) \in Nat
  BY FS_CardinalityType
<1>6. Upto(Cardinality(S)) = SUBSET S
  BY OneLess
<1>7. PICK g : g = [s \in Upto(Cardinality(S)) |-> SumStep(f, g, s)]
  BY <1>4, <1>5
<1> QED
  BY <1>6, <1>7 DEF Sums

\* SumOf is one of them.
LEMMA SumIs ==
    ASSUME NEW f, IsFiniteSet(DOMAIN f)
    PROVE  \E g : Sums(f, g, DOMAIN f) /\ SumOf(f) = g[DOMAIN f]
<1>1. \E g : Sums(f, g, DOMAIN f)
  BY SumsExist
<1> QED
  BY <1>1 DEF SumOf

\* The sum of zeros, and of numbers of which one was raised.
LEMMA SumOfZeros ==
    ASSUME NEW S, IsFiniteSet(S), NEW f, f = [x \in S |-> 0]
    PROVE  SumOf(f) = 0
<1>1. PICK g : Sums(f, g, S) /\ SumOf(f) = g[S]
  BY SumIs
<1> DEFINE P == {s \in SUBSET S : g[s] = 0}
<1>2. {} \in P
  BY <1>1 DEF Sums, SumStep
<1>3. ASSUME NEW s \in SUBSET S, s # {}, s \ {OneOf(s)} \in P
      PROVE  s \in P
  <2>1. g[s] = f[OneOf(s)] + g[s \ {OneOf(s)}]
    BY <1>1, <1>3 DEF Sums, SumStep
  <2>2. f[OneOf(s)] = 0
    BY <1>3, OneLess
  <2> QED
    BY <1>3, <2>1, <2>2
<1>4. P \in SUBSET SUBSET S
  OBVIOUS
<1>5. P = SUBSET S
  <2> HIDE DEF P
  <2> QED
    BY <1>2, <1>3, <1>4, ForAllParts
<1> QED
  BY <1>1, <1>5

\* The sum of numbers of which one was raised.
LEMMA SumIsRaised ==
    ASSUME NEW S, IsFiniteSet(S), NEW f \in [S -> Nat], NEW c \in S, NEW r \in Nat
    PROVE  /\ SumOf(f) \in Nat
           /\ SumOf([f EXCEPT ![c] = f[c] + r]) = SumOf(f) + r
<1> DEFINE h == [f EXCEPT ![c] = f[c] + r]
<1>1. PICK g : Sums(f, g, S) /\ SumOf(f) = g[S]
  BY SumIs
<1>2. PICK k : Sums(h, k, S) /\ SumOf(h) = k[S]
  <2>1. DOMAIN h = S
    OBVIOUS
  <2> HIDE DEF h
  <2> QED
    BY <2>1, SumIs
<1>3. \A x \in S : h[x] = IF x = c THEN f[x] + r ELSE f[x]
  OBVIOUS
<1> HIDE DEF h
<1> DEFINE P == {s \in SUBSET S : g[s] \in Nat /\ k[s] = g[s] + (IF c \in s THEN r ELSE 0)}
<1>4. {} \in P
  BY <1>1, <1>2 DEF Sums, SumStep
<1>5. ASSUME NEW s \in SUBSET S, s # {}, s \ {OneOf(s)} \in P
      PROVE  s \in P
  <2> DEFINE x == OneOf(s)
             t == s \ {x}
  <2>1. g[s] = f[x] + g[t] /\ k[s] = h[x] + k[t]
    BY <1>1, <1>2, <1>5 DEF Sums, SumStep
  <2>2. x \in s /\ x \in S /\ t \in P
    BY <1>5, OneLess
  <2> HIDE DEF x
  <2>3. f[x] \in Nat /\ g[t] \in Nat /\ k[t] = g[t] + (IF c \in t THEN r ELSE 0)
    BY <2>2
  <2>4. CASE x = c
    BY <1>3, <2>1, <2>2, <2>3, <2>4
  <2>5. CASE x # c
    BY <1>3, <2>1, <2>2, <2>3, <2>5
  <2> QED
    BY <2>4, <2>5
<1>6. P \in SUBSET SUBSET S
  OBVIOUS
<1>7. P = SUBSET S
  <2> HIDE DEF P
  <2> QED
    BY <1>4, <1>5, <1>6, ForAllParts
<1> QED
  BY <1>1, <1>2, <1>7 DEF h

-----------------------------------------------------------------------------
(* CellWorker: the streams of a cell that no other thread wrote to          *)

Channels == Worker!Channels
Caps == [kept : Nat, retained : Nat, total : Nat]
Kept == [ch \in Channels |-> cap[ch].kept]

\* What the constants are.
LEMMA ChannelsAre ==
    /\ IsFiniteSet(Channels) /\ "traceback" \in Channels
    /\ Streams \subseteq Channels /\ "traceback" \notin Streams
    /\ MaxChars \in Nat /\ Lengths \subseteq Nat
<1>1. IsFiniteSet(Streams \cup {"traceback"})
  BY StreamsAssumption, FS_Singleton, FS_Union
<1> QED
  BY <1>1, StreamsAssumption DEF Channels, Worker!Channels

\* Between two writes a channel counts what it keeps, and is short of something
\* only if the budget is spent.
Counted(ch) ==
    /\ cap[ch].kept = cap[ch].retained /\ cap[ch].retained <= cap[ch].total
    /\ cap[ch].retained < cap[ch].total => budget = MaxChars

\* In the middle of a write its channel has what was taken and not yet counted.
Taken(c, n, r) ==
    /\ cap[c].kept = cap[c].retained + r
    /\ cap[c].retained <= cap[c].total
    /\ cap[c].retained < cap[c].total => budget = MaxChars
    /\ r <= n /\ (r < n => budget = MaxChars)

\* Where the main thread is in its write.
Unwritten == pen["main"] = [at |-> "idle"] /\ \A ch \in Channels : Counted(ch)
Measuring(c, n) == pen["main"] = [at |-> "measure", ch |-> c, n |-> n]
    /\ \A ch \in Channels : Counted(ch)
Taking(c, n, r) ==
    /\ pen["main"] = [at |-> "take", ch |-> c, n |-> n, room |-> r]
    /\ \A ch \in Channels : Counted(ch)
    /\ r <= n /\ budget + r <= MaxChars /\ (r < n => budget + r = MaxChars)
Weighing(c, n, r) ==
    /\ pen["main"] = [at |-> "weigh", ch |-> c, n |-> n, room |-> r]
    /\ Taken(c, n, r) /\ \A ch \in Channels \ {c} : Counted(ch)
Counting(c, n, r) ==
    /\ pen["main"] = [at |-> "count", ch |-> c, n |-> n, room |-> r, sum |-> cap[c].retained + r]
    /\ Taken(c, n, r) /\ \A ch \in Channels \ {c} : Counted(ch)

Writes ==
    \/ Unwritten
    \/ /\ phase \in {"running", "tracing"}
       /\ \E c \in Channels, n \in Nat :
             /\ phase = "tracing" => c = "traceback"
             /\ \/ Measuring(c, n)
                \/ \E r \in Nat : Taking(c, n, r) \/ Weighing(c, n, r) \/ Counting(c, n, r)

\* What the frame has of the channels.
Framed ==
    /\ phase \in {"running", "over"} => frame = [sent |-> FALSE]
    /\ phase \in {"tracing", "sending"} =>
          /\ ~frame.sent /\ frame.text = [ch \in Channels |-> frame.text[ch]]
          /\ \A ch \in Channels : ch # "traceback" \/ phase = "sending"
                 => frame.text[ch] = Kept[ch]
    /\ frame.sent =>
          /\ phase \notin {"start", "running", "over", "tracing", "sending"}
          /\ frame.text = Kept
          /\ DOMAIN frame.truncations = {ch \in Channels : Worker!Truncated(ch)}

\* The streams of a cell that no other thread wrote to.
Orderly ==
    /\ \A w \in Background : pen[w] = [at |-> "idle"]
    /\ cap \in [Channels -> Caps]
    /\ budget \in 0..MaxChars
    /\ SumOf(Kept) = budget
    /\ Writes
    /\ Framed

Phases == {"start", "idle", "running", "over", "tracing", "sending", "sent", "dead"}

Shaped == phase \in Phases /\ shared \in BOOLEAN /\ DOMAIN pen = {"main"} \cup Background
StreamsInv == Shaped /\ (shared \/ Orderly)

\* The worker starts with empty streams.
LEMMA StreamsBegin == Worker!Init => StreamsInv
<1> SUFFICES ASSUME Worker!Init PROVE StreamsInv
  OBVIOUS
<1>1. /\ phase = "start" /\ cap = [ch \in Channels |-> [kept |-> 0, retained |-> 0, total |-> 0]]
      /\ budget = 0 /\ pen = [w \in {"main"} \cup Background |-> [at |-> "idle"]]
      /\ shared = FALSE /\ frame = [sent |-> FALSE]
  BY DEF Worker!Init, Worker!Empty, Channels, Worker!Writers, Worker!Main, Worker!Idle,
         Worker!NoFrame
<1>2. SumOf(Kept) = 0
  <2>1. Kept = [ch \in Channels |-> 0]
    BY <1>1 DEF Kept
  <2> QED
    BY <2>1, ChannelsAre, SumOfZeros
<1>3. cap \in [Channels -> Caps] /\ \A ch \in Channels : Counted(ch)
  BY <1>1 DEF Caps, Counted
<1>4. Unwritten
  BY <1>1, <1>3 DEF Unwritten
<1>5. Framed
  BY <1>1 DEF Framed
<1>6. Shaped
  BY <1>1 DEF Shaped, Phases
<1>7. \A w \in Background : pen[w] = [at |-> "idle"]
  BY <1>1
<1>8. budget \in 0..MaxChars /\ SumOf(Kept) = budget
  BY <1>1, <1>2, ChannelsAre
<1> QED
  BY <1>3, <1>4, <1>5, <1>6, <1>7, <1>8 DEF StreamsInv, Orderly, Writes

\* A thread that is idle is in the middle of nothing.
LEMMA IdleIsUnwritten ==
    ASSUME Writes, pen["main"].at = "idle"
    PROVE  Unwritten
<1> SUFFICES ASSUME NEW c \in Channels, NEW n \in Nat, NEW r \in Nat,
                    Measuring(c, n) \/ Taking(c, n, r) \/ Weighing(c, n, r) \/ Counting(c, n, r)
             PROVE  FALSE
  BY DEF Writes
<1>1. pen["main"].at \in {"measure", "take", "weigh", "count"}
  BY DEF Measuring, Taking, Weighing, Counting
<1> QED
  BY <1>1

\* A step that writes nothing leaves the write where it is.
LEMMA WritesStay ==
    ASSUME Writes, UNCHANGED <<cap, budget, pen>>, phase' = phase \/ pen["main"].at = "idle"
    PROVE  Writes'
<1>1. Unwritten => Unwritten'
  BY DEF Unwritten, Counted
<1>2. CASE pen["main"].at = "idle"
  BY <1>1, <1>2, IdleIsUnwritten DEF Writes
<1>3. CASE phase' = phase
  <2>1. ASSUME NEW c \in Channels, NEW n \in Nat
        PROVE  Measuring(c, n) => Measuring(c, n)'
    BY DEF Measuring, Counted
  <2>2. ASSUME NEW c \in Channels, NEW n \in Nat, NEW r \in Nat
        PROVE  /\ Taking(c, n, r) => Taking(c, n, r)'
               /\ Weighing(c, n, r) => Weighing(c, n, r)'
               /\ Counting(c, n, r) => Counting(c, n, r)'
    BY DEF Taking, Weighing, Counting, Taken, Counted
  <2> QED
    BY <1>1, <1>3, <2>1, <2>2 DEF Writes
<1> QED
  BY <1>2, <1>3

\* Steps that touch no stream, and move only between phases in which the frame
\* has the same of them.
Untouched == UNCHANGED <<cap, budget, pen, shared>>

\* Such a step keeps the invariant.
LEMMA UntouchedKeeps ==
    ASSUME StreamsInv, Untouched, phase' \in Phases,
           phase' = phase \/ pen["main"].at = "idle",
           ~shared => Framed'
    PROVE  StreamsInv'
<1>1. Shaped'
  BY DEF StreamsInv, Shaped, Untouched
<1>2. CASE shared
  BY <1>1, <1>2 DEF StreamsInv, Untouched
<1>3. CASE ~shared
  <2>1. Orderly /\ Framed'
    BY <1>3 DEF StreamsInv
  <2>2. Kept' = Kept
    BY DEF Untouched, Kept
  <2>3. Writes'
    BY <2>1, WritesStay DEF Orderly, Untouched
  <2>4. (\A w \in Background : pen[w] = [at |-> "idle"])' /\ (cap \in [Channels -> Caps])'
        /\ (budget \in 0..MaxChars)'
    BY <2>1 DEF Orderly, Untouched
  <2>5. (SumOf(Kept) = budget)'
    BY <2>1, <2>2 DEF Orderly, Untouched
  <2> QED
    BY <1>1, <2>1, <2>3, <2>4, <2>5 DEF StreamsInv, Orderly
<1> QED
  BY <1>2, <1>3

\* Which write the main thread is in the middle of.
LEMMA WritesWhere ==
    ASSUME Writes, pen["main"].at # "idle"
    PROVE  /\ phase \in {"running", "tracing"}
           /\ \E c \in Channels, n \in Nat :
                 /\ phase = "tracing" => c = "traceback"
                 /\ \/ pen["main"].at = "measure" /\ Measuring(c, n)
                    \/ \E r \in Nat : \/ pen["main"].at = "take" /\ Taking(c, n, r)
                                      \/ pen["main"].at = "weigh" /\ Weighing(c, n, r)
                                      \/ pen["main"].at = "count" /\ Counting(c, n, r)
<1>1. ~Unwritten
  BY DEF Unwritten
<1>2. PICK c \in Channels, n \in Nat :
        /\ phase \in {"running", "tracing"}
        /\ phase = "tracing" => c = "traceback"
        /\ \/ Measuring(c, n)
           \/ \E r \in Nat : Taking(c, n, r) \/ Weighing(c, n, r) \/ Counting(c, n, r)
  BY <1>1 DEF Writes
<1>3. /\ Measuring(c, n) => pen["main"].at = "measure"
      /\ \A r \in Nat : /\ Taking(c, n, r) => pen["main"].at = "take"
                        /\ Weighing(c, n, r) => pen["main"].at = "weigh"
                        /\ Counting(c, n, r) => pen["main"].at = "count"
  BY DEF Measuring, Taking, Weighing, Counting
<1> QED
  BY <1>2, <1>3

\* Only the main thread writes to streams that are not shared.
LEMMA OnlyMainWrites ==
    ASSUME StreamsInv, ~shared, NEW w \in Worker!Writers, pen[w].at # "idle"
    PROVE  w = "main" /\ Orderly
<1>1. Orderly
  BY DEF StreamsInv
<1>2. w \notin Background
  BY <1>1 DEF Orderly
<1> QED
  BY <1>1, <1>2 DEF Worker!Writers, Worker!Main

\* The frame is not yet sent, and has what the streams had when they were read.
LEMMA FramedStays ==
    ASSUME Framed, phase \in {"running", "tracing"}, phase' = phase, frame' = frame,
           \A ch \in Channels : ch # "traceback" /\ phase = "tracing" => Kept'[ch] = Kept[ch]
    PROVE  Framed'
<1>1. ~frame.sent
  BY DEF Framed
<1>2. CASE phase = "running"
  BY <1>1, <1>2 DEF Framed
<1>3. CASE phase = "tracing"
  <2>1. /\ frame.text = [ch \in Channels |-> frame.text[ch]]
        /\ \A ch \in Channels : ch # "traceback" => frame.text[ch] = Kept[ch]
    BY <1>3 DEF Framed
  <2> QED
    BY <1>1, <1>3, <2>1 DEF Framed
<1> QED
  BY <1>2, <1>3

\* A write that changes no counter leaves what the streams keep.
LEMMA SameStreams ==
    ASSUME Orderly, UNCHANGED <<cap, budget>>, phase \in {"running", "tracing"}, phase' = phase,
           frame' = frame, \A w \in Background : pen'[w] = pen[w], Writes'
    PROVE  Orderly'
<1>1. Kept' = Kept
  BY DEF Kept
<1>2. Framed'
  BY <1>1, FramedStays DEF Orderly
<1>3. (\A w \in Background : pen[w] = [at |-> "idle"])'
  BY DEF Orderly
<1>4. (cap \in [Channels -> Caps])' /\ (budget \in 0..MaxChars)'
  BY DEF Orderly
<1>5. (SumOf(Kept) = budget)'
  BY <1>1 DEF Orderly
<1> QED
  BY <1>2, <1>3, <1>4, <1>5 DEF Orderly

\* A channel counts the same while its counters and the budget stay.
LEMMA CountedStays ==
    ASSUME cap' = cap, budget' = budget
    PROVE  \A ch \in Channels : Counted(ch) => Counted(ch)'
BY DEF Counted

\* The step a thread takes in its write changes its pen alone.
PenMoves(w, p) == pen' = [pen EXCEPT ![w] = p]

\* And the pens keep their shape.
LEMMA PenIsShaped ==
    ASSUME Shaped, UNCHANGED phase, shared' \in BOOLEAN, NEW w, NEW p, PenMoves(w, p)
    PROVE  Shaped'
BY DEF Shaped, PenMoves

\* A write begins.
LEMMA BeginKeeps ==
    ASSUME StreamsInv, NEW w \in Worker!Writers, NEW ch \in Channels, NEW n \in Lengths,
           Worker!Begin(w, ch, n)
    PROVE  StreamsInv'
<1>1. Shaped /\ phase' = phase /\ cap' = cap /\ budget' = budget /\ frame' = frame
  BY DEF StreamsInv, Worker!Begin
<1>2. PenMoves(w, [at |-> "measure", ch |-> ch, n |-> n])
  BY DEF Worker!Begin, PenMoves
<1>3. shared' = (shared \/ w # "main")
  BY DEF Worker!Begin, Worker!Main
<1>4. Shaped'
  BY <1>1, <1>2, <1>3, PenIsShaped DEF Shaped
<1>5. ASSUME ~shared, w = "main"
      PROVE  Orderly'
  <2>1. Orderly /\ pen["main"].at = "idle"
    BY <1>5 DEF StreamsInv, Worker!Begin, Worker!Idle
  <2>2. Unwritten
    BY <2>1, IdleIsUnwritten DEF Orderly
  <2>3. pen'["main"] = [at |-> "measure", ch |-> ch, n |-> n]
    BY <1>1, <1>2, <1>5 DEF PenMoves, Shaped
  <2>4. \A v \in Background : pen'[v] = pen[v]
    BY <1>1, <1>2, <1>5, StreamsAssumption DEF PenMoves, Shaped
  <2>5. phase \in {"running", "tracing"} /\ (phase = "tracing" => ch = "traceback")
    BY <1>5 DEF Worker!Begin, Worker!MayBegin, Worker!Main
  <2>6. Measuring(ch, n)'
    BY <1>1, <2>2, <2>3, CountedStays DEF Unwritten, Measuring
  <2>7. n \in Nat
    BY ChannelsAre
  <2>8. Writes'
    BY <1>1, <2>5, <2>6, <2>7 DEF Writes
  <2> QED
    BY <1>1, <2>1, <2>4, <2>5, <2>8, SameStreams
<1> QED
  BY <1>3, <1>4, <1>5 DEF StreamsInv

\* The room is computed: it is what the budget has left, at most.
LEMMA MeasureKeeps ==
    ASSUME StreamsInv, NEW w \in Worker!Writers, Worker!Measure(w)
    PROVE  StreamsInv'
<1>1. Shaped /\ phase' = phase /\ cap' = cap /\ budget' = budget /\ frame' = frame
          /\ shared' = shared
  BY DEF StreamsInv, Worker!Measure
<1>0. PICK r : r = Worker!Room(pen[w].n)
  OBVIOUS
<1>2. pen[w].at = "measure"
  BY DEF Worker!Measure
<1>3. PenMoves(w, [at |-> "take", ch |-> pen[w].ch, n |-> pen[w].n, room |-> r])
  <2>1. w \in DOMAIN pen
    BY <1>1 DEF Shaped, Worker!Writers, Worker!Main
  <2> QED
    BY <1>0, <2>1 DEF Worker!Measure, PenMoves
<1>4. Shaped'
  BY <1>1, <1>3, PenIsShaped DEF Shaped
<1>5. ASSUME ~shared
      PROVE  Orderly'
  <2>1. w = "main" /\ Orderly
    BY <1>2, <1>5, OnlyMainWrites
  <2>2. PICK c \in Channels, n \in Nat :
          phase \in {"running", "tracing"} /\ (phase = "tracing" => c = "traceback")
              /\ Measuring(c, n)
    BY <1>2, <2>1, WritesWhere DEF Orderly
  <2>3. pen["main"].ch = c /\ pen["main"].n = n
    BY <2>2 DEF Measuring
  <2>4. pen'["main"] = [at |-> "take", ch |-> c, n |-> n, room |-> r]
    BY <1>1, <1>3, <2>1, <2>3 DEF PenMoves, Shaped
  <2>5. \A v \in Background : pen'[v] = pen[v]
    BY <1>1, <1>3, <2>1, StreamsAssumption DEF PenMoves, Shaped
  <2>6. /\ r \in Nat /\ r <= n /\ budget + r <= MaxChars
        /\ r < n => budget + r = MaxChars
    <3>1. budget \in 0..MaxChars /\ MaxChars \in Nat
      BY <2>1, ChannelsAre DEF Orderly
    <3> QED
      BY <1>0, <2>1, <2>3, <3>1 DEF Worker!Room, Worker!Less
  <2>7. Taking(c, n, r)'
    BY <1>1, <2>2, <2>4, <2>6, CountedStays DEF Measuring, Taking
  <2>8. Writes'
    BY <1>1, <2>2, <2>6, <2>7 DEF Writes
  <2> QED
    BY <1>1, <2>1, <2>2, <2>5, <2>8, SameStreams
<1> QED
  BY <1>1, <1>4, <1>5 DEF StreamsInv

\* The counter of the stream is loaded.
LEMMA WeighKeeps ==
    ASSUME StreamsInv, NEW w \in Worker!Writers, Worker!Weigh(w)
    PROVE  StreamsInv'
<1>1. Shaped /\ phase' = phase /\ cap' = cap /\ budget' = budget /\ frame' = frame
          /\ shared' = shared
  BY DEF StreamsInv, Worker!Weigh
<1>2. pen[w].at = "weigh"
  BY DEF Worker!Weigh
<1>3. PenMoves(w, [at |-> "count", ch |-> pen[w].ch, n |-> pen[w].n, room |-> pen[w].room,
                   sum |-> cap[pen[w].ch].retained + pen[w].room])
  <2>1. w \in DOMAIN pen
    BY <1>1 DEF Shaped, Worker!Writers, Worker!Main
  <2> QED
    BY <2>1 DEF Worker!Weigh, PenMoves
<1>4. Shaped'
  BY <1>1, <1>3, PenIsShaped DEF Shaped
<1>5. ASSUME ~shared
      PROVE  Orderly'
  <2>1. w = "main" /\ Orderly
    BY <1>2, <1>5, OnlyMainWrites
  <2>2. PICK c \in Channels, n \in Nat, r \in Nat :
          phase \in {"running", "tracing"} /\ (phase = "tracing" => c = "traceback")
              /\ Weighing(c, n, r)
    BY <1>2, <2>1, WritesWhere DEF Orderly
  <2>3. pen["main"].ch = c /\ pen["main"].n = n /\ pen["main"].room = r
    BY <2>2 DEF Weighing
  <2>4. pen'["main"] = [at |-> "count", ch |-> c, n |-> n, room |-> r, sum |-> cap[c].retained + r]
    BY <1>1, <1>3, <2>1, <2>3 DEF PenMoves, Shaped
  <2>5. \A v \in Background : pen'[v] = pen[v]
    BY <1>1, <1>3, <2>1, StreamsAssumption DEF PenMoves, Shaped
  <2>6. Taken(c, n, r)'
    BY <1>1, <2>2 DEF Weighing, Taken
  <2>7. Counting(c, n, r)'
    BY <1>1, <2>2, <2>4, <2>6, CountedStays DEF Weighing, Counting
  <2>8. Writes'
    BY <1>1, <2>2, <2>7 DEF Writes
  <2> QED
    BY <1>1, <2>1, <2>2, <2>5, <2>8, SameStreams
<1> QED
  BY <1>1, <1>4, <1>5 DEF StreamsInv

\* The counters are numbers.
LEMMA CapsAre ==
    ASSUME Orderly, NEW ch \in Channels
    PROVE  /\ cap[ch] \in Caps /\ cap[ch].kept \in Nat /\ cap[ch].retained \in Nat
                  /\ cap[ch].total \in Nat
           /\ Kept[ch] = cap[ch].kept /\ Kept \in [Channels -> Nat]
<1>1. \A c \in Channels : cap[c] \in Caps
  BY DEF Orderly
<1>2. \A c \in Channels : cap[c].kept \in Nat /\ cap[c].retained \in Nat /\ cap[c].total \in Nat
  BY <1>1 DEF Caps
<1> QED
  BY <1>1, <1>2 DEF Kept

\* Something more is kept of one channel.
LEMMA KeptIsRaised ==
    ASSUME NEW f \in [Channels -> Nat], NEW c \in Channels, NEW r \in Nat
    PROVE  SumOf([f EXCEPT ![c] = f[c] + r]) = SumOf(f) + r
<1>1. IsFiniteSet(Channels)
  BY ChannelsAre
<1>2. /\ SumOf(f) \in Nat
      /\ SumOf([f EXCEPT ![c] = f[c] + r]) = SumOf(f) + r
  BY <1>1, SumIsRaised, ZenonT(60)
<1> QED
  BY <1>2

\* The prefix is kept and taken from the budget.
LEMMA TakeKeeps ==
    ASSUME StreamsInv, NEW w \in Worker!Writers, Worker!Take(w)
    PROVE  StreamsInv'
<1>1. Shaped /\ phase' = phase /\ frame' = frame /\ shared' = shared
  BY DEF StreamsInv, Worker!Take
<1>2. pen[w].at = "take"
  BY DEF Worker!Take
<1>3. PenMoves(w, [at |-> "weigh", ch |-> pen[w].ch, n |-> pen[w].n, room |-> pen[w].room])
  <2>1. w \in DOMAIN pen
    BY <1>1 DEF Shaped, Worker!Writers, Worker!Main
  <2> QED
    BY <2>1 DEF Worker!Take, PenMoves
<1>4. Shaped'
  BY <1>1, <1>3, PenIsShaped DEF Shaped
<1>5. ASSUME ~shared
      PROVE  Orderly'
  <2>1. w = "main" /\ Orderly
    BY <1>2, <1>5, OnlyMainWrites
  <2>2. PICK c \in Channels, n \in Nat, r \in Nat :
          phase \in {"running", "tracing"} /\ (phase = "tracing" => c = "traceback")
              /\ Taking(c, n, r)
    BY <1>2, <2>1, WritesWhere DEF Orderly
  <2>3. pen["main"].ch = c /\ pen["main"].n = n /\ pen["main"].room = r
    BY <2>2 DEF Taking
  <2>4. pen'["main"] = [at |-> "weigh", ch |-> c, n |-> n, room |-> r]
    BY <1>1, <1>3, <2>1, <2>3 DEF PenMoves, Shaped
  <2>5. (\A v \in Background : pen[v] = [at |-> "idle"])'
    BY <1>1, <1>3, <2>1, StreamsAssumption DEF PenMoves, Shaped, Orderly
  <2>6. budget' = budget + r /\ cap' = [cap EXCEPT ![c].kept = @ + r]
    BY <2>1, <2>3 DEF Worker!Take
  <2>7. /\ \A ch \in Channels : cap[ch] \in Caps
        /\ budget \in 0..MaxChars /\ MaxChars \in Nat /\ Kept \in [Channels -> Nat]
    BY <2>1, <2>2, CapsAre, ChannelsAre DEF Orderly
  <2>8. /\ cap'[c] = [kept |-> cap[c].kept + r, retained |-> cap[c].retained,
                       total |-> cap[c].total]
        /\ \A ch \in Channels \ {c} : cap'[ch] = cap[ch]
        /\ cap' \in [Channels -> Caps]
    <3>1. cap \in [Channels -> Caps]
      BY <2>1 DEF Orderly
    <3> QED
      BY <2>6, <3>1 DEF Caps
  <2>9. Kept' = [Kept EXCEPT ![c] = Kept[c] + r]
    <3>1. \A ch \in Channels : cap'[ch].kept = IF ch = c THEN cap[c].kept + r ELSE cap[ch].kept
      BY <2>8
    <3>2. Kept[c] = cap[c].kept
      BY DEF Kept
    <3> QED
      BY <3>1, <3>2 DEF Kept
  <2>10. SumOf(Kept') = budget' /\ budget' \in 0..MaxChars
    <3>1. SumOf([Kept EXCEPT ![c] = Kept[c] + r]) = SumOf(Kept) + r
      <4>1. IsFiniteSet(Channels) /\ Kept \in [Channels -> Nat]
        BY <2>7, ChannelsAre
      <4> QED
        BY <4>1, KeptIsRaised
    <3>2. SumOf(Kept) = budget /\ budget + r <= MaxChars
      BY <2>1, <2>2 DEF Orderly, Taking
    <3> QED
      BY <2>6, <2>7, <2>9, <3>1, <3>2
  <2>11. (SumOf(Kept) = budget)'
    BY <2>10
  <2>12. Taken(c, n, r)'
    <3>1. /\ cap[c].kept = cap[c].retained /\ cap[c].retained <= cap[c].total
          /\ cap[c].retained < cap[c].total => budget = MaxChars
          /\ r <= n /\ budget + r <= MaxChars /\ (r < n => budget + r = MaxChars)
      BY <2>2 DEF Taking, Counted
    <3>2. cap'[c].kept = cap[c].kept + r /\ cap'[c].retained = cap[c].retained
              /\ cap'[c].total = cap[c].total
      BY <2>8
    <3>3. cap[c].kept \in Nat /\ cap[c].retained \in Nat /\ cap[c].total \in Nat
      BY <2>1, CapsAre
    <3> QED
      BY <2>6, <2>7, <3>1, <3>2, <3>3 DEF Taken
  <2>13. ASSUME NEW ch \in Channels \ {c}
         PROVE  Counted(ch)'
    <3>1. Counted(ch) /\ budget + r <= MaxChars
      BY <2>2 DEF Taking
    <3>2. cap'[ch] = cap[ch]
      BY <2>8
    <3> QED
      BY <2>6, <2>7, <3>1, <3>2 DEF Counted
  <2>14. Weighing(c, n, r)'
    BY <2>4, <2>12, <2>13 DEF Weighing
  <2>15. Writes'
    BY <1>1, <2>2, <2>14 DEF Writes
  <2>16. Framed'
    <3>1. \A ch \in Channels : ch # "traceback" /\ phase = "tracing" => Kept'[ch] = Kept[ch]
      BY <2>2, <2>7, <2>9
    <3> QED
      BY <1>1, <2>1, <2>2, <3>1, FramedStays DEF Orderly
  <2> QED
    BY <2>5, <2>8, <2>10, <2>11, <2>15, <2>16 DEF Orderly
<1> QED
  BY <1>1, <1>4, <1>5 DEF StreamsInv

\* The sum is stored, which is the stream's own as nobody else wrote to it.
LEMMA CountKeeps ==
    ASSUME StreamsInv, NEW w \in Worker!Writers, Worker!Count(w)
    PROVE  StreamsInv'
<1>1. Shaped /\ phase' = phase /\ frame' = frame /\ shared' = shared /\ budget' = budget
  BY DEF StreamsInv, Worker!Count
<1>2. pen[w].at = "count"
  BY DEF Worker!Count
<1>3. PenMoves(w, [at |-> "idle"])
  BY DEF Worker!Count, PenMoves, Worker!Idle
<1>4. Shaped'
  BY <1>1, <1>3, PenIsShaped DEF Shaped
<1>5. ASSUME ~shared
      PROVE  Orderly'
  <2>1. w = "main" /\ Orderly
    BY <1>2, <1>5, OnlyMainWrites
  <2>2. PICK c \in Channels, n \in Nat, r \in Nat :
          phase \in {"running", "tracing"} /\ (phase = "tracing" => c = "traceback")
              /\ Counting(c, n, r)
    BY <1>2, <2>1, WritesWhere DEF Orderly
  <2>3. /\ pen["main"].ch = c /\ pen["main"].n = n /\ pen["main"].room = r
        /\ pen["main"].sum = cap[c].retained + r
    BY <2>2 DEF Counting
  <2>4. pen'["main"] = [at |-> "idle"]
    BY <1>1, <1>3, <2>1 DEF PenMoves, Shaped
  <2>5. (\A v \in Background : pen[v] = [at |-> "idle"])'
    BY <1>1, <1>3, <2>1, StreamsAssumption DEF PenMoves, Shaped, Orderly
  <2>6. cap' = [cap EXCEPT ![c].retained = IF r > 0 THEN cap[c].retained + r ELSE @,
                 ![c].total = @ + n]
    BY <2>1, <2>3 DEF Worker!Count
  <2>7. cap[c].kept \in Nat /\ cap[c].retained \in Nat /\ cap[c].total \in Nat
    BY <2>1, CapsAre
  <2>8. /\ cap'[c] = [kept |-> cap[c].kept, retained |-> cap[c].retained + r,
                       total |-> cap[c].total + n]
        /\ \A ch \in Channels \ {c} : cap'[ch] = cap[ch]
        /\ cap' \in [Channels -> Caps]
    <3>1. cap \in [Channels -> Caps]
      BY <2>1 DEF Orderly
    <3>2. (IF r > 0 THEN cap[c].retained + r ELSE cap[c].retained) = cap[c].retained + r
      BY <2>7
    <3>3. c \in DOMAIN cap /\ cap[c] \in Caps
      BY <3>1
    <3>4. cap'[c] = [cap[c] EXCEPT !.retained = IF r > 0 THEN cap[c].retained + r
                      ELSE cap[c].retained,
                                   !.total = cap[c].total + n]
      BY <2>6, <3>3 DEF Caps
    <3>5. cap'[c] = [kept |-> cap[c].kept, retained |-> cap[c].retained + r,
                      total |-> cap[c].total + n]
      BY <3>2, <3>3, <3>4 DEF Caps
    <3>6. \A ch \in Channels \ {c} : cap'[ch] = cap[ch]
      BY <2>6, <3>1
    <3>7. cap'[c] \in Caps
      BY <2>7, <3>5 DEF Caps
    <3>8. cap' \in [Channels -> Caps]
      <4>1. DOMAIN cap' = Channels /\ cap' = [ch \in Channels |-> cap'[ch]]
        BY <2>6, <3>1
      <4>2. \A ch \in Channels : cap'[ch] \in Caps
        BY <3>1, <3>6, <3>7
      <4> QED
        BY <4>1, <4>2
    <3> QED
      BY <3>5, <3>6, <3>8
  <2>9. Kept' = Kept
    BY <2>8 DEF Kept
  <2>10. (SumOf(Kept) = budget)' /\ (budget \in 0..MaxChars)'
    BY <1>1, <2>1, <2>9 DEF Orderly
  <2>11. Counted(c)'
    <3>1. /\ cap[c].kept = cap[c].retained + r /\ cap[c].retained <= cap[c].total
          /\ cap[c].retained < cap[c].total => budget = MaxChars
          /\ r <= n /\ (r < n => budget = MaxChars)
      BY <2>2 DEF Counting, Taken
    <3>2. /\ cap'[c].kept = cap[c].kept /\ cap'[c].retained = cap[c].retained + r
          /\ cap'[c].total = cap[c].total + n
      BY <2>8
    <3> QED
      BY <1>1, <2>7, <3>1, <3>2 DEF Counted
  <2>12. ASSUME NEW ch \in Channels \ {c}
         PROVE  Counted(ch)'
    <3>1. Counted(ch)
      BY <2>2 DEF Counting
    <3>2. cap'[ch] = cap[ch]
      BY <2>8
    <3> QED
      BY <1>1, <3>1, <3>2 DEF Counted
  <2>13. Writes'
    BY <2>4, <2>11, <2>12 DEF Writes, Unwritten
  <2>14. Framed'
    BY <1>1, <2>1, <2>2, <2>9, FramedStays DEF Orderly
  <2> QED
    BY <2>5, <2>8, <2>10, <2>13, <2>14 DEF Orderly
<1> QED
  BY <1>1, <1>4, <1>5 DEF StreamsInv

\* A step of the cell itself, between two writes.
LEMMA CellKeeps ==
    ASSUME StreamsInv, phase = "running", pen["main"] = [at |-> "idle"], Untouched, frame' = frame,
           phase' \in {"running", "over"}
    PROVE  StreamsInv'
<1>1. ASSUME ~shared
      PROVE  Framed'
  <2>1. frame = [sent |-> FALSE]
    BY <1>1 DEF StreamsInv, Orderly, Framed
  <2> QED
    BY <2>1 DEF Framed
<1>2. pen["main"].at = "idle" /\ phase' \in Phases
  BY DEF Phases
<1> QED
  BY <1>1, <1>2, UntouchedKeeps

\* The cell binds names.
LEMMA RebindKeeps == StreamsInv /\ Worker!Rebind => StreamsInv'
BY CellKeeps
   DEF Worker!Rebind, Worker!Main, Worker!Idle, Worker!writeVars, Worker!cellVars, Untouched

\* The cell submits.
LEMMA FinalKeeps == ASSUME StreamsInv, NEW k, NEW t, Worker!Final(k, t) PROVE StreamsInv'
<1>1. phase = "running" /\ pen["main"] = [at |-> "idle"] /\ Untouched /\ frame' = frame
  BY DEF Worker!Final, Worker!InCell, Worker!Main, Worker!Idle, Worker!writeVars, Untouched
<1>2. phase' \in {"running", "over"}
  BY <1>1 DEF Worker!Final, Worker!Raises
<1> QED
  BY <1>1, <1>2, CellKeeps

\* A host call latches a failure, or raises.
LEMMA HostCallMoves ==
    ASSUME NEW r \in {"failure", "invalid_request", "no_text"}, Worker!HostCall(r),
               latched \in BOOLEAN
    PROVE  latched' \in BOOLEAN /\ phase' \in {phase, "over"}
<1>1. CASE latched = TRUE
  BY <1>1 DEF Worker!HostCall, Worker!Raises
<1>2. CASE latched = FALSE
  BY <1>2 DEF Worker!HostCall, Worker!Raises
<1> QED
  BY <1>1, <1>2

\* And touches no stream.
LEMMA HostCallKeeps ==
    ASSUME StreamsInv, latched \in BOOLEAN, NEW r \in {"failure", "invalid_request", "no_text"},
           Worker!HostCall(r)
    PROVE  StreamsInv'
<1>1. phase = "running" /\ pen["main"] = [at |-> "idle"] /\ Untouched /\ frame' = frame
  BY DEF Worker!HostCall, Worker!InCell, Worker!Main, Worker!Idle, Worker!writeVars,
         Untouched
<1>2. phase' \in {"running", "over"}
  BY <1>1, HostCallMoves
<1> QED
  BY <1>1, <1>2, CellKeeps

\* The cell ends.
LEMMA CellEndsKeeps == ASSUME StreamsInv, NEW e, Worker!CellEnds(e) PROVE StreamsInv'
BY CellKeeps
   DEF Worker!CellEnds, Worker!InCell, Worker!Main, Worker!Idle, Worker!writeVars, Untouched

\* The prelude runs before there is a cell.
LEMMA PreludeKeeps == StreamsInv /\ (Worker!Prelude \/ Worker!PreludeFails) => StreamsInv'
<1> SUFFICES ASSUME StreamsInv, Worker!Prelude \/ Worker!PreludeFails PROVE StreamsInv'
  OBVIOUS
<1>1. phase = "start" /\ phase' \in {"idle", "dead"} /\ Untouched /\ frame' = frame
  BY DEF Worker!Prelude, Worker!PreludeFails, Worker!writeVars, Untouched
<1>2. phase' \in Phases
  BY <1>1 DEF Phases
<1>3. CASE shared
  BY <1>1, <1>2, <1>3 DEF StreamsInv, Shaped, Untouched
<1>4. CASE ~shared
  <2>1. Orderly
    BY <1>4 DEF StreamsInv
  <2>2. ~frame.sent
    BY <1>1, <2>1 DEF Orderly, Framed
  <2>3. Framed'
    BY <1>1, <2>2 DEF Framed
  <2>4. pen["main"].at = "idle"
    BY <1>1, <2>1, WritesWhere DEF Orderly
  <2> QED
    BY <1>1, <1>2, <2>3, <2>4, UntouchedKeeps
<1> QED
  BY <1>3, <1>4

\* A cell begins with streams of its own.
LEMMA ExecuteKeeps == StreamsInv /\ Worker!Execute => StreamsInv'
<1> SUFFICES ASSUME StreamsInv, Worker!Execute PROVE StreamsInv'
  OBVIOUS
<1>1. /\ phase' = "running" /\ cap' = [ch \in Channels |-> [kept |-> 0, retained |-> 0,
                                                             total |-> 0]]
      /\ budget' = 0 /\ pen' = [w \in {"main"} \cup Background |-> [at |-> "idle"]]
      /\ shared' = FALSE /\ frame' = [sent |-> FALSE]
  BY DEF Worker!Execute, Worker!FreshStreams, Worker!Empty, Channels, Worker!Writers,
         Worker!Main,
         Worker!Idle, Worker!NoFrame
<1>2. Kept' = [ch \in Channels |-> 0]
  BY <1>1 DEF Kept
<1>3. (SumOf(Kept) = budget)' /\ (budget \in 0..MaxChars)'
  BY <1>1, <1>2, ChannelsAre, SumOfZeros
<1>4. (cap \in [Channels -> Caps])'
  BY <1>1 DEF Caps
<1>5. Writes'
  BY <1>1 DEF Writes, Unwritten, Counted
<1>6. Framed'
  BY <1>1 DEF Framed
<1>7. (\A w \in Background : pen[w] = [at |-> "idle"])'
  BY <1>1
<1>8. Shaped'
  BY <1>1 DEF Shaped, Phases
<1> QED
  BY <1>3, <1>4, <1>5, <1>6, <1>7, <1>8 DEF StreamsInv, Orderly

\* A step between the end of the cell and the observation.
LEMMA EndKeeps ==
    ASSUME StreamsInv, phase \notin {"running", "tracing"} \/ pen["main"].at = "idle", Untouched,
           phase' \in Phases, ~shared /\ Orderly => Framed'
    PROVE  StreamsInv'
<1>1. Shaped'
  BY DEF StreamsInv, Shaped, Untouched
<1>2. CASE shared
  BY <1>1, <1>2 DEF StreamsInv, Untouched
<1>3. CASE ~shared
  <2>1. Orderly
    BY <1>3 DEF StreamsInv
  <2>2. pen["main"].at = "idle"
    BY <2>1, WritesWhere DEF Orderly
  <2> QED
    BY <1>3, <2>1, <2>2, UntouchedKeeps
<1> QED
  BY <1>2, <1>3

\* The streams are read.
LEMMA ReadKeeps == StreamsInv /\ Worker!Read => StreamsInv'
<1> SUFFICES ASSUME StreamsInv, Worker!Read PROVE StreamsInv'
  OBVIOUS
<1>1. phase = "over" /\ phase' \in {"sending", "tracing"} /\ Untouched
  BY DEF Worker!Read, Untouched
<1>2. frame' = [sent |-> FALSE, text |-> Kept]
  BY DEF Worker!Read, Worker!Texts, Kept, Channels
<1>3. Kept' = Kept /\ Kept = [ch \in Channels |-> Kept[ch]]
  BY <1>1 DEF Untouched, Kept
<1>4. frame'.sent = FALSE /\ frame'.text = Kept
  BY <1>2
<1>5. Framed'
  BY <1>1, <1>3, <1>4 DEF Framed
<1>6. phase' \in Phases
  BY <1>1 DEF Phases
<1> QED
  BY <1>1, <1>5, <1>6, EndKeeps

\* The traceback is read.
LEMMA TracedKeeps == StreamsInv /\ Worker!Traced => StreamsInv'
<1> SUFFICES ASSUME StreamsInv, Worker!Traced PROVE StreamsInv'
  OBVIOUS
<1>1. phase = "tracing" /\ phase' = "sending" /\ Untouched /\ pen["main"].at = "idle"
  BY DEF Worker!Traced, Untouched, Worker!writeVars, Worker!Main, Worker!Idle
<1>2. ASSUME ~shared, Orderly
      PROVE  Framed'
  <2>1. /\ frame.text = [ch \in Channels |-> frame.text[ch]]
        /\ \A ch \in Channels : ch # "traceback" => frame.text[ch] = Kept[ch]
    BY <1>1, <1>2 DEF Orderly, Framed
  <2>2. frame' = [sent |-> FALSE,
                   text |-> [frame.text EXCEPT !["traceback"] = cap["traceback"].kept]]
    BY DEF Worker!Traced
  <2>3. /\ frame'.sent = FALSE /\ frame'.text = [ch \in Channels |-> frame'.text[ch]]
        /\ \A ch \in Channels : frame'.text[ch] = Kept[ch]
    BY <2>1, <2>2 DEF Kept
  <2>4. Kept' = Kept
    BY <1>1 DEF Untouched, Kept
  <2> QED
    BY <1>1, <2>3, <2>4 DEF Framed
<1> QED
  BY <1>1, <1>2, EndKeeps DEF Phases

\* The frame is sent, or the worker ends.
LEMMA SendKeeps == StreamsInv /\ Worker!Send => StreamsInv'
<1> SUFFICES ASSUME StreamsInv, Worker!Send PROVE StreamsInv'
  OBVIOUS
<1>1. phase = "sending" /\ phase' \in {"sent", "dead"} /\ Untouched
  BY DEF Worker!Send, Untouched, Worker!writeVars
<1>2. ASSUME ~shared, Orderly
      PROVE  Framed'
  <2>1. ~frame.sent /\ frame.text = [ch \in Channels |-> frame.text[ch]]
            /\ \A ch \in Channels : frame.text[ch] = Kept[ch]
    BY <1>1, <1>2 DEF Orderly, Framed
  <2>2. Kept' = Kept
    BY <1>1 DEF Untouched, Kept
  <2>3. CASE phase' = "dead" /\ frame' = frame
    BY <2>1, <2>3 DEF Framed
  <2>4. CASE /\ phase' = "sent"
             /\ frame' = [sent |-> TRUE, text |-> frame.text, error |-> error,
                          latched |-> latched, submission |-> Worker!Sent,
                          truncations |-> [ch \in {d \in Channels : Worker!Truncated(d)} |-> cap[ch]]]
    <3>1. frame'.text = frame.text /\ DOMAIN frame'.truncations = {d \in Channels : Worker!Truncated(d)}
      BY <2>4
    <3>2. \A d \in Channels : Worker!Truncated(d)' <=> Worker!Truncated(d)
      BY <1>1 DEF Untouched, Worker!Truncated
    <3>3. frame.text = Kept
      BY <2>1 DEF Kept
    <3>4. (DOMAIN frame.truncations = {ch \in Channels : Worker!Truncated(ch)})'
      BY <3>1, <3>2
    <3>5. frame'.text = Kept'
      BY <2>2, <3>1, <3>3
    <3> QED
      BY <2>4, <3>4, <3>5 DEF Framed
  <2> QED
    BY <2>3, <2>4 DEF Worker!Send, Channels
<1> QED
  BY <1>1, <1>2, EndKeeps DEF Phases

\* The host decodes the frame.
LEMMA DecodeKeeps == StreamsInv /\ Worker!Decode => StreamsInv'
<1> SUFFICES ASSUME StreamsInv, Worker!Decode PROVE StreamsInv'
  OBVIOUS
<1>1. phase = "sent" /\ phase' \in {"idle", "dead"} /\ Untouched /\ frame' = frame
  BY DEF Worker!Decode, Untouched, Worker!writeVars
<1>2. ASSUME ~shared, Orderly
      PROVE  Framed'
  <2>1. \A d \in Channels : Worker!Truncated(d)' <=> Worker!Truncated(d)
    BY <1>1 DEF Untouched, Worker!Truncated
  <2>2. Kept' = Kept
    BY <1>1 DEF Untouched, Kept
  <2> QED
    BY <1>1, <1>2, <2>1, <2>2 DEF Orderly, Framed
<1> QED
  BY <1>1, <1>2, EndKeeps DEF Phases

-----------------------------------------------------------------------------
(* CellWorker: the submission and the host's verdict                         *)

\* Every step of the worker keeps the invariant of the streams.
LEMMA StreamsStep ==
    ASSUME StreamsInv, latched \in BOOLEAN, [Worker!Next]_insideVars
    PROVE  StreamsInv'
<1>1. CASE UNCHANGED insideVars
  <2>1. ASSUME ~shared
        PROVE  Framed'
    <3>1. Framed
      BY <2>1 DEF StreamsInv, Orderly
    <3>2. Kept' = Kept /\ \A d \in Channels : Worker!Truncated(d)' <=> Worker!Truncated(d)
      BY <1>1 DEF insideVars, Kept, Worker!Truncated
    <3> QED
      BY <1>1, <3>1, <3>2 DEF insideVars, Framed
  <2>2. Untouched /\ phase' = phase /\ phase \in Phases
    BY <1>1 DEF insideVars, Untouched, StreamsInv, Shaped
  <2> QED
    BY <2>1, <2>2, UntouchedKeeps
<1>2. CASE Worker!Prelude \/ Worker!PreludeFails
  BY <1>2, PreludeKeeps
<1>3. CASE Worker!Execute \/ Worker!Rebind
  BY <1>3, ExecuteKeeps, RebindKeeps
<1>4. CASE \E k \in {"text", "response"}, t \in Worker!Submissions : Worker!Final(k, t)
  BY <1>4, FinalKeeps
<1>5. CASE \E r \in {"failure", "invalid_request", "no_text"} : Worker!HostCall(r)
  BY <1>5, HostCallKeeps
<1>6. CASE \E e \in {Worker!NoError, "value_error", "system_exit",
                      "unencodable"} : Worker!CellEnds(e)
  BY <1>6, CellEndsKeeps
<1>7. CASE \E w \in Worker!Writers, ch \in Worker!Channels, n \in Lengths : Worker!Begin(w, ch, n)
  BY <1>7, BeginKeeps DEF Channels
<1>8. CASE \E w \in Worker!Writers : Worker!Measure(w) \/ Worker!Take(w) \/ Worker!Weigh(w)
          \/ Worker!Count(w)
  BY <1>8, MeasureKeeps, TakeKeeps, WeighKeeps, CountKeeps
<1>9. CASE Worker!Read \/ Worker!Traced \/ Worker!Send \/ Worker!Decode
  BY <1>9, ReadKeeps, TracedKeeps, SendKeeps, DecodeKeeps
<1> QED
  BY <1>1, <1>2, <1>3, <1>4, <1>5, <1>6, <1>7, <1>8, <1>9 DEF Worker!Next

\* What a cell submitted, and what the host made of it.
Busy == {"running", "over", "tracing", "sending", "sent"}
AnswerInv ==
    /\ latched \in BOOLEAN
    /\ submission # Worker!NoSubmission => submission.by = workerCell
    /\ phase \in Busy => outcome = "none"
    /\ phase = "sent" => /\ frame.error = error /\ frame.latched = latched
                         /\ frame.submission = Worker!Sent
    /\ Worker!SubmissionCounts

\* Nothing is submitted at the start.
LEMMA AnswerBegins == Worker!Init => AnswerInv
BY DEF Worker!Init, AnswerInv, Worker!NoSubmission, Worker!SubmissionCounts, Busy

\* A step of a cell that is not yet decoded.
LEMMA BusyKeeps ==
    ASSUME AnswerInv, phase \in Busy \ {"sent"}, phase' \in Busy \ {"sent"}, outcome' = outcome,
           latched' \in BOOLEAN,
           submission' # Worker!NoSubmission => submission'.by = workerCell'
    PROVE  AnswerInv'
<1>1. outcome' = "none"
  BY DEF AnswerInv
<1> QED
  BY <1>1 DEF AnswerInv, Worker!SubmissionCounts, Worker!NoSubmission, Busy

\* A step that changes none of it.
LEMMA AnswerStays ==
    ASSUME AnswerInv, UNCHANGED <<latched, submission, error, workerCell, frame, outcome, phase>>
    PROVE  AnswerInv'
BY DEF AnswerInv, Worker!SubmissionCounts, Worker!NoSubmission, Worker!Sent

\* The frame has what the cell latched, raised and submitted.
LEMMA SendAnswers == ASSUME AnswerInv, Worker!Send PROVE AnswerInv'
<1>1. /\ phase = "sending" /\ UNCHANGED <<latched, submission, error, workerCell>>
  BY DEF Worker!Send, Worker!cellVars
<1>2. outcome = "none"
  BY <1>1 DEF AnswerInv, Busy
<1>3. CASE phase' = "dead" /\ outcome' = "exited"
  BY <1>1, <1>3 DEF AnswerInv, Worker!SubmissionCounts, Worker!NoSubmission, Busy
<1>4. CASE /\ phase' = "sent" /\ outcome' = outcome
           /\ frame' = [sent |-> TRUE, text |-> frame.text, error |-> error,
                        latched |-> latched, submission |-> Worker!Sent,
                        truncations |-> [ch \in {d \in Worker!Channels : Worker!Truncated(d)} |-> cap[ch]]]
  <2>1. frame'.error = error /\ frame'.latched = latched /\ frame'.submission = Worker!Sent
    BY <1>4
  <2>2. Worker!Sent' = Worker!Sent
    BY <1>1 DEF Worker!Sent, Worker!NoSubmission
  <2>3. phase' = "sent" => /\ frame'.error = error' /\ frame'.latched = latched'
                           /\ frame'.submission = Worker!Sent'
    BY <1>1, <2>1, <2>2
  <2> QED
    BY <1>1, <1>2, <1>4, <2>3 DEF AnswerInv, Worker!SubmissionCounts, Worker!NoSubmission
<1> QED
  BY <1>3, <1>4 DEF Worker!Send

\* The host takes the frame's word.
LEMMA DecodeAnswers == ASSUME AnswerInv, Worker!Decode PROVE AnswerInv'
<1>1. /\ phase = "sent" /\ phase' \in {"idle", "dead"}
      /\ UNCHANGED <<latched, submission, error, workerCell, frame>>
  BY DEF Worker!Decode, Worker!cellVars, Worker!writeVars
<1>2. frame.error = error /\ frame.latched = latched /\ frame.submission = Worker!Sent
  BY <1>1 DEF AnswerInv
<1>3. outcome' = CASE error = "system_exit" -> "protocol"
                   [] error # "system_exit" /\ latched -> "host_failure"
                   [] error \notin {"system_exit", "none"} /\ ~latched -> "fault"
                   [] error = "none" /\ ~latched ->
                        IF Worker!Sent # Worker!NoSubmission THEN "submitted" ELSE "observed"
  BY <1>2 DEF Worker!Decode, Worker!NoError
<1>4. CASE error = "system_exit"
  <2>1. outcome' = "protocol"
    BY <1>3, <1>4
  <2> QED
    BY <1>1, <2>1 DEF AnswerInv, Worker!SubmissionCounts, Worker!NoSubmission, Busy
<1>5. CASE error # "system_exit" /\ latched = TRUE
  <2>1. outcome' = "host_failure"
    BY <1>3, <1>5
  <2> QED
    BY <1>1, <2>1 DEF AnswerInv, Worker!SubmissionCounts, Worker!NoSubmission, Busy
<1>6. CASE error \notin {"system_exit", "none"} /\ latched = FALSE
  <2>1. outcome' = "fault"
    BY <1>3, <1>6
  <2> QED
    BY <1>1, <1>6, <2>1 DEF AnswerInv, Worker!SubmissionCounts, Worker!NoSubmission, Busy
<1>7. CASE error = "none" /\ latched = FALSE
  <2>1. outcome' = IF Worker!Sent # Worker!NoSubmission THEN "submitted" ELSE "observed"
    BY <1>3, <1>7
  <2>2. outcome' = "submitted" => frame'.submission.by = workerCell'
    <3>1. Worker!Sent # Worker!NoSubmission => Worker!Sent = submission
      BY DEF Worker!Sent
    <3>2. frame'.submission = Worker!Sent
      BY <1>1, <1>2
    <3>3. submission # Worker!NoSubmission => submission.by = workerCell'
      BY <1>1 DEF AnswerInv
    <3> QED
      BY <2>1, <3>1, <3>2, <3>3
  <2>3. Worker!SubmissionCounts'
    BY <1>1, <1>7, <2>2 DEF Worker!SubmissionCounts, Worker!NoError
  <2> QED
    BY <1>1, <2>3 DEF AnswerInv, Worker!NoSubmission, Busy
<1>8. latched = TRUE \/ latched = FALSE
  BY DEF AnswerInv
<1> QED
  BY <1>4, <1>5, <1>6, <1>7, <1>8

\* Every step of the worker keeps the invariant of the answer.
LEMMA AnswerStep ==
    ASSUME AnswerInv, [Worker!Next]_insideVars
    PROVE  AnswerInv'
<1>1. CASE UNCHANGED insideVars
  BY <1>1, AnswerStays DEF insideVars
<1>2. CASE Worker!Prelude \/ Worker!PreludeFails
  BY <1>2
     DEF Worker!Prelude, Worker!PreludeFails, Worker!cellVars, AnswerInv,
         Worker!SubmissionCounts,
              Worker!NoSubmission, Busy
<1>3. CASE Worker!Execute
  BY <1>3
     DEF Worker!Execute, AnswerInv, Worker!SubmissionCounts, Worker!NoSubmission,
         Worker!NoFrame, Busy
<1>4. CASE Worker!Rebind
  BY <1>4, AnswerStays DEF Worker!Rebind, Worker!cellVars
<1>5. ASSUME NEW k, NEW t, Worker!Final(k, t)
      PROVE  AnswerInv'
  <2>1. phase = "running" /\ phase' \in {"running", "over"} /\ UNCHANGED <<workerCell, latched,
            outcome>>
    BY <1>5 DEF Worker!Final, Worker!InCell, Worker!Raises
  <2>2. submission' = submission \/ submission' = [by |-> workerCell, text |-> t]
    BY <1>5 DEF Worker!Final
  <2>3. submission' # Worker!NoSubmission => submission'.by = workerCell'
    BY <2>1, <2>2 DEF AnswerInv, Worker!NoSubmission
  <2>4. latched' \in BOOLEAN
    BY <2>1 DEF AnswerInv
  <2> QED
    BY <2>1, <2>3, <2>4, BusyKeeps DEF Busy
<1>6. ASSUME NEW r \in {"failure", "invalid_request", "no_text"}, Worker!HostCall(r)
      PROVE  AnswerInv'
  <2>1. phase = "running" /\ UNCHANGED <<workerCell, submission, outcome>>
    BY <1>6 DEF Worker!HostCall, Worker!InCell
  <2>2. latched' \in BOOLEAN /\ phase' \in {"running", "over"}
    BY <1>6, <2>1, HostCallMoves DEF AnswerInv
  <2>3. submission' # Worker!NoSubmission => submission'.by = workerCell'
    BY <2>1 DEF AnswerInv
  <2> QED
    BY <2>1, <2>2, <2>3, BusyKeeps DEF Busy
<1>7. ASSUME NEW e, Worker!CellEnds(e)
      PROVE  AnswerInv'
  <2>1. phase = "running" /\ phase' = "over" /\ UNCHANGED <<workerCell, submission, latched,
            outcome>>
    BY <1>7 DEF Worker!CellEnds, Worker!InCell
  <2>2. latched' \in BOOLEAN /\ (submission' # Worker!NoSubmission => submission'.by = workerCell')
    BY <2>1 DEF AnswerInv
  <2> QED
    BY <2>1, <2>2, BusyKeeps DEF Busy
<1>8. ASSUME NEW w, NEW ch, NEW n, Worker!Begin(w, ch, n)
      PROVE  AnswerInv'
  BY <1>8, AnswerStays DEF Worker!Begin, Worker!cellVars
<1>9. ASSUME NEW w, Worker!Measure(w) \/ Worker!Take(w) \/ Worker!Weigh(w) \/ Worker!Count(w)
      PROVE  AnswerInv'
  BY <1>9, AnswerStays
     DEF Worker!Measure, Worker!Take, Worker!Weigh, Worker!Count, Worker!cellVars
<1>10. CASE Worker!Read \/ Worker!Traced
  <2>1. /\ phase \in {"over", "tracing"} /\ phase' \in {"tracing", "sending"}
        /\ UNCHANGED <<workerCell, submission, latched, outcome>>
    BY <1>10 DEF Worker!Read, Worker!Traced, Worker!cellVars
  <2>2. latched' \in BOOLEAN /\ (submission' # Worker!NoSubmission => submission'.by = workerCell')
    BY <2>1 DEF AnswerInv
  <2> QED
    BY <2>1, <2>2, BusyKeeps DEF Busy
<1>11. CASE Worker!Send \/ Worker!Decode
  BY <1>11, SendAnswers, DecodeAnswers
<1> QED
  BY <1>1, <1>2, <1>3, <1>4, <1>5, <1>6, <1>7, <1>8, <1>9, <1>10, <1>11 DEF Worker!Next

\* What the frame tells follows from what the streams keep.
LEMMA StreamsTell ==
    ASSUME StreamsInv
    PROVE  Worker!TruncationsExact
<1> SUFFICES ASSUME frame.sent, ~shared
             PROVE  /\ \A ch \in Channels : frame.text[ch] = cap[ch].retained
                    /\ DOMAIN frame.truncations = {ch \in Channels : frame.text[ch] < cap[ch].total}
                    /\ Worker!FoldFunction(+, 0, frame.text) <= MaxChars
                    /\ (\E ch \in DOMAIN frame.truncations : TRUE) =>
                         Worker!FoldFunction(+, 0, frame.text) = MaxChars
  BY DEF Worker!TruncationsExact, Worker!Told, Channels
<1>1. Orderly
  BY DEF StreamsInv
<1>2. /\ phase \notin {"running", "tracing"} /\ frame.text = Kept
      /\ DOMAIN frame.truncations = {ch \in Channels : Worker!Truncated(ch)}
  BY <1>1 DEF Orderly, Framed
<1>3. Unwritten
  BY <1>1, <1>2 DEF Orderly, Writes
<1>4. ASSUME NEW ch \in Channels
      PROVE  /\ frame.text[ch] = cap[ch].retained
             /\ Worker!Truncated(ch) <=> frame.text[ch] < cap[ch].total
             /\ frame.text[ch] < cap[ch].total => budget = MaxChars
  <2>1. Counted(ch) /\ frame.text[ch] = cap[ch].kept
    BY <1>2, <1>3 DEF Unwritten, Kept
  <2>2. cap[ch].kept \in Nat /\ cap[ch].retained \in Nat /\ cap[ch].total \in Nat
    BY <1>1, CapsAre
  <2> QED
    BY <2>1, <2>2 DEF Counted, Worker!Truncated
<1>5. Worker!FoldFunction(+, 0, frame.text) = budget
  BY <1>1, <1>2, FoldIsSum DEF Orderly
<1>6. budget <= MaxChars
  BY <1>1, ChannelsAre DEF Orderly
<1>7. DOMAIN frame.truncations = {ch \in Channels : frame.text[ch] < cap[ch].total}
  BY <1>2, <1>4
<1>8. (\E ch \in DOMAIN frame.truncations : TRUE) => budget = MaxChars
  BY <1>4, <1>7
<1> QED
  BY <1>4, <1>5, <1>6, <1>7, <1>8

\* executor.py:286-338, 491-603, 650-677, 794-900 and 1092-1113.  The frame a worker
\* sends tells what its cell did: an answer counts only if this cell gave it and
\* neither it nor a call to the host failed; and of streams no other thread
\* wrote to, the texts are what was counted and a channel is called truncated
\* exactly when something of it is missing, which happens only with the budget
\* spent.
THEOREM FramesAreTrue == ScenarioSpec => []FrameTrue
<1>1. ScenarioInit => StreamsInv /\ AnswerInv
  BY StreamsBegin, AnswerBegins DEF ScenarioInit
<1>2. StreamsInv /\ AnswerInv /\ [ScenarioNext]_allVars => (StreamsInv /\ AnswerInv)'
  <2> SUFFICES ASSUME StreamsInv, AnswerInv,
      [ScenarioNext]_allVars PROVE (StreamsInv /\ AnswerInv)'
    OBVIOUS
  <2>1. [Worker!Next]_insideVars
    BY DEF ScenarioNext, ProtocolStep, CellStep, CellsOver, allVars
  <2>2. latched \in BOOLEAN
    BY DEF AnswerInv
  <2> QED
    BY <2>1, <2>2, StreamsStep, AnswerStep
<1>3. StreamsInv /\ AnswerInv => FrameTrue
  BY StreamsTell DEF AnswerInv, FrameTrue, SubmissionCounts, TruncationsExact
<1> QED
  BY <1>1, <1>2, <1>3, PTL DEF ScenarioSpec
=============================================================================
