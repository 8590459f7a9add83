# A TLA+ model of rlm

`rlm` runs a language model as the controller of a Python worker: at every turn
the controller answers with one IPython cell, the cell runs in a worker process
and may call models or start recursive branches through its host, and what it
printed goes back to the controller as a bounded observation, until a cell
submits a final response. A run has budgets (model calls, subcalls, tokens,
parallelism, depth, turns, time), and leaves a causal trace that is validated
when it is loaded.

This directory holds TLA+ modules of the parts where concurrency, failure and
ordering meet, the TLC configurations that check them on small instances, and
proofs checked by TLAPS. It also covers the programs around the library that
keep state of their own: the paired benchmark, the policy sweep, the training
loops and teaching fits, the job queue and the search for a routine library. Paths without a
directory are relative to the repository's `src/rlm/`; `benchmarks/` and
`experiments/` are the repository's. `PROJECT.json` maps every definition to the
lines it stands for (there the repository is `src/`).

Contents: 1 the system, 2 the modules, 3 the runs, 4 fairness, 5 the proofs,
6 disagreements found, 7 what is not modelled, 8 the plan.

## 1. The system

### Components

| Component | State it keeps | Operations | What makes it correct |
|---|---|---|---|
| Ledger (`ledger.py`) | counters of calls, subcalls, tokens, unreported responses; a semaphore of model slots; active and peak calls; start time | reserve a model call or a batch of subcalls, enter and leave a slot, record a response, remaining time, snapshot | limits hold under any interleaving; permits are conserved on every path; late answers and answers over the token budget are not successes |
| Engine (`engine.py`) | per run: recorder, ledger, final event; per branch: turn, conversation, causal event | `run`, `_run_branch`, `_call_model`, host calls from cells, batches on a thread pool, recursion, repair, `close` | the failure that surfaces is the first in request order; every failure names its cause; a run ends, and ends quietly; recursion is paid for |
| Trace recorder (`trace.py`) | the open file, next id, known ids, closed flag | `event`, `close` with a manifest | ids and causal parents are ordered; one final event; manifest agrees |
| Trace reader (`trace_reader.py`) | none | `load_trace` | accepts what the runtime writes and nothing else |
| Executor (`executor.py`) | worker process, pipe, started and closed flags; in the worker: next request id, host-failure latch, final | `start`, `execute`, `close`; `_worker_main`, `host_call` | results and replies belong to the current cell; a failed host call is not swallowed; nothing survives `close` |
| HTTP backend (`backend.py`) | per call: helper thread, task, cancel flag | `complete`, `_run_in_helper_thread`, cancellation | the helper is joined before the caller goes on; an interrupt is never lost or replaced |
| Observation (`observation.py`) | none | `controller_observation` | fits the budget; omitted characters are counted exactly |
| Conversation (`protocol.py`) | the items sent to the controller | bootstrap, append an observation or a repair, parse the cell | the controller sees the latest state of its own branch |
| Recovery (`recovery.py`) | none | `decide` | repair or abort, as configured |
| Error records (`errors.py`) | causal event of an exception | to and from a record | the cause survives the process boundary |
| Responses (`response.py`) | none | validate an envelope, extract usage and text | a malformed or failed response is an upstream or protocol failure |
| HTTP server (`server.py`) | one RLM | routes over `RLM.run`, the lifespan | what one server answers the next accepts; a failure keeps its status; the RLM is closed once requests are over |
| Command line (`cli.py`, `run_artifacts.py`) | none | `serve`, one run per process, comparison of artifacts | the endpoint is closed whenever the start fails; agreeing artifacts are true |
| Declarations (`types.py`, `config.py`, `specs.py`, `prompts.py`, `abi.py`, `attestation.py`) | immutable records, made of objects the caller may change | snapshots, harness contract, identities | a run uses its snapshot throughout; equal identities mean equal runs |
| Strict JSON (`json.py`) | the containers being visited | validate, encode, decode | refuses exactly what cannot be written or holds itself; drops nothing it reads |
| Paired benchmark (`benchmarks/oolong.py`) | records, call and token counts, checkpoint file | calls, judgement, atomic checkpoint, resumption, summary | a stored record is never lost nor paid for again; every checkpoint on disk can be resumed; only attested answers score |
| Policy sweep (`experiments/.../run_sweep.py`) | `rows.jsonl`, threads of one process | jobs under three policies, appends, rerun | as the benchmark, without a checkpoint: a cut line loses its own row only |
| Training loop (`experiments/.../rl_train.py`) | weights, adapters on disk and in the server, `log.jsonl` | rollouts, update, save, serve, resume | rollouts come from the weights being trained; the log tells of one training |
| Continued fit (`experiments/teaching_second_fit_20261015/train.py`, `dose_common.py`) | plan, owner, terminal and step files, committed checkpoints, the campaign's lock; weights in memory | prepare, restore, update, receipt, checkpoint, resumption | the checkpoints are those of one training, whoever raced for the lock; a complete fit has every receipt |
| Fit of one update (`experiments/recovery_teaching_20261014/train.py`) | plan, owner, load, update, summary and terminal files, one checkpoint | one step of Adam, checks before and after, summary; the read-out's `endpoint` | no implicit retry; what is evaluated was checked |
| Proposer's training (`experiments/.../proposer_rl.py`) | weights, adapters on disk and in the server, `steps.jsonl` | sample, score, update, save, swap, tidy | samples come from the weights being trained; the last two adapters can be loaded again |
| Job queue (`experiments/ops/queue.py`, `launch.py`) | `pending/`, `running/`, `done/`, PID files | add, dispatch, launch, reap, idle alarm | lanes are not overcommitted; no job is lost when the dispatcher dies |
| Library search (`experiments/.../bootstrap_library.py`, its worker) | `candidates.jsonl`, the worker's output, the two artifacts | rounds, verification, choice, acceptance, restart | a record is of its own module; the choice is the best of the file |
| Event-log tasks (`experiments/.../taskgen.py`, `skills/`) | none | draw and repair a task, extract, aggregate, score | a question has one answer; three programs that compute it agree |

### How they interact

- `RLM.run` makes one ledger and one recorder per run and shares them with the
  root branch, all child branches and all workers of the pool. Everything that
  changes them does so under one of two locks, the ledger's and the
  recorder's, or through the semaphore. A model call takes each of these
  several times; between any two of them other calls may run.
- A branch owns an executor; the executor owns a worker process and one end of
  a pipe. While a cell runs the host waits on the pipe and serves its requests,
  synchronously: a model call, a batch, or a child branch with an executor of
  its own. So the open branches of a run form a stack, except under
  `rlm_complete_batch`, whose children run on a pool of the asking branch's own
  and may ask for batches themselves: a tree.
- An exception inside a host call is traced, sent to the cell as a record,
  latched by the worker so that the cell cannot swallow it, returned with the
  cell's result, and raised again by the host in the branch, through as many
  executors as the branch is deep. It takes the id of its causal event along.
- The backend is called inside a slot with the remaining time. When the
  caller's thread already runs an event loop, the request goes to a helper
  thread with a loop of its own.
- `KeyboardInterrupt` reaches only the main thread, at any point.
- A server can be the upstream of another: its answer passes the checks of the
  next one's backend, engine and server again.
- The experiments call the engine, or a server over it, from processes that are
  killed, resumed and queued; what survives between two processes are files.

### What is hard to test here

`PROJECT.json` lists the hazards with their lines. In short: interleavings of
parallel calls at the ledger and at the trace (`ledger.py:96-127`,
`engine.py:823`); time read before a wait and used after it (`ledger.py:106`);
answers after the deadline (`engine.py:805`); batches admitted as a whole and
executed in pieces (`engine.py:690`), failing in any order (`engine.py:861`) or
interrupted (`engine.py:866`); failures crossing several executors
(`executor.py:493`); late frames of a cell that timed out (`executor.py:1010`);
a close of many stages that may each fail (`executor.py:1150`); interrupts
against the life of a helper thread (`backend.py:241-322`); a binary search over
a length that is not monotone (`observation.py:135`); writes, flushes and fsyncs
of the trace that fail one by one, and an interrupt after its last event
(`trace.py:433`, `engine.py:166`); pools inside workers of pools
(`engine.py:735, 857`); kills between the steps by which a benchmark, a sweep, a
training loop, a queue or a search makes its progress durable; files looked at
before the lock is taken that they are to be read under
(`teaching_second_fit_20261015/train.py:156`).

## 2. The modules

```
        CallGate
           ^ refines
Ledger <- RunLedger <----- refines ----- ModelCalls -> TraceLog
   ^                                         |            ^
   +-----------------------------------------+            |
   +------------------------------------ BranchLoop ------+
                                             | refines
                                             v
                                         RunVerdict

engine     ChildBranches  FailureRecords  Shutdown  RunProvenance  TracePayloads
boundary   Executor  CellWorker  HttpBridge  ResponseStack  Observation  StrictJSON
files      TraceDurability
around it  JobQueue  LibraryBootstrap  EventLog
           RLTraining  ProposerRL  SecondFit  OneUpdate
           PairedBenchmark -> refines -> DurableWork <- refines <- Sweep

proofs     RunLedgerProofs  ModelCallsProofs  BranchLoopProofs  ExecutorProofs
           HttpBridgeProofs  ObservationProofs  TraceDurabilityProofs
           ExperimentsProofs
```

`EXTENDS` composes state: `ModelCalls` and `BranchLoop` both extend `Ledger` and
`TraceLog`, so that a step of the engine changes the ledger and the trace by the
very operators that model their methods. Modules that look at the same code
from two sides (`BranchLoop` and `ChildBranches`, `Executor` and `CellWorker`)
say in their headers which of them has which detail.

### The core of a run

| Module | Models | State | Actions |
|---|---|---|---|
| `Ledger` | `ledger.py` | the private counters, the semaphore's value, the clock | operators only: one per critical section, its guard the condition under which it does not raise |
| `RunLedger` | callers of the ledger inside `_call_model` | program counter, acquire timeout, outcome and time of the answer, per thread | a step per lock, wait and reading of the clock: `BeginCall`, `CheckSlot`, `ReadRemaining`, `BeginWait`, `EnterOrExpire`, `StartBackend`, `ExitSlot`, `ReleaseSlot`, `RecheckDeadline`, `RecordUsage`, ... |
| `CallGate` | what the ledger promises (`ledger.py:16-30, 97-104`) | calls started, admitted, inside | `Start`, `Enter`, `Leave`, `Finish` |
| `TraceLog` | `trace.py`, and the reader's checks of order | lines, next id, known ids, closed, manifest | `Emit`, `Close`; `IdsOrdered`, `OneStartOneEnd`, `CallsCoherent`, `CallsAdjacent`, `ManifestAgrees` are the reader's |
| `ModelCalls` | `RLM.run`, `_call_model`, host calls, `_parallel_map` | phase of the engine's thread, current operation, place, error and reply per call | `AskController`, `AskSubcall`, `AskBatch`, `WorkerTakes`, one action per step of `_call_model`, `InterruptCall`, `InterruptBatch`, `OperationEnds`, `CompleteRun`, `FailedRun`, `CloseRun` |
| `BranchLoop` | `run`, `_run_branch`, host calls as a branch sees them, `protocol.py`, `recovery.py`, the latch | the stack of open branches with place, turn, causal event, latch, conversation; the exception under way | `ControllerTurn`, `Parse`, `StartCell`, `AskModel`, `RlmComplete`, `CellEnds`, `CellDies`, `HostFailure`, `CellFaulty`, `BranchCompletes`, `Observe`, `Recover`, `Repair`, `Unwind`, ... |
| `RunVerdict` | what a run promises about failure (repository `README.md:219-224`, `executor.py:520-522`) | verdict, requests made | `Request`, `Doom`, `Complete`, `Fail` |
| `ChildBranches` | `rlm_complete_batch`: `_handle_action`, `_parallel_map`, `_run_branch` over a tree of branches, action deadlines | per branch its place, exception, and the deadline of its cell; the interpreters alive; subcalls used | `Opens`, `OpenFails`, `CellAsks`, `Taken`, `Calls`, `CallReturns`, `CallFails`, `CallTooLate`, `BatchReturns`, `BatchBreaks`, `CellEnds`, `CellTimesOut`, `Leaves`, `Interrupt`, `Tick` |
| `FailureRecords` | `errors.py` and the places that catch, record, send and raise a failure again | where the failure is, in which form (exception or frame), at which level; what trace and client were told | `CallFails`, `HandlerSends`, `WorkerRaises`, `HostFailure`, `BranchEnds`, `RunFails`, `Answer`, ... |
| `Shutdown` | `RLM.close`, `BackendCloseError`, the lifespan, `_serve` | owner, state of every backend, errors collected, requests under way | `StartClose`, `CloseCalls`, `CloseSkips`, `CloseInterrupted`, `CloseEnds`, `OnShutdown`, `LifespanEnds`, `BuildInterrupted`, ... |
| `RunProvenance` | `config.py`, `specs.py`, `prompts.py`, `abi.py`, `attestation.py`, `run_artifacts.py`, the manifest's identity | the caller's configuration, installed environment, snapshots, what controllers got, trace, attestations | `Mutate`, `Start`, `StartBranch`, `Turn`, `Finish`, `Attest`, `Answer`, `Upgrade`, `Rewrite` |
| `TracePayloads` | one line of the trace: the recorder's check of names, the reader's of values, the parser of the one cell, the decisions of a turn | the call, reply, frame and fault at hand, and the line written | `Submit`, `AskController`, `AskInCell`, `CallReturns`, `Parse`, `CellEnds`, `Decide`, `Repair`, `Final`, `Complete`, `Fail`, ... |

### Its boundaries

| Module | Models | State | Actions |
|---|---|---|---|
| `Executor` | `IPythonExecutor`, the worker's loop, `host_call` | host and worker, both directions of the pipe, the latch, leftover processes, the stages of `close` | `Start`, `Execute`, `Request`, `Reply`, `Result`, `ExecutionFails`, one action per stage of `close`; `Boot`, `RunCell`, `HostCall`, `HostCallReturns`, `CellEnds`, `Spawn`, `Die` |
| `CellWorker` | the inside of `_worker_main`: prelude, namespace, submission helpers, streams and their shared budget, the frame and its decoding | owner of every name, submission, latch, budget, what every stream kept, where every writer is | `Prelude`, `Execute`, `Final`, `HostCall`, `Raises`, `Begin`, `Measure`, `Take`, `Weigh`, `Count`, `CellEnds`, `Read`, `Send`, `Decode`; `Rebind` is the cell's |
| `HttpBridge` | `_run_in_helper_thread`, `_HelperTaskCancellation` | caller, helper, task, flags, queued cancellations | `Start` ... `Reap`, `InterruptJoin`, `InterruptStart`, `InterruptHandler`, `Bind`, `TaskStarts`, `CancelDelivered`, `HelperEnds`, ... |
| `ResponseStack` | a response on its way through `backend.py`, `response.py`, `engine.py`, `server.py` of servers stacked on one another | level, the object on the wire, what the controller does with it | `Receive`, `Expire`, `Check`, `Relay`, `Say`, `Repair`, `Direct`, `Ok`, `PassOn` |
| `Observation` | `controller_observation` | candidate at hand, search bounds, retained and omitted characters | `Structure`, `Empty`, `Whole`, `BeginSearch`, `Probe`, `EndSearch`, `Finish` |
| `StrictJSON` | `json.py` over graphs of containers | the heap, the verdict, the document, what was read of it | `Check`, `Dump`, `Load`, `Repeated` (a peer repeats a key) |
| `TraceDurability` | how `run` and `run_direct` end over real files: buffer, page cache, disk, manifest, directory | buffer, file, stable part of both, next id, known ids, what was raised | `Write`, `Flush`, `FlushPartly`, `FlushFails`, `Count`, `CloseFlush`, `CloseFsync`, `Replace`, `SyncDirectory`, `CloseFails`, `Interrupt`, `Handler`, `Return`, `Kill`, `PowerLoss` |

### The programs around it

| Module | Models | State | Actions |
|---|---|---|---|
| `DurableWork` | what a resumable experiment promises | units stored, being paid for | `Pay`, `Store` |
| `PairedBenchmark` | `benchmarks/oolong.py` | records in memory; the temporary file, the checkpoint and their stable parts | `Start`, `Call`, `CallEscapes`, `Write`, `Sync`, `Replace`, `SyncDirectory`, `CheckpointFails`, `Kill`, `PowerLoss`, `Exit` |
| `Sweep` | `run_sweep.py` | a job per thread, its row; the lines of `rows.jsonl`, whole and cut | `Start`, `Begin`, `Answer`, `Judge`, `Fail`, `AppendRow`, `AppendFails`, `Drain`, `Interrupt`, `ResultRaises`, `Summarize`, `Kill` |
| `RLTraining` | `rl_train.py` | the weights as the history that made them; adapters saved, adapters served, rollouts, the log | `Start`, `Build`, `Serve`, `First`, `Rollout`, `Update`, `Save`, `LoadStep`, `Unload`, `LogStep`, `Crash` |
| `SecondFit` | `teaching_second_fit_20261015/train.py`, `dose_common.py` | per process its place, cumulative state, and the batches its weights were made of; the files of the output directory; who holds the lock | `Prepare`, `Restore`, `CheckOwners`, `Refuse`, `Begin`, `Update`, `WriteReceipt`, `SaveCheckpoint`, `Stop`, `Finish`, `Finally`, `Killed` |
| `OneUpdate` | `recovery_teaching_20261014/train.py`, `endpoint` of its `readout.py` | per process its place and steps of Adam; the files of the output directory; who holds the lock | `Prepare`, `Look`, `Refuse`, `Begin`, `Load`, `Update`, `StepRejected`, `Checkpoint`, `After`, `WriteUpdate`, `Stop`, `Summarise`, `WriteTerminal`, `Killed` |
| `ProposerRL` | `proposer_rl.py` | the weights as the history that made them; directories, adapters served, log, `FINAL` | `Start`, `Sample`, `Update`, `Save`, `SwapIn`, `Unload`, `LogStep`, `Tidy`, `WriteFinal`, `Crash` |
| `JobQueue` | `queue.py` and `launch.py` as the queue sees it | files of the three directories, PID files, launches with wrapper and experiment, the dispatcher's round | `Add`, `BeginRound`, `ScanJob`, `ReadPending`, `Skip`, `Popen`, `Record`, `Unlink`, `RoundEnds`, `DispatcherDies`; `StartExperiment`, `WritePid`, `WatchEnds`, `ExperimentEnds` |
| `LibraryBootstrap` | `bootstrap_library.py`, `bootstrap_verify_worker.py` | round and slot, the worker and its output, `candidates.jsonl`, best candidate, the two artifacts | `Start`, `Draw`, `Skip`, `WorkerRuns`, `WorkerDumps`, `Timeout`, `Log`, `Judge`, `EndRound`, `Summarise`, `Accept`, `Kill`, `OrphanRuns` |
| `EventLog` | `taskgen.py`, the aggregation of `run_sweep.py`, `skills/` | a log and its question, what was extracted, the answers of two policies | `Make`, `Solve`, `Verify` |

In `SecondFit` and `OneUpdate` several processes run at once on one directory:
both programs look at the files of earlier owners first and take the lock
(`LOCK_NB`) afterwards, so a process that waited in between goes on from what it
saw. What keeps the fit one is that every file is created with `open("x")`: the
receipt of a step that somebody else took stops the second process before its
checkpoint. The library's `p.c.save` and `save_boundary` are not in the
repository; `OneUpdate` takes them to create a file once, as `dose_common.save`
does (`CanCreate`), and `NoImplicitRetry` rests on that.

The theorems of a module `M` are in `MProofs`. Five of the proof modules extend an
MC module or prove about all that one puts side by side: `BranchLoopProofs` also
has `ChildBranches` and `FailureRecords`, `ExecutorProofs` has `CellWorker`,
`HttpBridgeProofs` has `ResponseStack` and `Shutdown`, `TraceDurabilityProofs` has
`RunProvenance` and `TracePayloads`, and `ExperimentsProofs` has `PairedBenchmark`,
`Sweep`, `LibraryBootstrap`, `JobQueue` and the four fits. See section 5.

### The MC modules

An MC module puts the components that meet at one boundary side by side. It
EXTENDS one of them, INSTANCEs the others with their constants and, where names
clash, with variables of its own, and has a variable `scenario` that never
changes: a behaviour follows the component it names, and the others rest in one
fixed initial state. The components of an MC module share no state in the
program either (a pool of branches and the record of one failure, a run's files
and its identity), so the product of their steps would show nothing that the
sum does not, and each is explored completely. A property of an instanced
component is stated for the scenario that follows it. The constants of the
components are constants of the MC module, with named assumptions where a proof
needs one; only the .cfg gives them values.

| Module | Scenarios |
|---|---|
| `MCRunLedger` | `RunLedger` alone, its threads symmetric |
| `MCModelCalls` | `ModelCalls` with interrupts; `RunLedger` behind hanging backends, on the same ledger variables |
| `MCBranchLoop` | `BranchLoop`; `ChildBranches` over a tree of eight; `FailureRecords` for every class of failure |
| `MCExecutor` | `Executor`; `CellWorker` |
| `MCHttpBridge` | `HttpBridge`; `ResponseStack`; `Shutdown` |
| `MCObservation` | `Observation`; `StrictJSON` |
| `MCTraceDurability` | `TraceDurability`; `TracePayloads`; `RunProvenance` with one run, and with two that overlap |
| `MCExperiments` | `PairedBenchmark` under faults, and under every kind of answer; `Sweep`; `RLTraining`; `JobQueue` with a dispatcher that lives, and one that dies; `LibraryBootstrap`; `EventLog`; `SecondFit`; `OneUpdate`; `ProposerRL` |

`ModelCalls` and `HttpBridge` are also checked directly, by the runs
`calls_batch`, `calls_adjacency` and `http_bridge_escape`.

Conventions. An operator whose name ends in `Fault` is a seeded mistake of the
operator after it (a dropped guard, a missing release, an off-by-one); no
specification uses it. `PROJECT.json` pairs each property with one that it
notices; the others belong to properties of a component that no listed run names.
An exception is a value (`"deadline"`, `"upstream"`, ...) in the state of
who carries it; `UNCHANGED` says what a step leaves alone.

What is abstracted. Time is a counter of ticks; the code only compares times.
Input and output tokens are one total; the code compares only their sum. In
`TraceLog` an event keeps its id, type, branch, causal parent, call, and whether
the response would pass as the outcome of its call; `TracePayloads` has what it
says, one line at a time. In `ModelCalls` a response is one of four kinds; its
fields are `ResponseStack`'s. Cells choose freely among what a cell can do. A
text is a number of characters, or the sequence of the parts it was joined from.
A digest is what it is the digest of, the weights of a network are the history
that made them, a comparison is its pair id, a candidate module is its outputs.

## 3. The runs

| Run | Question | Bounds | Properties |
|---|---|---|---|
| `ledger_safety` | Do limits, permits and usage survive every interleaving? | 3 threads, 2 slots, 3 model calls, batches of 2 on 3 subcalls, token budget 2 with usages 0 and 2, deadline 2 of 3 ticks | `TypeOK`, `PermitsConserved`, `CeilingHeld`, `StatsAcceptable`, `NoLateSuccess`, `SuccessWithinBudget`, `GateSpec` |
| `calls_batch` | Are calls, batches and their trace coherent under failures of every kind? | 3 calls on 2 slots, 2 model calls, token budget 1, an interrupt at any moment | `ClosedTraceCoherent`, `FirstFailureSurfaces`, `LedgerSpec` |
| `calls_end` | Does all that was begun come to an end: a run that is interrupted, a call behind a backend that hangs, a call whose backend answers? | 3 calls, 1 slot, an interrupt at any moment; 2 callers, 1 slot, deadline 1 of 2 ticks | `QuietAtEnd`, `AllEnds` |
| `branch_loop` | Branches, repairs, host failures, recursion, batches: is the trace acceptable, the cause kept, the conversation current, the verdict final? Do all branches settle? | depth 2, 2 turns, both recovery modes, 3 model calls, 3 subcalls; a tree of 8 branches, 2 permits, 6 subcalls, cells of 2 of 3 ticks; 19 failures at depths 0 to 2 | `TraceTellsTheCause`, `ConversationCurrent`, `BatchSound`, `FailureRouted`, `VerdictSpec`, `NobodyStuck` |
| `executor` | Do results and replies belong to their cell, does `close` leave nothing, does a frame tell what the cell did? | 2 cells, 2 host calls, 2 failing stages of `close`; 2 cells of 2 writes, a thread left over, a budget of 3 characters for texts of 2 | `NothingStale`, `NothingLeft`, `FrameTrue`, `HostMovesOn` |
| `http_bridge` | Interrupts that the joining loops catch; answers through a stack of servers; leaving an RLM | 3 interrupts; 2 servers of 2 turns, 26 388 answers of up to 2 items; 13 setups of owner and backends, 2 requests | `BridgeSafe`, `AnswersSurvive`, `ShutdownComplete`, `CancelNotLost` |
| `observation` | Does the encoding fit, count and end? What is strict JSON? | 3 candidates of 0, 3, 12 or 30 characters of width 1 or 2, every budget from 30 to 100; 2 containers of up to 2 items | `EncodingExact`, `VerdictExact`, `EncodingEnds` |
| `trace_files` | What do the files of a run tell, whatever failed; can they be read; whose run do they say it was? | 2 ordinary events, 2 failing operations, 2 interrupts, a kill or power loss; 1 turn at depths 0 and 1, replies of up to 5 lines; 4 harnesses, 2 environments, 3 options; 2 overlapping runs | `AcceptedIsWhole`, `OutcomeMatchesTrace`, `PayloadsSound`, `ProvenanceTrue`, `SameIdentitySameRun` |
| `experiments` | Is paid work kept, are records true, is the queue safe, when processes die? | 2 pairs and 2 faults; 2 selections of 3 jobs on 2 threads and 1 fault; 3 training processes of 2 steps; 3 jobs on 2 lanes, or 2 jobs and 2 deaths; 2 rounds of 2 candidates and 2 starts; 3 events by 3 people on 3 days; 3 processes on one continued fit of 4 updates, and on one fit of one update; 2 processes of 4 steps of the proposer | `AlwaysResumable`, `TrainingIsOne`, `QueueSafe`, `RecordsAreTrue`, `TasksExact`, `WorkDurable` |
| `calls_adjacency` | Is every trace acceptable to the reader? | 2 calls, 2 slots | violates `ResponseFailureAdjacent`, see section 6 |
| `http_bridge_escape` | Is the helper joined before an interrupt is raised again? | 1 interrupt | violates `JoinedBeforeReturn`, see section 6 |
| `cell_worker_faults` | Does every fault of a cell leave the executor alive? | as `executor` | violates `FaultsAreRecoverable`, see section 6 |

Some properties conjoin named parts that make one statement together, and say so
where they are defined: `NothingStale` is `ResultCurrent` and `ReplyCurrent`,
`EncodingExact` is `AlwaysFits`, `NothingLost` and `PrefixTight`, `AllEnds` is
`EveryRunCloses`, `WaitersLeave` and `CallsSettle`, and so on. The component
modules state a few more (`RecursionPaid`, `NoLateCall`, `InterpretersBounded`,
`OneSnapshot`, `OneCallPerFault`, `SummaryFair`, `StartedOncePerDeath`, ...)
that hold under the same constants and that no listed run names.

Why these bounds are enough to be interesting.

- Ledger: three callers on two slots make one wait while another is about to
  release; the token budget is crossed by two responses that are each within
  it; a tick of the clock falls between any two steps, so a permit can be
  acquired just before, at and after the deadline. `MaxClock` ends the clock one
  tick past the deadline: nothing in the code tells later times apart, except
  the length of a wait, which `BeginWait` cuts off there. For liveness two
  callers suffice: one holds the slot for ever, the other waits.
- Calls: within one run without parallel children, no call ever waits for a slot:
  a batch has no more workers than slots and the engine's thread waits for it. So
  `ModelCalls` takes its slots at once, and the waits of `model_slot` are checked,
  for any number of callers, in `RunLedger`; parallel children need them.
  Three calls allow a controller call followed by a batch of two, and a
  batch of three on two workers. Two model calls and a token budget of one let
  a member of a batch be refused while others are inside.
- Branches: with depth 2 a failure crosses two executors; with two turns there is
  a repair after an observation and exhaustion after a repair; three subcalls
  let recursion run out. The tree has a batch of three on two workers (one child
  queued), a batch inside a batch and a batch inside that, and six subcalls for
  what would need seven, so that one batch or another is refused.
- Executor: two cells, so that the second may meet what the first was late
  with; two host calls, so that one may fail and another follow; two failing
  stages, so that the fallback of a stage may fail as well. A budget of three
  characters for texts of two is crossed by the second write, in part.
- Bridge: three interrupts, one after another in either loop. Each is at any
  point of the caller, against every point of the helper. Two servers: what
  holds from one to the next holds along a chain, as each level starts anew from
  the wire.
- Observation: lengths around one and two digits, so that taking a text changes
  the digits of a count, removes its entry, or leaves it alone. Budgets reach
  from too small for the bare structure to more than enough. With two containers
  one may be held twice, hold the other both ways round, or hold itself.
- Files: two events with two failures give a failed flush followed by another
  event with the same number, and a failure of the handling of a failure. Two
  interrupts let the second meet the handler of the first.
- Experiments: a fault may hit, and a second may hit what repairs the first. A
  selection with a repeated pair, and a smaller one in another order, meet the
  file of the first. Three processes of a training: die, resume and die again,
  resume. Three processes on one directory: two that race past a check that is
  made before the lock, and a third that resumes what they left. Epochs of a
  full batch and a smaller one, so that the last batch of an epoch differs. Four
  steps of the proposer reach a directory that is kept and two that go. A queue of two lanes makes a job wait for a slot and another for a
  dependency in the other lane.

Deadlock is checked in every run. A module with an end has an action that
repeats its end (`Terminated`, `Over`, `BatchOver`, `StartsOver`, ...).

## 4. Fairness

Only the properties named here need any; all others are checked without.

- `calls_end`, `EveryRunCloses` (`ModelCalls!FairSpec`): the clock ticks, the
  engine's thread and its workers are scheduled, backends answer by their
  timeout, and cells go on by themselves (a cell has a timeout). No fairness for
  interrupts.
- `calls_end`, `WaitersLeave` (`RunLedger!FairSpec`): the clock ticks (up to its
  bound) and every thread whose next step is the runtime's own takes it. Nothing
  is assumed of backends: a hung one is the point. Semaphore acquisition is
  only weakly fair, as `threading.Semaphore` promises no order; a waiter may lose
  every race and then leaves by its timeout.
- `calls_end`, `CallsSettle`: states its own assumption, `HonestBackends`, the
  `ModelBackend` contract (repository `README.md:222-224`): `complete` returns or
  raises by its timeout.
- `branch_loop`, `NobodyStuck`: the engine's thread runs; backends answer and
  cells end by their timeouts. Host calls of a cell and the clock are not fair,
  so a run closes although a cell calls as often as it can: the ledger's limits
  end that. In a batch every branch's thread goes on, but nobody waits for the
  clock: that the branches settle does not rest on a deadline that frees them.
- `http_bridge`, `CancelNotLost`: both threads are scheduled. Not the network,
  not even its timeout.
- `executor`, `HostMovesOn`: the host's thread runs, its timeouts included.
  Nothing is assumed of the worker.
- `observation`, `EncodingEnds`: a function that does not wait.

## 5. The proofs

Eight modules hold proofs, each `EXTENDS` the module it is about, or the MC module
that has it. TLAPS checks every leaf; the values of the constants are not fixed, so
a theorem holds for any number of threads, calls, pairs, events, interrupts,
processes or levels of recursion, any tree of branches and any budget. `Spec` below
is the specification of the module named; `ScenarioSpec` is that of its MC module,
in which a behaviour follows one of the components.

| Module | Theorem | Statement |
|---|---|---|
| `RunLedgerProofs` | `TypeCorrect` | `Spec => []TypeOK` |
| | `SlotsConserved` | `Spec => []PermitsConserved` |
| | `CeilingNeverExceeded` | `Spec => []CeilingHeld` |
| | `StatsAlwaysAcceptable` | `Spec => []StatsAcceptable` |
| | `LateAnswersRejected` | `Spec => []NoLateSuccess` |
| | `SuccessImpliesBudget` | `Spec => SuccessWithinBudget` |
| | `ImplementsCallGate` | `Spec => GateSpec` |
| `ModelCallsProofs` | `ImplementsLedger` | `Spec => LedgerSpec`: the calls of a run are callers of `RunLedger` |
| | `LedgerHolds` | `Spec => []LedgerSound`: permits, ceiling and statistics, in every state of a run |
| | `QuietAtTheEnd` | `Spec => []QuietAtEnd` |
| | `ClosedTraceAccepted` | `Spec => []ClosedTraceCoherent` |
| | `FirstFailureIsTheRuns` | `Spec => []FirstFailureSurfaces` |
| `BranchLoopProofs` | `KeepsVerdict` | `Spec => VerdictSpec` |
| | `TraceTells` | `Spec => []TraceTellsTheCause` |
| | `ConversationIsCurrent` | `Spec => []ConversationCurrent` |
| | `TalkInvariant` | `Spec => []TalkInv`, on which the last two rest |
| | `BatchAlwaysSound` | `ScenarioSpec => []BatchSound` |
| | `NoCallIsLate` | `ScenarioSpec => NoLateCall`, an action property: no call starts behind a cell above it that is over |
| | `BatchInvariant` | `ScenarioSpec => []BatchInv`, on which the last two rest |
| | `FailureAlwaysRouted` | `ScenarioSpec => []FailureRouted` |
| `ExecutorProofs` | `NoFrameIsStale` | `Spec => []NothingStale` |
| | `CloseLeavesNothing` | `Spec => []NothingLeft` |
| | `FramesAreTrue` | `ScenarioSpec => []FrameTrue` |
| `HttpBridgeProofs` | `BridgeAlwaysSafe` | `Spec => []BridgeSafe` |
| | `AnswersAlwaysSurvive` | `ScenarioSpec => []AnswersSurvive` |
| | `StacksAreTransparent` | `ScenarioSpec => [](Answers!WholeAnswers /\ Answers!FailureSurvives)` |
| | `ShutdownAlwaysComplete` | `ScenarioSpec => []ShutdownComplete` |
| | `NobodyCutOff` | `Closing!Spec => Closing!NeverUnderACall`, an action property: no backend is closed under a request that calls it |
| `ObservationProofs` | `EncodingAlwaysExact` | `Spec => []EncodingExact` |
| | `EveryProbeNarrows` | `Spec => ProbeNarrows`, an action property: every probe leaves less to search |
| `TraceDurabilityProofs` | `AcceptedTraceIsWhole` | `Spec => []AcceptedIsWhole` |
| | `OutcomeAlwaysMatches` | `Spec => []OutcomeMatchesTrace` |
| | `ProvenanceAlwaysTrue` | `ScenarioSpec => []ProvenanceTrue` |
| | `IdentityIsTheRun` | `ScenarioSpec => []SameIdentitySameRun` |
| | `PayloadsAlwaysSound` | `ScenarioSpec => []PayloadsSound` |
| `ExperimentsProofs` | `CheckpointAlwaysResumable` | `Spec => []AlwaysResumable` |
| | `ScoresAlwaysAttested` | `Spec => []ScoredIsAttested` |
| | `ImplementsDurableWork` | `Spec => WorkSpec`, the refinement of `DurableWork` |
| | `TrainingAlwaysOne` | `ScenarioSpec => []TrainingIsOne` |
| | `QueueAlwaysSafe` | `ScenarioSpec => []QueueSafe`, if no name is queued twice |
| | `SweepImplementsDurableWork` | `ScenarioSpec => SweepWorkSpec`, the other refinement of `DurableWork` |
| | `RecordsAlwaysTrue` | `ScenarioSpec => []RecordsAreTrue` |
| | `JobsAreNeverLost` | `ScenarioSpec => []JobNeverLost`, however often one is |

Assumptions: only those on the constants, named in the modules that declare
them, and evaluated by TLC in every run. `LimitsAssumption` is what
`RunLimits.__post_init__` admits and a little more; the others say that a bound is
a natural number, that a set of inputs is of its type, that threads are finitely
many, and that `NoCall` is not the number of a call. `BranchesAssumption` says that
`BatchChildren` is a tree: every branch but the root is asked for once, by one
branch, and `_ensure_recursion` bounds the depth. `StreamsAssumption` says that
streams are finitely many, that lengths are numbers, and that the thread of the
cell is none of those it left over. `ProcessAssumption`, `StepsAssumption`,
`FitAssumption` and `SlotsAssumption` say that a holder of a lock is a process, that a
training has a step, a fit a row, a batch and an epoch to add, and a lane a number
of slots. `LibraryAssumption` says that the teaching tasks are numbered, that a
proposed module has a length and an output for every task, and that a search draws
at least one candidate in at least one round.

One theorem has a hypothesis of its own. `QueueAlwaysSafe` is for a queue in which no
name is added twice (`QueueAdds` is 0 or 1, as in the run). Of a name that is
queued again the dispatcher still reads the PID file of its last run, so it may
take the new one for ended and give its slot away: that is `LaneCapacity` in
section 6, a property of the code and no weakness of the proof.

### Why the properties are not inductive, and what is

- **Ledger.** That `peak` stays within the limit needs `active` to be the number of
  callers inside, which needs every one of them to hold a permit, which needs
  permits to be conserved; that unreported responses stay within the calls
  needs every open call to have been reserved and not yet counted; that no
  success is late needs the deadline to be checked after the answer and before
  the usage is recorded. `LedgerInv` conjoins `TypeOK`, `PermitsConserved`,
  `CeilingHeld`, `StatsAcceptable` and `Punctual` (a caller past the second reading
  of the clock was answered in time). The slot properties are cardinalities of
  sets of callers by program counter: lemma `CountMoves` says once how such a
  cardinality changes when one caller joins or leaves, `GotoCounts` applies it to the
  three sets at hand, and there is one lemma per shape of step.
- **Calls.** Where a call is says what it carries (`EngineInv`: the calls asked for
  are `1..high`, and outside an operation all of them are over). With it every
  step of the engine maps to a step of `RunLedger` or to a stutter
  (`ImplementsLedger`), so that the ledger's theorems hold of every run
  (`LedgerHolds`) and are not proved twice. `TraceInv` adds what the trace has of
  every call at its place: a closed trace is acceptable because nothing is
  under way when it is closed, and the first failure surfaces because the
  members before it have none.
- **Branches.** `LoopInv`: a branch that waits for a child has nothing latched, and a
  latched failure belongs to the cell that runs or has just ended. So an
  exception that leaves a child reaches every branch above it, which is the
  refinement of `RunVerdict`. `TalkInv`: events have their positions as ids; every
  call but the one that is awaited is settled; the event that caused a failure
  is in the trace with nothing but ends of cells after it (`CausesTold`); and the
  conversation of every open branch, not only of the top one, ends with its
  latest event or keeps the response whose cell ran last (`Talks`), because a
  branch resumes where it was when its child returns. Lemmas about `Emit` say what
  one line changes of all this, and one lemma per group of handlers does the rest.
- **Executor.** `NothingStale` speaks of a frame that is taken; `Exchange` says which
  frame the pipe holds at every place of host and worker, at most one in both
  directions together while the executor is in use. A late frame needs a cell
  that timed out, after which the executor is only closed. `CloseInv` says what each
  stage of `close` has settled, or failed to, when the next one begins.
- **Bridge.** `BridgeInv`: every interrupt that did not escape is remembered, only an
  interrupt asks for a cancellation, only that makes the task end with one, and
  cancellations on their way are no more than the interrupts handled.
- **Answers.** `AnswersInv`: once a level has answered, what is on the wire passes the
  check of any level above and has the provider's text, or is the provider's own
  response if a text will not do (`Carries`); a failure has the provider's status.
  It says so of one level at a time, so the number of servers plays no part.
- **Leaving.** `ShutdownInv`: no backend is closed before the loop of `close` begins, and
  the loop is entered once, with all requests drained and nothing closed; what it
  has closed is what lies behind it (`LoopAt`), and the first failure is the one
  raised (`FailuresKept`).
- **Trees of branches.** `BatchInv` relates a branch to the one that asked for it: it is
  queued, runs or has an interpreter only while that one waits (`Nested`); its cell's
  deadline is no later than that one's (`Dues`); and a failure that came from below
  had only successes before it in every batch on its way (`First`). `NoCallIsLate`
  and `FirstFailureAtEveryLevel` speak of all branches above or below: the recursive
  function `Above` is shown to be what its equation says by induction on the depth
  (`AboveIs`), and a deadline is carried up the tree in the same way.
- **One failure.** `FailInv`: at every place of its way the failure travels with its own
  record and the event that caused it (`Flies`), as an exception or in a frame.
- **Frames.** `FrameTrue` compares what a stream kept with what was written to it, but a
  write is several steps and a thread left over takes them between those of the
  cell. `StreamsInv` says what a write has done so far at each of its steps, and that
  the characters kept by all streams add up to what was taken from the budget, as
  long as no thread left over has written. The sum is over a set of streams of any
  size; lemma `SumIsRaised` says what the growth of one does to it. `AnswerInv` ties the
  submission to the cell that made it.
- **Observation.** What lies below the lower bound was tried and fits, what lies above
  the upper one was tried and does not (`SearchTried`). The length of an encoding is
  never looked into, so the theorem does not rest on its being monotone, which
  it is not.
- **Files.** `Numbered` holds whatever fails: numbers given out are at their places in
  the file, and lines after them have the number that is used next. `Closing` ties
  the manifest to what is stable on disk, `Clean` what a run without an exception
  keeps in addition. A failed flush may leave a line twice, which is why the
  reader's acceptance, not the writer's success, is the subject of
  `AcceptedIsWhole`.
- **Identity.** `OneInv` says of a run from its start on that its artifacts and what its
  controllers were sent are made from one snapshot of its configuration, whatever
  the caller's objects have become. `TwinInv` says the same of every one of several
  runs; equal identities then have equal encodings, and an encoding is read back
  as what was encoded (`FromEncodedTwin`).
- **Payloads.** `PayInv`: the code at hand is the one that the parser finds in the reply
  at hand, and the line just written passes the reader (`Readable`). That depths are
  those of a stack and turns are counted is all it needs of the rest.
- **Benchmark.** Records exist in memory, under the output path and on the disk;
  each is contained in the one before it while a process works (`Nested`), names a
  pair and a condition at most once, and names only what was paid for. From
  this follow both that a checkpoint can be resumed and that no stored work is
  paid for again.
- **Sweep.** `SweepInv`: a job that a process has queued, begun or judged has no row in
  the file, and was paid for when it was begun. A line stores a job only if it got
  there whole, so an append that fails, or a kill inside one, stores the judged job
  or nothing (`CutImplements`).
- **Search.** `SearchInv`: the output of the slot at hand is of the worker at hand, or
  torn, because the old one was removed before that worker began, and a killed
  search takes its worker with it in this run; so what is read, recorded and appended
  is what the module gave. The best is the first of the best of all lines read
  (`BestUpto`), whether it was kept from candidate to candidate or found anew by a
  start. The second is a fold over the lines; that it is defined for any number of
  lines, and finds the same, is an induction over their number (`FoldsExist`,
  `FoldFindsBest`). It needs that ranks, tuples compared from the left, are ordered
  (`Above`, `NotBothAbove`).
- **Fits.** Two processes may both have passed the look at the directory before either
  took the lock. `FitInv`: what a process has in memory is the prefix of the schedule
  that its step says, made of batches for which it or a predecessor created receipts
  and checkpoints; each of those exists once, and follows the one before.
  `UpdateInv` says so of the one update. `TrainingInv` and `ProposerInv` say for every
  place inside a step which adapters are saved, served and logged, so that a process
  that is killed between any two of them leaves a prefix of one history.
- **Queue.** `LaneInv`: a launch that occupies a slot is of a job that the dispatcher has
  still to look at, has counted as alive or is recording, at every place of its
  round (`OccupyingIsCounted`). This needs PID files to be those of their own launch,
  hence the hypothesis. `KeptInv`: what is about to be removed from `pending/` is in
  `running/`.

### What is only model-checked

- All liveness: `AllEnds`, `NobodyStuck`, `CancelNotLost`, `HostMovesOn`, `EncodingEnds`.
  TLAPS has no proofs under fairness here. `EveryProbeNarrows` is the safety half of
  the last.
- `VerdictExact`: `StrictJSON` walks graphs of containers by RECURSIVE operators, as the
  code does, and a module that reaches one cannot be proved about. That the walk of
  a graph of any size ends with the right verdict would need induction over graphs.
- `TasksExact`: what the two solvers extract from a log and count are folds over it, and
  their agreement an induction over its length, through every kind of question. TLC
  compares them on every log of three events.
- `WorkDurable` as one formula. Its halves are proved apart: the benchmark's under the
  benchmark's own `Spec`, for any requests and faults, and the sweep's under
  `ScenarioSpec`.

TLAPS has no induction over a predicate here, since the library's theorems take one as
an operator. Where a proof needs induction on a number (the depth of a tree, the
size of a set) it is about a set of numbers instead: lemma `AllNumbers`, from the
well-foundedness of `Nat` (`WFMin`), says that a set with 0 and, with each of its
members, the next number has them all.

Proving changed the model in a few places. Arms of a CASE that overlap may be
taken in any order, so what is a chain of `if` in the code is one in the model
(`SecondFit`, `PairedBenchmark`); updates of records by field became records; and
values that were fixed in MC modules became constants, so that the theorems are
not about the instance TLC explores.

## 6. Disagreements between the code and what it says

Three are shown by runs of their own.

1. **A trace the reader rejects** (`calls_adjacency`). `_call_model` writes
   `model.response` inside the `try` and `model.failed` in its handler
   (`engine.py:823`), in two critical sections of the recorder. With two slots
   another call of a batch writes its event between them. `trace_reader.py:402-403`
   then raises "model.failed must occur immediately after its model.response", so
   `load_trace` rejects the trace of a run that was handled correctly. Where no
   two calls are under way the pair is always adjacent (`branch_loop`).
2. **A helper that is not joined** (`http_bridge_escape`). A
   `KeyboardInterrupt` while `thread.start()` waits for the thread it has launched
   reaches `backend.py:296`, where the request is closed and the interrupt raised
   again; the helper is not joined and finds its request closed under it. A second
   interrupt inside the handler (`backend.py:308-311`) escapes in the same way. The
   name of the test at `tests/test_backend.py:202` says that the bridge "joins its
   helper before reraising an interrupt"; it interrupts the join only.
3. **Faults of a cell that end the run** (`cell_worker_faults`). A frame carries
   `getattr(error, "code", None)` as it is (`executor.py:857`), and the host takes
   a code that is neither text nor null for a broken protocol
   (`executor.py:198-199`): `sys.exit(1)` in a cell closes the executor. A final
   text with a lone surrogate (`executor.py:672`), or an exception whose message
   is not strict JSON, cannot be sent and ends the worker. The repository's
   `README.md:214-216` says of Python exceptions and invalid final submissions
   that they are typed controller faults, for which recovery returns an
   observation.

The others are stated as properties of their modules that no listed run names.
Each was found violated by TLC with the module alone, under the constants given.

| Property | With | What the code does | What it says |
|---|---|---|---|
| `JobQueue!LaneCapacity` | one lane of one slot, jobs a and b of priority 1 and 2, `MaxAdds` 2 | `queue.py:40` prefers the `PID` of an earlier run of the same name to the launch just made, so a rerun still being checked by `launch.py` counts as ended and its slot is given away | `ops/README.md:7-8`: starts a job "whenever its lane has a free slot" |
| `JobQueue!AfterReleases` | a job after a name that was never queued, `FairSpec` | `queue.py:140` waits for a file in `done/`, for ever | `queue.py:4-5`: "wait until those runs have a DONE or are not running" |
| `Sweep!SamePublicRequest` | two settings, two workers, one fault | `run_sweep.py:437` knows a row by task, policy and harness; a rerun with another model keeps the earlier rows in one table | `run_sweep.py:3`: "Every policy sees the same public request (same prompt, model, sampling)" |
| `Sweep!CostsCounted` | one setting, two calls, no fault | the row of a policy that raised has no tokens (`run_sweep.py:462`), whatever its calls used | `run_sweep.py:3-5`: costs are counted "over every model call a policy makes" |
| `RLTraining!NamesNeverCollide` | two processes of two steps | the name of a served adapter is made of the directory and the step (`rl_train.py:474`); a process that dies after loading it leaves a name the resumed one cannot load | `rl_train.py:474`: "unique per run so parallel/sequential runs never collide" |
| `RLTraining!ReferenceIsWarmStart` | a warm start, the penalty on, two processes | `--resume` replaces the adapter from which the reference is copied (`rl_train.py:450`) | `rl_train.py:238`: "frozen copy of the warm start" |
| `CellWorker!NamesRestored` | an export `_helper` | the worker restores only names without a leading underscore (`executor.py:752`), while `specs.py:156` admits any identifier | `specs.py:136-137`: "restored before every cell" |
| `CellWorker!OutputWithinBudget` | a thread of the cell, 3 characters, texts of 2 | room is computed and the sum stored in two steps without a lock (`executor.py:292`); two writers are given the same room | `tests/test_executor.py:283`: the retained characters do not exceed the bound |
| `RunProvenance!AttestedOverHttp` | a model whose name changes on the wire | `_validate_request` admits any model that is not blank (`server.py:72`) and the header carries it as it is (`attestation.py:143`): blanks are trimmed, other alphabets cannot be encoded | repository `README.md:238-242`: clients can decode the headers |
| `FailureRecords!OnlyOwnMistakesRecover` | a backend exception of the name `InvalidRequestError` | `host_call` tells a malformed request by the exception's name (`executor.py:524`) and hands the failure to the cell | `executor.py:521-523`: "Provider, limit, and transport failures stay fatal" |
| `FailureRecords!NoOrphan` | an exception whose text is not strict JSON | making its record raises inside the handler (`engine.py:823`), so no `model.failed` is written | `errors.py:147`: "the one strict diagnostic record for any internal exception" |
| `EventLog!EveryQuestionType` | the shipped skill alone | `skills/eventlog.py:94` answers "unknown" to the held-out types | `skills/eventlog.py:5`: "for every question type, lookups included" |
| `EventLog!DistractorsNameItems` | a question about a day | the person asked for may be drawn as the item of a distractor (`taskgen.py:282`) | `taskgen.py:61`: distractors "mention a person and an item" |
| `LibraryBootstrap!RecordOfItsCode` | `Orphans` TRUE, two starts | a worker that outlives its search writes over the output of the slot's next candidate | `bootstrap_library.py:139`: "never read a stale output from an earlier run with the same tag" |

Not a disagreement, but worth knowing: the prefix that the observation's binary
search finds need not be the longest that fits, since the length is not monotone
(a text that is retained whole loses its entry in the counts). No document says
it is. `PrefixTight` states what holds.

## 7. What is not modelled, and why

- Malformed and oversized frames of the executor's pipe, which end an exchange
  as a dead worker does; an interrupt inside `process.start()`; the depth at
  which Python's own stack ends a validation.
- `list_models`, the parsing of arguments and of HTTP headers, printing: pure I/O.
- The wording of prompts and tasks, the layout of the Markdown trace.
- `launch.py`'s watch over the first rows of a job, `status.py`, `checkpoint.py`:
  they read what others wrote. Two dispatchers on one queue: the code takes no
  lock and a comment (`queue.py:18`) asks for separate directories.
- The arithmetic of optimisers, posteriors and statistics: floating point. So
  the training modules compare weights by the history that made them, and
  `online_bandit.py`, the preparation of the broader and transfer data, and the
  analyses of finished rows have no module.
- The budget in seconds of a continued fit, summed over its TERMINAL files
  (`train.py:157`): in `SecondFit` a process may be refused or stopped at any
  guard. A process that passed the look at the owners before another one ended
  does not count the other's seconds.
- `family_gen.py`, `evolve_routine.py`, `librarian.py`: generators of texts, and
  variants of the search that `LibraryBootstrap` models.
- `docs/`, `slides/`: no behaviour.

## 8. The plan

Done: the core of a run with its ledger, trace, calls, branches and verdict; the
boundaries (executor, worker, bridge, responses, observation, strict JSON); the
files of a run, its identity, its payloads, its failures and its end; parallel
child branches; the programs around the library that keep state; and the
theorems of section 5 about the modules of the core, the executor, the bridge,
the observation, the files of a run and their identity, the four fits, the queue,
the paired benchmark, the sweep and the search for a library. Every safety invariant
of a run is proved but two, `VerdictExact` and `TasksExact`.

Prove next: `TasksExact` for logs of any length, with lemmas about `SelectSeq` and
sums like those about the fold of `LibraryBootstrap`; and the records of a search
whose killed worker writes on, up to the slot that it writes.

Model next: the watch of `launch.py`, and `evolve_routine.py` where it keeps files
between two processes.
