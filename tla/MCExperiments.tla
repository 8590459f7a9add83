--------------------------- MODULE MCExperiments ---------------------------
(***************************************************************************)
(* The experiments around the library, for TLC: the paired benchmark and   *)
(* its checkpoint (PairedBenchmark), once under faults and once under      *)
(* every kind of answer; the policy sweep and its rows (Sweep); the        *)
(* training loop and its log (RLTraining); the queue of jobs (JobQueue),   *)
(* once with a dispatcher that lives and once with one that dies; the      *)
(* search for an extraction library (LibraryBootstrap); the tasks of the   *)
(* event log with the answers of two policies (EventLog); the continued    *)
(* fit of a teacher (SecondFit), the fit of one update (OneUpdate) and the *)
(* training of a proposer (ProposerRL).                                    *)
(*                                                                         *)
(* They share nothing but the machine.  A behaviour follows one of them,   *)
(* which `scenario` names; the others rest where they start.               *)
(***************************************************************************)
EXTENDS PairedBenchmark, TLC

CONSTANTS
    pair1, pair2,               \* two pairs
    \* Sweep
    Selections, SweepSettings, SweepWorkers, SweepCalls, SweepTears, SweepFaults,
    \* RLTraining
    Warmed, Penalised, TrainingSteps, Rollouts, RolloutRewards, Attempts, LogTears,
    \* JobQueue, with a dispatcher that lives
    QueueJobs, QueueLanes, QueueLane, QueueSlots, QueuePriority, QueueAfter, QueueAdds,
    QueueIdle,
    \* JobQueue, with a dispatcher that dies
    DyingJobs, DyingLanes, DyingLane, DyingSlots, DyingPriority, DyingAfter, DyingAdds,
    DyingDeaths, DyingIdle,
    \* LibraryBootstrap
    LibraryTasks, LibraryShown, LibraryKinds, LibraryCandidates, LibraryRounds,
    LibraryStarts,
    \* SecondFit
    FitProcesses, FitPlans, FitRows, FitBatch, FitEpochs,
    \* OneUpdate
    UpdateProcesses, UpdateArms,
    \* ProposerRL
    ProposerSteps, Families, Libraries, LibraryRewards, KeepEvery, ProposerStarts

\* The names of processes are no marks that a file or a lock is free.
ASSUME ProcessAssumption ==
    "nobody" \notin UpdateProcesses /\ "nobody" \notin FitProcesses

\* A training has a step.
ASSUME StepsAssumption == ProposerSteps \in Nat \ {0} /\ TrainingSteps \in Nat \ {0}

\* A continued fit has rows and batches, and an epoch to add to the first.
ASSUME FitAssumption ==
    FitRows \in Nat \ {0} /\ FitBatch \in Nat \ {0} /\ FitEpochs \in Nat \ {0, 1}

\* A lane has a number of slots.
ASSUME SlotsAssumption == QueueSlots \in [QueueLanes -> Nat]

\* The teaching tasks are numbered, a module behaves somehow, and a search draws.
ASSUME LibraryAssumption ==
    /\ IsFiniteSet(LibraryTasks) /\ LibraryTasks = 1..Cardinality(LibraryTasks)
    /\ LibraryKinds \subseteq [loads : BOOLEAN, size : Nat, outs : [LibraryTasks -> Int]]
    /\ LibraryCandidates \in Nat \ {0} /\ LibraryRounds \in Nat \ {0}

VARIABLES
    scenario,
    \* Sweep
    sweepPc, sweepRequest, setting, job, row, rowsFile, sweepPaid, losses, interrupts,
    \* RLTraining
    trainingPc, attempt, resumed, step, weights, reference, controller, rows, adapters,
    served, rollouts, log, trainingPaid,
    \* JobQueue
    pending, running, done, wrapperOf, pidFile, launches, added, deaths,
    queuePc, toScan, live, todo, doneNames, current, idle, alarm,
    \* LibraryBootstrap
    shownOnly, threshold, searchPc, starts, candidates, tried, best, rnd, k, revealed,
    worker, leftover, out, rec, summary, accepted,
    \* EventLog
    stage, type, asked, events, extracted, parseFailures, fixed, library, correct,
    \* SecondFit
    plan, owners, terminals, receipts, checkpoints, coordinator, fits,
    \* OneUpdate
    teachingPlan, ownerFiles, loadFile, updateFile, boundary, summaryFile, terminalFiles,
    lockHolder, updaters,
    \* ProposerRL
    proposerStage, start, proposerStep, policy, proposer, rewards, directories,
    proposers, steplog, final

sweepVars == <<sweepPc, sweepRequest, setting, job, row, rowsFile, sweepPaid, losses, interrupts>>
trainingVars == <<trainingPc, attempt, resumed, step, weights, reference, controller, rows,
                  adapters, served, rollouts, log, trainingPaid>>
queueVars == <<pending, running, done, wrapperOf, pidFile, launches, added, deaths,
               queuePc, toScan, live, todo, doneNames, current, idle, alarm>>
libraryVars == <<shownOnly, threshold, searchPc, starts, candidates, tried, best, rnd, k,
                 revealed, worker, leftover, out, rec, summary, accepted>>
taskVars == <<stage, type, asked, events, extracted, parseFailures, fixed, library, correct>>
fitVars == <<plan, owners, terminals, receipts, checkpoints, coordinator, fits>>
updateVars == <<teachingPlan, ownerFiles, loadFile, updateFile, boundary, summaryFile,
                terminalFiles, lockHolder, updaters>>
proposerVars == <<proposerStage, start, proposerStep, policy, proposer, rewards, directories,
                  proposers, steplog, final>>
teachingVars == <<fitVars, updateVars, proposerVars>>
allVars == <<scenario, vars, sweepVars, trainingVars, queueVars, libraryVars, taskVars,
             teachingVars>>

\* A selection with a repeated pair is one a user may ask for.
MCRequests == {<<pair1, pair2>>, <<pair2, pair2>>}

Answers == INSTANCE PairedBenchmark WITH
    Requests <- {<<pair1, pair2>>}, Transports <- AllTransports, Bodies <- AllBodies,
    Proofs <- AllProofs, MaxFaults <- 0

\* The whole selection, and a smaller one in another order.
MCSelections == {<<<<"t1", "direct">>, <<"t1", "rlm">>, <<"t2", "fixed">>>>,
                 <<<<"t2", "fixed">>, <<"t1", "rlm">>>>}

Sweeping == INSTANCE Sweep WITH
    pc <- sweepPc, request <- sweepRequest, file <- rowsFile, paid <- sweepPaid,
    Requests <- Selections, Settings <- SweepSettings, Workers <- SweepWorkers,
    Calls <- SweepCalls, Tears <- SweepTears, MaxFaults <- SweepFaults

Training == INSTANCE RLTraining WITH
    pc <- trainingPc, paid <- trainingPaid, WarmStart <- Warmed, KL <- Penalised,
    Steps <- TrainingSteps, Group <- Rollouts, Rewards <- RolloutRewards,
    MaxAttempts <- Attempts, Tears <- LogTears

\* Two lanes of one slot, c after a.
MCLane == ("a" :> "gpu0") @@ ("b" :> "gpu0") @@ ("c" :> "gpu1")
MCSlots == ("gpu0" :> 1) @@ ("gpu1" :> 1)
MCPriority == ("a" :> 1) @@ ("b" :> 2) @@ ("c" :> 1)
MCAfter == ("a" :> {}) @@ ("b" :> {}) @@ ("c" :> {"a"})

Queue == INSTANCE JobQueue WITH
    pc <- queuePc, Jobs <- QueueJobs, Lanes <- QueueLanes, Lane <- QueueLane,
    Slots <- QueueSlots, Priority <- QueuePriority, After <- QueueAfter,
    MaxAdds <- QueueAdds, MaxDeaths <- 0, IdleRounds <- QueueIdle

\* Two jobs of one lane, and a dispatcher that dies twice.
MCDyingLane == ("a" :> "gpu0") @@ ("b" :> "gpu0")
MCDyingSlots == "gpu0" :> 1
MCDyingPriority == ("a" :> 1) @@ ("b" :> 2)
MCDyingAfter == ("a" :> {}) @@ ("b" :> {})

DyingQueue == INSTANCE JobQueue WITH
    pc <- queuePc, Jobs <- DyingJobs, Lanes <- DyingLanes, Lane <- DyingLane,
    Slots <- DyingSlots, Priority <- DyingPriority, After <- DyingAfter,
    MaxAdds <- DyingAdds, MaxDeaths <- DyingDeaths, IdleRounds <- DyingIdle

\* Two teaching tasks, the first of them shown, and modules that tell the ranks
\* apart: right everywhere, and a longer one that fits the example alone.
Module(size, first, second) == [loads |-> TRUE, size |-> size, outs |-> <<first, second>>]
MCKinds == {Module(1, 1, 2), Module(2, 1, 3)}

Library == INSTANCE LibraryBootstrap WITH
    pc <- searchPc, file <- candidates, done <- tried, orphans <- leftover,
    Tasks <- LibraryTasks, Shown <- LibraryShown, Kinds <- LibraryKinds,
    Candidates <- LibraryCandidates, Rounds <- LibraryRounds, MaxStarts <- LibraryStarts,
    Orphans <- FALSE

Tasks == INSTANCE EventLog WITH
    People <- 1..3, Days <- 3, Quantities <- {1, 3}, N <- 3, Planted <- 1

\* Any process may meet any other.
Continuing == INSTANCE SecondFit WITH
    Fits <- FitProcesses, Plans <- FitPlans, Rows <- FitRows, Batch <- FitBatch,
    Epochs <- FitEpochs

Updating == INSTANCE OneUpdate WITH Updaters <- UpdateProcesses, Arms <- UpdateArms

Proposing == INSTANCE ProposerRL WITH
    stage <- proposerStage, step <- proposerStep, current <- proposer, served <- proposers,
    Steps <- ProposerSteps, Group <- Libraries, Rewards <- LibraryRewards,
    MaxStarts <- ProposerStarts

LibraryAtRest == shownOnly = TRUE /\ threshold = 1
TasksAtRest == type = "count_buyers" /\ events = CHOOSE es \in Tasks!Drawn("count_buyers") : TRUE

Scenarios == {"benchmark", "answers", "sweep", "training", "queue", "deaths", "library", "tasks",
              "continuation", "update", "proposer"}

ScenarioInit ==
    /\ scenario \in Scenarios
    /\ IF scenario = "answers" THEN Answers!Init ELSE Init
    /\ Sweeping!Init
    /\ Training!Init
    /\ IF scenario = "deaths" THEN DyingQueue!Init ELSE Queue!Init
    /\ scenario = "library" \/ LibraryAtRest
    /\ Library!Init
    /\ scenario = "tasks" \/ TasksAtRest
    /\ Tasks!Init
    /\ Continuing!Init
    /\ Updating!Init
    /\ Proposing!Init

BenchmarkStep ==
    /\ scenario = "benchmark" /\ Next
    /\ UNCHANGED <<scenario, sweepVars, trainingVars, queueVars, libraryVars, taskVars,
                   teachingVars>>
AnswersStep ==
    /\ scenario = "answers" /\ Answers!Next
    /\ UNCHANGED <<scenario, sweepVars, trainingVars, queueVars, libraryVars, taskVars,
                   teachingVars>>
SweepStep ==
    /\ scenario = "sweep" /\ Sweeping!Next
    /\ UNCHANGED <<scenario, vars, trainingVars, queueVars, libraryVars, taskVars,
                   teachingVars>>
TrainingStep ==
    /\ scenario = "training" /\ Training!Next
    /\ UNCHANGED <<scenario, vars, sweepVars, queueVars, libraryVars, taskVars,
                   teachingVars>>
QueueStep ==
    /\ scenario = "queue" /\ Queue!Next
    /\ UNCHANGED <<scenario, vars, sweepVars, trainingVars, libraryVars, taskVars, teachingVars>>
DeathsStep ==
    /\ scenario = "deaths" /\ DyingQueue!Next
    /\ UNCHANGED <<scenario, vars, sweepVars, trainingVars, libraryVars, taskVars, teachingVars>>
LibraryStep ==
    /\ scenario = "library" /\ Library!Next
    /\ UNCHANGED <<scenario, vars, sweepVars, trainingVars, queueVars, taskVars, teachingVars>>
TasksStep ==
    /\ scenario = "tasks" /\ Tasks!Next
    /\ UNCHANGED <<scenario, vars, sweepVars, trainingVars, queueVars, libraryVars, teachingVars>>
ContinuationStep ==
    /\ scenario = "continuation" /\ Continuing!Next
    /\ UNCHANGED <<scenario, vars, sweepVars, trainingVars, queueVars, libraryVars, taskVars,
                   updateVars, proposerVars>>
UpdateStep ==
    /\ scenario = "update" /\ Updating!Next
    /\ UNCHANGED <<scenario, vars, sweepVars, trainingVars, queueVars, libraryVars, taskVars,
                   fitVars, proposerVars>>
ProposerStep ==
    /\ scenario = "proposer" /\ Proposing!Next
    /\ UNCHANGED <<scenario, vars, sweepVars, trainingVars, queueVars, libraryVars, taskVars,
                   fitVars, updateVars>>

\* The program was started as often as it will be.
StartsOver ==
    /\ \/ scenario = "training" /\ trainingPc = "off" /\ attempt = Attempts
       \/ scenario = "library" /\ starts = LibraryStarts
       \/ scenario = "continuation" /\ \A p \in DOMAIN fits : fits[p].pc = "ended"
       \/ scenario = "update" /\ \A p \in DOMAIN updaters : updaters[p].pc = "ended"
       \/ scenario = "proposer" /\ proposerStage = "off" /\ start = ProposerStarts
    /\ UNCHANGED allVars

ScenarioNext ==
    \/ BenchmarkStep \/ AnswersStep \/ SweepStep \/ TrainingStep
    \/ QueueStep \/ DeathsStep \/ LibraryStep \/ TasksStep
    \/ ContinuationStep \/ UpdateStep \/ ProposerStep \/ StartsOver

ScenarioSpec == ScenarioInit /\ [][ScenarioNext]_allVars

-----------------------------------------------------------------------------
(* Properties of the components, of the behaviours that follow them        *)

\* A record with a score had the declared provenance and kept the budget.
ScoresAttested == scenario = "answers" => Answers!ScoredIsAttested

\* The sweep keeps the promise of DurableWork that WorkSpec states of the
\* benchmark: no row is lost, and no job with a row is answered again.
SweepWorkSpec == Sweeping!WorkSpec

\* Neither loses what it has stored, nor pays for it again.
WorkDurable == WorkSpec /\ SweepWorkSpec

\* Rollouts and evaluations ask for the weights that are trained.
OnPolicy == Training!OnPolicy

\* However often the process was resumed, the log tells of one training.
OneTraining == Training!OneTraining

\* The checkpoints of a continued fit are those of one training, and a complete
\* one has every receipt, however many processes were started.
ContinuationIsOne == Continuing!OneContinuation /\ Continuing!CompleteIsWhole

\* One process updates the teacher, and what is evaluated is what it checked.
UpdateIsOne == Updating!NoImplicitRetry /\ Updating!TakenIsChecked

\* A proposer is sampled from the weights it trains, its log tells of one training
\* and its last two adapters are on disk.
ProposerIsOne ==
    Proposing!SamplesOnPolicy /\ Proposing!LogIsOneTraining /\ Proposing!LastTwoOnDisk

\* Weights, rollouts, checkpoints and log of every fit are those of one training.
TrainingIsOne ==
    OnPolicy /\ OneTraining /\ ContinuationIsOne /\ UpdateIsOne /\ ProposerIsOne

\* While the dispatcher lives it overcommits no lane.
LaneCapacity == scenario = "queue" => Queue!LaneCapacity

\* A specification that was queued is in one of the directories for ever,
\* whenever the dispatcher dies.
JobNeverLost == scenario = "deaths" => DyingQueue!JobNeverLost

\* What the queue may rely on, whether its dispatcher lives or dies.
QueueSafe == LaneCapacity /\ JobNeverLost

\* A line of candidates.jsonl has what its own module gives, never the output of
\* an earlier run with the same tag.
RecordOfItsCode == Library!RecordOfItsCode

\* Whatever restarts came between, the best candidate of the file is reported.
BestOfFile == Library!BestOfFile

\* The search keeps true records, and chooses by them.
RecordsAreTrue == RecordOfItsCode /\ BestOfFile

\* With every chunk read, both policies are right about the questions they take.
ExactWhenRead == Tasks!ExactWhenRead

\* A question has one answer, the one that is scored.
OneAnswer == Tasks!OneAnswer

\* What is scored as right is right, and a policy that read everything scores.
TasksExact == OneAnswer /\ ExactWhenRead
=============================================================================
