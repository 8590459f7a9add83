\* Two pairs, and a selection with a repeated pair, under two faults.
SPECIFICATION ScenarioSpec
CONSTANTS
    pair1 = pair1
    pair2 = pair2
    Requests <- MCRequests
    Transports = {"answered"}
    Bodies = {"answer"}
    Proofs = {"attested"}
    MaxCalls = 1
    MaxTokens = 1
    MaxFaults = 2
    \* Sweep: one kill or failing append, two threads
    Selections <- MCSelections
    SweepSettings = {"s1"}
    SweepWorkers = 2
    SweepCalls = 1
    SweepTears = {"part", "whole"}
    SweepFaults = 1
    \* RLTraining: a warm start, two steps, three processes
    Warmed = TRUE
    Penalised = TRUE
    TrainingSteps = 2
    Rollouts = 2
    RolloutRewards = {0, 1}
    Attempts = 3
    LogTears = {"part", "whole"}
    \* JobQueue: two lanes of one slot, one job that waits for another
    QueueJobs = {"a", "b", "c"}
    QueueLanes = {"gpu0", "gpu1"}
    QueueLane <- MCLane
    QueueSlots <- MCSlots
    QueuePriority <- MCPriority
    QueueAfter <- MCAfter
    QueueAdds = 1
    QueueIdle = 2
    DyingJobs = {"a", "b"}
    DyingLanes = {"gpu0"}
    DyingLane <- MCDyingLane
    DyingSlots <- MCDyingSlots
    DyingPriority <- MCDyingPriority
    DyingAfter <- MCDyingAfter
    DyingAdds = 1
    DyingDeaths = 2
    DyingIdle = 1
    \* LibraryBootstrap: two tasks, one of them shown, two rounds of two candidates
    LibraryTasks = {1, 2}
    LibraryShown = {1}
    LibraryKinds <- MCKinds
    LibraryCandidates = 2
    LibraryRounds = 2
    LibraryStarts = 2
    \* SecondFit: an epoch is a full batch and a smaller one
    FitProcesses = {"f1", "f2", "f3"}
    FitPlans = {"p1"}
    FitRows = 3
    FitBatch = 2
    FitEpochs = 3
    UpdateProcesses = {"u1", "u2", "u3"}
    UpdateArms = {"recovery", "ordinary"}
    \* ProposerRL: every second directory is kept
    ProposerSteps = 4
    Families = 2
    Libraries = 2
    LibraryRewards = {0, 1}
    KeepEvery = 2
    ProposerStarts = 2
INVARIANTS
    AlwaysResumable
    TrainingIsOne
    
    
    TasksExact
PROPERTIES
    WorkDurable
