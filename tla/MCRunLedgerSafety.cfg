\* Three callers, two slots, three model calls, a token budget of 2.
CONSTANTS
    t1 = t1
    t2 = t2
    t3 = t3
    Threads <- MCThreeThreads
    MaxModelCalls = 3
    MaxSubcalls = 3
    MaxParallel = 2
    TokenBudgeted = TRUE
    MaxTotalTokens = 2
    UsageSizes = {0, 2}
    BatchSizes = {2}
    Deadline = 2
    MaxClock = 3
SYMMETRY MCSymmetry
SPECIFICATION Spec
INVARIANTS
    TypeOK
    PermitsConserved
    CeilingHeld
    StatsAcceptable
    NoLateSuccess
PROPERTIES
    SuccessWithinBudget
    GateSpec
