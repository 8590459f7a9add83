\* Two slots: the lock of the trace is free between a response and its failure.
CONSTANTS
    NoCall = NoCall
    NCalls = 2
    Interrupts = FALSE
    MaxModelCalls = 2
    MaxSubcalls = 2
    MaxParallel = 2
    TokenBudgeted = FALSE
    MaxTotalTokens = 0
    UsageSizes = {0}
    Deadline = 1
    MaxClock = 2
SPECIFICATION Spec
INVARIANTS
    ResponseFailureAdjacent
