\* A KeyboardInterrupt at any moment of a controller call, a subcall or a batch
\* of two calls with one worker, so that it finds a queued call to cancel; two
\* callers that compete for one slot.
CONSTANTS
    t1 = t1
    t2 = t2
    NoCall = NoCall
    NCalls = 3
    Interrupts = TRUE
    MaxModelCalls = 3
    MaxSubcalls = 2
    MaxParallel = 1
    TokenBudgeted = FALSE
    MaxTotalTokens = 0
    UsageSizes = {0}
    Deadline = 1
    MaxClock = 2
SPECIFICATION ScenarioSpec

    
PROPERTIES
    AllEnds
