\* Two slots, up to three calls, budgets that run out midway, and a KeyboardInterrupt
\* at any moment.
CONSTANTS
    NoCall = NoCall
    NCalls = 3
    Interrupts = TRUE
    MaxModelCalls = 2
    MaxSubcalls = 3
    MaxParallel = 2
    TokenBudgeted = TRUE
    MaxTotalTokens = 1
    UsageSizes = {1}
    Deadline = 1
    MaxClock = 2
SPECIFICATION Spec
INVARIANTS
    
    FirstFailureSurfaces
PROPERTIES
    LedgerSpec
