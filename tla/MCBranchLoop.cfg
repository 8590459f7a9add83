\* Two levels of recursion, two turns in each branch, both recovery modes, and
\* model calls and subcalls that run out midway; a tree of eight branches on
\* pools of two; every failure at each of three depths.
CONSTANTS
    NoCall = NoCall
    MaxTurns = 2
    MaxDepth = 2
    RecoveryModes = {"repair", "abort"}
    MaxModelCalls = 3
    MaxSubcalls = 3
    MaxParallel = 1
    TokenBudgeted = FALSE
    MaxTotalTokens = 0
    UsageSizes = {0}
    Deadline = 1
    BatchRoot = "root"
    BatchChildren <- MCChildren
    BatchDepth = 3
    BatchParallel = 2
    BatchSubcalls = 6
    BatchTimeout = 2
    BatchDeadline = 3
SPECIFICATION ScenarioSpec
INVARIANTS
    TraceTellsTheCause
    ConversationCurrent
    BatchSound
    
PROPERTIES
    VerdictSpec
    NobodyStuck
