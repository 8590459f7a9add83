\* Three interrupts, so that one can follow another in either loop; two servers
\* of up to two turns over a provider whose outputs have up to two items.
SPECIFICATION ScenarioSpec
CONSTANTS
    MaxInterrupts = 3
    Levels = 2
    MaxTurns = 2
    Outputs <- MCOutputs
    Setups <- MCSetups
    Closeable <- MCCloseable
    Name <- MCName
    Requests = {"r1", "r2"}
INVARIANTS
    BridgeSafe
    AnswersSurvive
    ShutdownComplete
PROPERTIES
    CancelNotLost
