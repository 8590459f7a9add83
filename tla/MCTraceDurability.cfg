\* Two ordinary events, two failing operations and two interrupts; one turn at
\* each of two depths with replies of up to five lines; four harnesses and two
\* environments for one run, two and one for two runs.
SPECIFICATION ScenarioSpec
CONSTANTS
    MaxEvents = 2
    MaxFaults = 2
    MaxInterrupts = 2
    MaxTurns = 1
    MaxDepth = 1
    MaxLines = 5
    Run = r0
    Harnesses <- MCHarnesses
    Abis <- MCAbis
    Options = {"cold", "hot", "owned"}
    OwnedOptions = {"owned"}
    Models <- MCModels
    Twins = {r1, r2}
    TwinHarnesses <- MCTwinHarnesses
    TwinAbis <- MCTwinAbis
    TwinOptions = {"cold", "hot"}
    TwinOwnedOptions = {}
    TwinModels <- MCTwinModels
    TwinDepth = 0
    Bare = Bare
    Drop = Drop
    NoModel = NoModel
    Nothing = Nothing
    Unsendable = Unsendable
SYMMETRY TwinSymmetry
INVARIANTS
    AcceptedIsWhole
    OutcomeMatchesTrace
    PayloadsSound
    
    
