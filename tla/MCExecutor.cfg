\* Executor: two cells and two host calls between them, two failing stages of
\* close.  CellWorker: two cells, two writes each and a background thread.
SPECIFICATION ScenarioSpec
CONSTANTS
    MaxCells = 2
    MaxCalls = 2
    MaxFaults = 2
    MaxChars = 3
    Streams = {"stdout", "display"}
    Lengths = {2}
    MaxWrites = 2
    Background = {"t"}
    Exports = {"helper"}
INVARIANTS
    NothingStale
    NothingLeft
    
PROPERTIES
    HostMovesOn
