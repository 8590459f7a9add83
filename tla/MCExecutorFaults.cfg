\* As MCExecutor.cfg: every kind of exception and of final text of a cell.
SPECIFICATION ScenarioSpec
CONSTANTS
    MaxCells = 2
    MaxCalls = 2
    MaxFaults = 2
    MaxChars = 3
    Streams = {"stdout", "display"}
    Lengths = {2}
    MaxWrites = 2
    Background = {"t"}
    Exports = {"helper"}
INVARIANT FaultsAreRecoverable
