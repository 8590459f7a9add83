\* Empty, short and long candidates around one and two digits of their counts,
\* with every budget from too small for the structure to more than enough; JSON
\* values of up to two containers with up to two items.
SPECIFICATION ScenarioSpec
CONSTANTS
    Candidates <- CandidatesValue
    Structured <- StructuredValue
    EntryChars <- EntryCharsValue
    CountChars <- CountCharsValue
    Lengths = {0, 3, 12, 30}
    Widths = {1, 2}
    Budgets <- BudgetsValue
    Ids = {i, j}
    MaxItems = 2
INVARIANTS
    EncodingExact
    VerdictExact
PROPERTIES
    EncodingEnds
