SPECIFICATION Spec
CONSTANTS
    Calls = {c1, c2}
    Nested = {}
    Names = {n1}
    NoSnapshot = NoSnapshot
    MaxHistoryLength = 2
    MaxInFlight = 2
    Backend = "memory"
    Faults = {}
INVARIANTS FailedLeavesNoTrace
