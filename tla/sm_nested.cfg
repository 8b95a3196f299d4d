SPECIFICATION Spec
CONSTANTS
    Calls = {c1, c2}
    Nested = {c1}
    Names = {n1}
    NoSnapshot = NoSnapshot
    MaxHistoryLength = 2
    MaxInFlight = 1
    Backend = "memory"
    Faults = {}
INVARIANTS FailedLeavesNoTrace
