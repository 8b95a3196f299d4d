SPECIFICATION Spec
CONSTANTS
    Calls = {c1, c2, c3}
    Nested = {}
    Names = {n1, n2}
    NoSnapshot = NoSnapshot
    MaxHistoryLength = 3
    MaxInFlight = 1
    Backend = "database"
    Faults = {}
INVARIANTS FailedLeavesNoTrace HistoryFollowsState DurableInSync
PROPERTIES ActsAtomically
