SPECIFICATION FairSpec
CONSTANTS
    Calls = {c1, c2}
    Nested = {}
    Names = {n1}
    NoSnapshot = NoSnapshot
    MaxHistoryLength = 2
    MaxInFlight = 3
    Backend = "database"
    Faults = {"write", "hash"}
INVARIANTS TypeOK NoStrandedEntry HistoryFollowsVersion
PROPERTIES CallsSettle
