SPECIFICATION NetworkSpec
CONSTANTS
    Relayers = {r1, r2}
    TransferIds = {i1, i2}
    MaxThreshold = 2
    MaxTransfers = 2
    MaxFailures = 3
    Timestamps = {1, 2}
    MaxHeight = 2
    MaxHeaders = 4
    Data = {"a", "b", "c"}
    MaxLeaves = 5
    PeerIds = {p1, p2}
    MaxConnects = 1
    MaxDrift = 1
    NodeIds = {n1, n2}
    Roles = {"validator", "miner", "full_node"}
    MaxNodeCount = 2
    RequestIds = {q1, q2}
    PoolTransactions = {t1, t2, m1, m2}
    Nameless = {m1, m2}
    MinPoolCount = 0
INVARIANTS BridgeBooks OutOfSyncWhereReplaced ProofsShowTheirDatum CountsAgree
PROPERTIES CompletedByRelayers CallsComeBack
CHECK_DEADLOCK FALSE
