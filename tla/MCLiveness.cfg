CONSTANTS
    n1 = n1
    n2 = n2
    n3 = n3
    prior = prior
    Node = {n1, n2, n3}
    Nil = Nil
    Noop = Noop
    Oversized = {}
    MaxEntriesPerRpc = 1
    MaxPendingReads = 1
    MaxInflight = 1
    SnapshotAfter = 2
    SnapshotChunks = 1
    Proposal = {c1}
    Earlier = {prior}
    ReadId = {r1}
    SerialHost = TRUE
    Eager = TRUE
    MaxTerm = 4
    Scenario <- Steady
SPECIFICATION FairSpec
CHECK_DEADLOCK FALSE
PROPERTIES
    StableLeaderConverges
    RequestsAnswered
