CONSTANTS
    n1 = n1
    n2 = n2
    n3 = n3
    prior = prior
    Node = {n1, n2, n3}
    Nil = Nil
    Noop = Noop
    Oversized = {}
    MaxEntriesPerRpc = 2
    MaxPendingReads = 2
    MaxInflight = 1
    SnapshotAfter = 9
    SnapshotChunks = 1
    Proposal = {}
    Earlier = {}
    ReadId = {r1, r2}
    SerialHost = TRUE
    Eager = TRUE
    MaxTerm = 2
    Scenario <- ReadsOnce
SPECIFICATION Spec
SYMMETRY ReadSymmetry
CHECK_DEADLOCK FALSE
INVARIANTS
    ReadsLinearizable
