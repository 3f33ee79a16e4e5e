CONSTANTS
    n1 = n1
    n2 = n2
    n3 = n3
    prior = prior
    Node = {n1, n2, n3}
    Nil = Nil
    Noop = Noop
    Oversized = {}
    MaxEntriesPerRpc = 3
    MaxPendingReads = 1
    MaxInflight = 1
    SnapshotAfter = 9
    SnapshotChunks = 1
    Proposal = {}
    Earlier = {prior}
    ReadId = {r1}
    SerialHost = TRUE
    Eager = TRUE
    MaxTerm = 2
    Scenario <- CaughtUp
SPECIFICATION Spec
CHECK_DEADLOCK FALSE
INVARIANTS
    AppliedExactly
