CONSTANTS
    n1 = n1
    n2 = n2
    n3 = n3
    prior = prior
    Node = {n1, n2, n3}
    Nil = Nil
    Noop = Noop
    Oversized = {}
    MaxEntriesPerRpc = 1
    MaxPendingReads = 1
    MaxInflight = 1
    SnapshotAfter = 2
    SnapshotChunks = 1
    Proposal = {}
    Earlier = {prior}
    ReadId = {}
    SerialHost = TRUE
    Eager = TRUE
    MaxTerm = 2
    Scenario <- VoteThenInstall
SPECIFICATION Spec
CHECK_DEADLOCK FALSE
INVARIANTS
    ElectionSafety
