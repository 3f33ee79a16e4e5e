CONSTANTS
    n1 = n1
    n2 = n2
    n3 = n3
    prior = prior
    Node = {n1, n2, n3}
    Nil = Nil
    Noop = Noop
    Oversized = {big}
    MaxEntriesPerRpc = 2
    MaxPendingReads = 1
    MaxInflight = 1
    SnapshotAfter = 3
    SnapshotChunks = 1
    Proposal = {c1, big}
    Earlier = {}
    ReadId = {r1, r2}
    SerialHost = TRUE
    Eager = TRUE
    MaxTerm = 4
    Scenario <- Clients
SPECIFICATION Spec
SYMMETRY ReadSymmetry
CHECK_DEADLOCK FALSE
INVARIANTS
    AppliesFirst
    CommitDurable
    AppliedExactly
    ProposalAnswersTrue
    ReadsLinearizable
