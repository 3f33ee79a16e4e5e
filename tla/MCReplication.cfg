CONSTANTS
    n1 = n1
    n2 = n2
    n3 = n3
    prior = prior
    Node = {n1, n2, n3}
    Nil = Nil
    Noop = Noop
    Oversized = {}
    MaxEntriesPerRpc = 1
    MaxPendingReads = 1
    MaxInflight = 2
    SnapshotAfter = 9
    SnapshotChunks = 2
    Proposal = {}
    Earlier = {prior}
    ReadId = {}
    SerialHost = TRUE
    Eager = TRUE
    MaxTerm = 5
    Scenario <- Histories
SPECIFICATION Spec
CHECK_DEADLOCK FALSE
INVARIANTS
    LogMatching
    CommittedAgree
    LeaderCompleteness
    MatchIndexSound
    NoFault
    RecoveryValid
    AppliedExactly
    CommitDurable
