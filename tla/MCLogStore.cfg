CONSTANTS
    MaxIndex = 5
    MaxTerm = 3
SPECIFICATION Spec
CHECK_DEADLOCK FALSE
INVARIANTS
    TypeOK
    CommittedKept
    MergeExact
    UnstableCovers
