CONSTANTS
    Node = {n1, n2, n3}
    Term = {1, 2}
SPECIFICATION MCSpec
CHECK_DEADLOCK FALSE
INVARIANTS
    TypeOK
    OneLeaderPerTerm
