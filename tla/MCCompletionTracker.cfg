CONSTANTS
    Outcome = {applied, persisted}
    HistoryLimit = 2
    MaxSequence = 5
    MaxGeneration = 2
SPECIFICATION Spec
INVARIANTS
    TypeOK
    DedupExact
    RepeatRecognised
    AwaitedAccepted
    ConsumesOwnEffects
    HistorySound
PROPERTY NeverForgets
CHECK_DEADLOCK FALSE
