SPECIFICATION Spec
CONSTANTS
    AllowEmpty = FALSE
    Every = 2
    MaxRecords = 4
INVARIANTS
    WarmupFiguresFinal
    WarmupAddsUp
    DatedIsCounted
    EveryRecordOnce
    ObserverAgrees
    WarmupToldOnce
    ProgressOnTime
