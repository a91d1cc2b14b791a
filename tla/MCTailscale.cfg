\* Two tasks, a retry guard of two, one status for both kinds of missing login.
SPECIFICATION Spec
CONSTANTS
    Tasks = {t1, t2}
    MaxDepth = 2
    ExitNodes = {n}
    NoExit = NoExit
    NoConfig = NoConfig
    Reported <- FiveStatuses
SYMMETRY Symmetry
INVARIANTS
    TypeOK
    QuietCallsNeverAssert
    AttemptsAreBounded
    QuietCallsDoWhatTheySay
    CallsEndForAReason
PROPERTY
    QuietWritesMerge
