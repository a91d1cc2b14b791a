\* Liveness: no symmetry, a guard of one, no exit node.
SPECIFICATION FairSpec
CONSTANTS
    Tasks = {t1, t2}
    MaxDepth = 1
    ExitNodes = {}
    NoExit = NoExit
    NoConfig = NoConfig
    Reported <- FewStatuses
PROPERTY
    EveryCallReturns
