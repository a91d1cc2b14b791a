\* Two tasks, alone or with other clients, one or two parts of the
\* configuration at a time, one write that lands late.
SPECIFICATION Spec
CONSTANTS
    Tasks = {t1, t2}
    MaxLate = 1
    Groups <- MCGroups
    Toggles = {"https"}
    Hosts = {h1, h2}
    NoHost = NoHost
    EmptyHost = EmptyHost
    Actypes = {a2}
    DefaultActype = DefaultActype
    NoActype = NoActype
    Ifaces = {i1, i2}
    Macs = {m1, m2}
    Temperatures = {69, 70, 90, 91}
    NoCall = NoCall
    NothingSeen = NothingSeen
SYMMETRY Symmetry
INVARIANT
    TypeOK
PROPERTIES
    AtomicSpec
    UndisturbedWritesKeepTheirPromise
    RefusalsAreJustified
