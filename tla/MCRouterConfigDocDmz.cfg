\* The DMZ alone.  One property, the error message of firewall.py:69-70.
SPECIFICATION Spec
CONSTANTS
    Tasks = {t1}
    MaxLate = 0
    Groups <- DmzOnly
    Toggles = {"https"}
    Hosts = {h1, h2}
    NoHost = NoHost
    EmptyHost = EmptyHost
    Actypes = {a2}
    DefaultActype = DefaultActype
    NoActype = NoActype
    Ifaces = {i1, i2}
    Macs = {m1, m2}
    Temperatures = {69, 70, 90, 91}
    NoCall = NoCall
    NothingSeen = NothingSeen
PROPERTY
    DmzRefusalsTellTheTruth
