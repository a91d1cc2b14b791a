\* Two tasks, every version string around 4.8.0, two upgrades.
SPECIFICATION Spec
CONSTANTS
    Numbers = {0, 4, 7, 8, 9}
    NoVersion = NoVersion
    Tasks = {t1, t2}
    Firmwares <- FirmwaresAround
    Installed <- MCInstalled
    NoKey = NoKey
    NotText = NotText
    NoReply = NoReply
    MaxUpgrades = 2
SYMMETRY Symmetry
INVARIANTS
    TypeOK
    RefreshedMeansCurrent
    OnlyStaleCallsMisroute
PROPERTY
    GivesUpOverItsOwnReply
