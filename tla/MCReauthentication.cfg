\* Two tasks, two upsets from outside, one conflicting feature.
SPECIFICATION FairSpec
CONSTANTS
    Tasks = {t1, t2}
    Sids = {a, b, c}
    NoSid = NoSid
    Features = {"parental_control"}
    NoReply = NoReply
    MaxUpsets = 2
    Codes <- MCCodes
    NonNumber = NonNumber
INVARIANTS
    TypeOK
    LoginsReplaceEndedSessions
PROPERTIES
    OutcomeTellsEffect
    ConflictsAreExplained
    CallsComeToAnEnd
