\* Three tasks, three sessions, any reply, and an application that assigns sid.
SPECIFICATION Spec
CONSTANTS
    Tasks = {t1, t2, t3}
    Sessions = {s1, s2, s3}
    Sids = {a, b}
    NoSession = NoSession
    NoSid = NoSid
    Codes <- MCCodes
    NonNumber = NonNumber
    Replies <- AllReplies
    HashFailures = {"ValueError", "TypeError"}
    AppSetsSid = TRUE
SYMMETRY Symmetry
INVARIANTS
    TypeOK
    NoOrphanSession
    ClosedSessionsAreTheCallers
    ClosedInTheEnd
    NoLeakedConnection
    RawErrorsAreTranslated
PROPERTIES
    OnlySuccessChangesAuth
    OwnerSpec
