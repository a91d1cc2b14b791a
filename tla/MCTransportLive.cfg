\* A router that keeps to its envelope.
\* Liveness: no symmetry, one session to reopen.
SPECIFICATION FairSpec
CONSTANTS
    Tasks = {t1, t2}
    Sessions = {s1, s2}
    Sids = {a}
    NoSession = NoSession
    NoSid = NoSid
    Codes <- MCCodes
    NonNumber = NonNumber
    Replies <- GoodReplies
    HashFailures = {"ValueError"}
    AppSetsSid = FALSE
INVARIANT
    CallsStayInTheHierarchy
PROPERTY
    EveryCallReturns
