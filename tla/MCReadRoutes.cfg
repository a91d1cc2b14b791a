\* One task calling every route, two logins, one change of the router.
SPECIFICATION Spec
CONSTANTS
    Codes <- MCCodes
    NonNumber = NonNumber
    Secret = Secret
    Redacted = Redacted
    Tasks = {t1}
    RoutesCalled <- AllRoutes
    Worlds <- FourWorlds
    OddResponses <- MCOddResponses
    MaxLogins = 2
    MaxChanges = 1
INVARIANTS
    TypeOK
    ReadsReportTheRouter
    RefusedOnlyWithoutSession
PROPERTY
    GuardedReadsSurvive
