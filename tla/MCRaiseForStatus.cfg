SPECIFICATION Spec
CHECK_DEADLOCK FALSE
CONSTANTS
    Codes <- MCCodes
    NonNumber = NonNumber
INVARIANTS
    TypeOK
    AuthFailuresAreTheRouters
    ErrorsNeverPassForData
    WellFormedRepliesStayInTheHierarchy
