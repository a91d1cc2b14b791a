SPECIFICATION Spec
CHECK_DEADLOCK FALSE
CONSTANTS
    Codes <- MCCodes
    NonNumber = NonNumber
INVARIANT
    EveryFailureIsAnAPIClientError
