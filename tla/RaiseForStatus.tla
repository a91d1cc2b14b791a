---------------------------- MODULE RaiseForStatus ---------------------------
(***************************************************************************)
(* Every response raise_for_status can be given, and what it makes of it:  *)
(* the properties of glinet4/error_handling.py on its own.                 *)
(***************************************************************************)
EXTENDS ErrorHandling

VARIABLES
    response,   \* the response that was received
    outcome     \* what raise_for_status made of it, or Pending

Pending == [kind |-> "pending", is |-> "pending"]

vars == <<response, outcome>>

Init == response \in Responses /\ outcome = Pending

Shape ==
    /\ outcome = Pending
    /\ outcome' = raise_for_status(response)
    /\ UNCHANGED response

Spec == Init /\ [][Shape]_vars

-----------------------------------------------------------------------------
Done == outcome # Pending
Raised(exceptions) == Done /\ outcome.kind = "raise" /\ outcome.is \in exceptions
Returned(values) == Done /\ outcome.kind = "return" /\ outcome.is \in values

TypeOK == response \in Responses /\ outcome \in Outcomes \cup {Pending}

\* A 2xx reply with error code c in the JSON-RPC error member, whatever is beside it.
ErrorMember(c) ==
    /\ response.ok
    /\ response.body.kind \in {"error", "both"}
    /\ response.body.error.shape = "object"
    /\ response.body.error.code = c

\* The error member with code c is the reply: there is no result beside it.
Reported(c) == ErrorMember(c) /\ response.body.kind = "error"

\* A 2xx reply whose result carries a body-level err_code.
Complains ==
    /\ response.ok
    /\ response.body.kind \in {"result", "both"}
    /\ response.body.result.value \in DictValues
    /\ response.body.result.err_code # 0

\* The message that came with the failure mentions a conflict, whichever of the
\* two places of the envelope it came in.
SaysConflict ==
    \/ Reported(-1) /\ response.body.error.message = "conflict"
    \/ Complains /\ response.body.result.conflict

\* An authentication failure is something a fresh login can repair: it is raised
\* only for the two codes the router uses for it in a 2xx reply, never for a
\* body-level err_code, a lost or garbled body or a bad status, and a feature
\* conflict (which shares code -1) is never taken for one, so that a caller that
\* logs in again on AuthenticationError does not loop (error_handling.py:45-52).
AuthFailuresAreTheRouters ==
    /\ Raised(AuthenticationErrors) => Reported(-1) \/ Reported(-32000)
    /\ Done /\ SaysConflict => Raised({"FeatureConflictError"})

\* How far a value can be trusted: it is from a 2xx reply, its result carries no
\* err_code, and if the router sent a negative JSON-RPC code at all, then beside a
\* result.  The last case is the one the code lets through: it looks for a result
\* first and then never at the error (error_handling.py:116-130).
ErrorsNeverPassForData ==
    Returned(Values) =>
        /\ response.ok
        /\ ~ Complains
        /\ \A c \in Codes : c < 0 /\ ErrorMember(c) => response.body.kind = "both"

\* For every reply of a router that keeps to the JSON-RPC envelope, readable or
\* not JSON at all, with any status and any code, what is raised is of the
\* library's hierarchy: callers catch APIClientError only.
WellFormedRepliesStayInTheHierarchy ==
    WellFormed(response) /\ outcome.kind = "raise" => outcome.is \in APIClientErrors

\* error_handling.py:96 says that EVERY failure path raises an APIClientError
\* subclass.  It does not: a null body, an "error" that is not an object, a code
\* that is not a number, and what the second reading of the body raises, escape.
EveryFailureIsAnAPIClientError ==
    outcome.kind = "raise" => outcome.is \in APIClientErrors
=============================================================================
