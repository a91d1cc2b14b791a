---------------------------- MODULE ErrorHandling ----------------------------
(***************************************************************************)
(* glinet4/error_handling.py: how one HTTP response of the router becomes  *)
(* a value or an exception.  raise_for_status is a pure function of the    *)
(* response once its body is read, so it is an operator here; Transport    *)
(* applies it to every response it receives.                               *)
(*                                                                         *)
(* A response is abstracted to what the branches of the code tell apart:   *)
(* whether the status is 2xx, and the class of its body.                   *)
(***************************************************************************)
EXTENDS Integers

CONSTANTS
    Codes,      \* the JSON-RPC and body-level error codes a router may send
    NonNumber   \* stands for a "code" member that is not a number (None, "x")

ASSUME CodesAssumption == Codes \subseteq Int /\ NonNumber \notin Int

-----------------------------------------------------------------------------
(* The exception classes.  The builtins are those a body can provoke.      *)

AuthenticationErrors == {"AuthenticationError", "TokenError"}

NonZeroResponses ==
    {"NonZeroResponse", "FeatureConflictError"} \cup AuthenticationErrors

APIClientErrors ==
    {"UnsuccessfulRequest", "UnexpectedResponse", "RetryExhausted"}
        \cup NonZeroResponses

\* What reading the body can raise on its own: the response's timeout, a broken
\* connection (an aiohttp.ClientError), undecodable bytes (a ValueError).
ReadErrors == {"TimeoutError", "ClientError", "ValueError"}

Builtins == {"TypeError", "AttributeError"}

Exceptions == APIClientErrors \cup ReadErrors \cup Builtins

-----------------------------------------------------------------------------
(* Responses. *)

\* The "result" member, by what the callers in the transport look for in it:
\* a challenge (alg, salt, nonce), a "sid", a "sid" that is null, some other keys,
\* no key at all.
DictValues == {"challenge", "sid", "null_sid", "other", "empty"}
PlainValues == {"null", "list", "empty_list"}

\* err_code 0 stands for an absent one too: result.get("err_code", 0).
Results ==
    [value: DictValues, err_code: Codes \cup {0}, conflict: BOOLEAN]
        \cup [value: PlainValues]

\* The "error" member: an object; something `in` cannot search or that cannot
\* be assigned into (None, a number, a string); a string or a list in which
\* "message" is found.  Code 0 stands for an absent one too.
Messages == {"absent", "plain", "conflict", "not_text"}
Errors ==
    [shape: {"object"}, code: Codes \cup {0, NonNumber}, message: Messages]
        \cup [shape: {"scalar", "wordy"}]

\* The body: one that cannot be read or parsed; a JSON value that is not an
\* object and in which `in` fails ("scalar": null, a number), finds neither
\* word ("keyless": a list, a string, or an object without the two members) or
\* finds one ("keyed": ["result"]); an object with "result", with "error" or with
\* both of them.
Unparsed == {"not_json", "undecodable", "read_timeout", "read_broken"}
Bodies ==
    [kind: Unparsed \cup {"scalar", "keyless", "keyed"}]
        \cup [kind: {"result"}, result: Results]
        \cup [kind: {"error"}, error: Errors]
        \cup [kind: {"both"}, result: Results, error: Errors]

Responses == [ok: BOOLEAN, body: Bodies]

\* A router that answers as the JSON-RPC envelope prescribes (a result or an error,
\* never both), or whose body is not JSON: what the library was written against.
WellFormed(response) ==
    LET body == response.body
    IN  CASE body.kind = "error" -> /\ body.error.shape = "object"
                                    /\ body.error.code # NonNumber
                                    /\ body.error.message # "not_text"
          [] OTHER -> body.kind \in {"not_json", "keyless", "result"}

-----------------------------------------------------------------------------
(* Outcomes. "envelope" is the whole reply, error member included. *)

Values == DictValues \cup PlainValues \cup {"envelope"}
Outcomes == [kind: {"return"}, is: Values] \cup [kind: {"raise"}, is: Exceptions]

Return(value) == [kind |-> "return", is |-> value]
Raise(exception) == [kind |-> "raise", is |-> exception]

\* Mutation: the discriminator is dropped, every -1 is an authentication failure.
NeverAConflict(message) == FALSE

IsFeatureConflict(message) == message = "conflict"

\* Mutation: the body-level err_code goes unnoticed, as if the envelope told all.
IgnoreErrCode(result) == Return(result.value)

\* A body-level err_code inside a successful envelope.
RaiseForResult(result) ==
    IF result.value \in DictValues /\ result.err_code # 0
    THEN Raise(IF result.conflict THEN "FeatureConflictError" ELSE "NonZeroResponse")
    ELSE Return(result.value)

\* A JSON-RPC error object.  A code that is not negative is no error to the code:
\* the caller gets the whole reply as its value.
RaiseForCode(error) ==
    CASE error.code = NonNumber -> Raise("TypeError")
      [] error.code = -1 ->
            IF error.message = "not_text" THEN Raise("AttributeError")
            ELSE IF IsFeatureConflict(error.message) THEN Raise("FeatureConflictError")
            ELSE Raise("TokenError")
      [] error.code = -32000 -> Raise("AuthenticationError")
      [] /\ error.code \in Int \ {-1, -32000}
         /\ error.code < 0 -> Raise("NonZeroResponse")
      [] OTHER -> Return("envelope")

RaiseForError(error) ==
    CASE error.shape = "scalar" -> Raise("TypeError")
      [] error.shape = "wordy" -> Raise("AttributeError")
      [] error.shape = "object" -> RaiseForCode(error)

\* Step 1 of the code: the body is read as JSON, and on any failure read again
\* as text; what the second reading raises is not converted.
RaiseForRead(kind) ==
    CASE kind = "not_json" -> Raise("UnsuccessfulRequest")
      [] kind = "undecodable" -> Raise("ValueError")
      [] kind = "read_timeout" -> Raise("TimeoutError")
      [] kind = "read_broken" -> Raise("ClientError")

\* Mutation: the test for a reply with neither member is missing, so that
\* indexing it raises a builtin.
AssumeErrorMember(body) ==
    CASE body.kind \in {"scalar", "keyed"} -> Raise("TypeError")
      [] body.kind = "keyless" -> Raise("KeyError")
      [] body.kind \in {"result", "both"} -> RaiseForResult(body.result)
      [] body.kind = "error" -> RaiseForError(body.error)

\* Step 2 of the code: the GL.iNet envelope.  A result is looked for first, and what
\* stands in an "error" beside it is not looked at.
RaiseForEnvelope(body) ==
    CASE body.kind \in {"scalar", "keyed"} -> Raise("TypeError")
      [] body.kind = "keyless" -> Raise("UnexpectedResponse")
      [] body.kind \in {"result", "both"} -> RaiseForResult(body.result)
      [] body.kind = "error" -> RaiseForError(body.error)

raise_for_status(response) ==
    IF response.body.kind \in Unparsed THEN RaiseForRead(response.body.kind)
    ELSE IF ~response.ok THEN Raise("UnsuccessfulRequest")
    ELSE RaiseForEnvelope(response.body)
=============================================================================
