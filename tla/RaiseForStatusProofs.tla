------------------------ MODULE RaiseForStatusProofs -------------------------
(***************************************************************************)
(* The properties of raise_for_status for every response and every set of  *)
(* error codes a router may use.                                           *)
(***************************************************************************)
EXTENDS RaiseForStatus, ErrorHandlingLemmas

\* The strengthening every proof here starts from: the outcome is what
\* raise_for_status makes of the response, once it is there.
Shaped ==
    /\ response \in Responses
    /\ outcome \in {Pending, raise_for_status(response)}

LEMMA ShapedInvariant == Spec => []Shaped
  <1>1. Init => Shaped
    BY DEF Init, Shaped
  <1>2. Shaped /\ [Shape]_vars => Shaped'
    BY DEF Shaped, Shape, vars
  <1> QED
    BY <1>1, <1>2, PTL DEF Spec

\* Every response yields a value the callers know or a known exception.
THEOREM TypeCorrect == Spec => []TypeOK
  <1>1. Shaped => TypeOK
    BY StatusOutcome DEF Shaped, TypeOK
  <1> QED
    BY <1>1, ShapedInvariant, PTL

\* Every failure of a reply that keeps to the JSON-RPC envelope is an
\* APIClientError, for any codes.
THEOREM WellFormedInHierarchy == Spec => []WellFormedRepliesStayInTheHierarchy
  <1>1. Shaped => WellFormedRepliesStayInTheHierarchy
    <2> SUFFICES ASSUME Shaped, WellFormed(response), outcome.kind = "raise"
                 PROVE  outcome.is \in APIClientErrors
      BY DEF WellFormedRepliesStayInTheHierarchy
    <2>1. outcome # Pending
      BY DEF Pending
    <2>2. outcome = raise_for_status(response) /\ response \in Responses
      BY <2>1 DEF Shaped
    <2> QED
      BY <2>2, WellFormedOutcome
  <1> QED
    BY <1>1, ShapedInvariant, PTL

\* The four shapes a response can have for the code, and what each leads to.
LEMMA StatusCases ==
    ASSUME NEW r \in Responses
    PROVE  \/ /\ r.body.kind \in Unparsed \/ ~r.ok
                 \/ r.body.kind \in {"scalar", "keyless", "keyed"}
              /\ \E e \in {"UnsuccessfulRequest", "UnexpectedResponse", "TypeError"}
                            \cup ReadErrors : raise_for_status(r) = Raise(e)
           \/ /\ r.ok /\ r.body.kind \in {"result", "both"} /\ r.body.result \in Results
              /\ raise_for_status(r) = RaiseForResult(r.body.result)
           \/ /\ r.ok /\ r.body.kind = "error" /\ r.body.error.shape # "object"
              /\ \E e \in Builtins : raise_for_status(r) = Raise(e)
           \/ /\ r.ok /\ r.body.kind = "error" /\ r.body.error.shape = "object"
              /\ r.body.error \in [shape: {"object"}, code: Codes \cup {0, NonNumber},
                                   message: Messages]
              /\ raise_for_status(r) = RaiseForCode(r.body.error)
  <1>1. r.body \in Bodies
    BY DEF Responses
  <1>2. CASE r.body.kind \in Unparsed
    BY <1>2 DEF raise_for_status, RaiseForRead, Unparsed, ReadErrors
  <1>3. CASE r.body.kind \notin Unparsed /\ ~r.ok
    BY <1>3 DEF raise_for_status
  <1>4. CASE r.ok /\ r.body.kind \in {"scalar", "keyless", "keyed"}
    BY <1>4 DEF raise_for_status, RaiseForEnvelope, Unparsed
  <1>5. CASE r.ok /\ r.body.kind \in {"result", "both"}
    <2>1. r.body.result \in Results
      BY <1>1, <1>5 DEF Bodies, Unparsed
    <2> QED
      BY <1>5, <2>1 DEF raise_for_status, RaiseForEnvelope, Unparsed
  <1>6. CASE r.ok /\ r.body.kind = "error"
    <2>1. r.body.error \in Errors
      BY <1>1, <1>6 DEF Bodies, Unparsed
    <2>2. raise_for_status(r) = RaiseForError(r.body.error)
      BY <1>6 DEF raise_for_status, RaiseForEnvelope, Unparsed
    <2>3. CASE r.body.error.shape = "object"
      BY <1>6, <2>1, <2>2, <2>3 DEF Errors, RaiseForError
    <2>4. CASE r.body.error.shape # "object"
      BY <1>6, <2>1, <2>2, <2>4 DEF Errors, RaiseForError, Builtins
    <2> QED
      BY <2>3, <2>4
  <1> QED
    BY <1>1, <1>2, <1>3, <1>4, <1>5, <1>6 DEF Bodies

\* Which codes lead to which authentication error, and to a value.
LEMMA CodeMeaning ==
    ASSUME NEW error \in [shape: {"object"}, code: Codes \cup {0, NonNumber},
                          message: Messages]
    PROVE  /\ RaiseForCode(error).kind = "raise"
                 /\ RaiseForCode(error).is \in AuthenticationErrors
                 => error.code \in {-1, -32000}
           /\ error.code = -1 /\ error.message = "conflict"
                 => RaiseForCode(error) = Raise("FeatureConflictError")
           /\ RaiseForCode(error).kind = "return"
                 => /\ RaiseForCode(error) = Return("envelope")
                    /\ error.code \in Codes \cup {0}
                    /\ error.code >= 0
  <1>1. error.code \in Int \/ error.code = NonNumber
    BY CodeIsNumberOrNot
  <1>2. CASE error.code = NonNumber
    <2>1. error.code # -1 /\ error.code # -32000
      BY <1>2, CodesAssumption
    <2> QED
      BY <1>2, <2>1, NonNumberOutcome DEF Raise, AuthenticationErrors
  <1>3. CASE error.code \in Int
    <2>1. error.code # NonNumber
      BY <1>3, CodesAssumption
    <2>2. error.code \in Codes \cup {0}
      BY <2>1
    <2> QED
      BY <1>3, <2>1, <2>2
      DEF RaiseForCode, IsFeatureConflict, Raise, Return, AuthenticationErrors
  <1> QED
    BY <1>1, <1>2, <1>3

\* A login can repair what an authentication error reports, and a feature
\* conflict is never taken for one, for any codes.
THEOREM AuthFailures == Spec => []AuthFailuresAreTheRouters
  <1>1. Shaped => AuthFailuresAreTheRouters
    <2> SUFFICES ASSUME Shaped, outcome # Pending
                 PROVE  AuthFailuresAreTheRouters
      BY DEF AuthFailuresAreTheRouters, Raised, Done
    <2>1. response \in Responses /\ outcome = raise_for_status(response)
      BY DEF Shaped
    <2>2. Raised(AuthenticationErrors) => Reported(-1) \/ Reported(-32000)
      BY <2>1, StatusCases, ResultOutcome, CodeMeaning
      DEF Raised, Done, Reported, ErrorMember, AuthenticationErrors, Raise, Return, Builtins,
          ReadErrors
    <2>3. ASSUME Reported(-1), response.body.error.message = "conflict"
          PROVE  Raised({"FeatureConflictError"})
      BY <2>1, <2>3, StatusCases, CodeMeaning
      DEF Raised, Done, Reported, ErrorMember, Raise, Unparsed
    <2>4. ASSUME Complains, response.body.result.conflict
          PROVE  Raised({"FeatureConflictError"})
      <3>1. raise_for_status(response) = Raise("FeatureConflictError")
        BY <2>4 DEF Complains, raise_for_status, RaiseForEnvelope, RaiseForResult, Unparsed
      <3> QED
        BY <2>1, <3>1 DEF Raised, Done, Raise
    <2> QED
      BY <2>2, <2>3, <2>4 DEF AuthFailuresAreTheRouters, SaysConflict
  <1> QED
    BY <1>1, ShapedInvariant, PTL

\* A value comes from a 2xx reply without a body-level err_code, and a negative code of
\* the error member is passed over only where a result stands beside it, for any codes.
THEOREM NoErrorPassesForData == Spec => []ErrorsNeverPassForData
  <1>1. Shaped => ErrorsNeverPassForData
    <2> SUFFICES ASSUME Shaped, Returned(Values)
                 PROVE  ErrorsNeverPassForData
      BY DEF ErrorsNeverPassForData
    <2>1. /\ response \in Responses
          /\ outcome = raise_for_status(response)
          /\ outcome.kind = "return"
      BY DEF Shaped, Returned, Done
    <2>2. CASE response.ok /\ response.body.kind \in {"result", "both"}
      <3>1. raise_for_status(response) = RaiseForResult(response.body.result)
        BY <2>2 DEF raise_for_status, RaiseForEnvelope, Unparsed
      <3>2. ~ Complains
        BY <2>1, <3>1 DEF Complains, RaiseForResult, Raise
      <3>3. response.body.kind # "error"
        BY <2>2
      <3> QED
        BY <2>2, <3>2, <3>3 DEF ErrorsNeverPassForData, ErrorMember
    <2>3. CASE ~(response.ok /\ response.body.kind \in {"result", "both"})
      <3>1. /\ response.ok /\ response.body.kind = "error"
            /\ response.body.error.shape = "object"
            /\ response.body.error \in [shape: {"object"},
                  code: Codes \cup {0, NonNumber}, message: Messages]
            /\ raise_for_status(response) = RaiseForCode(response.body.error)
        BY <2>1, <2>3, StatusCases DEF Raise
      <3>2. /\ response.body.error.code \in Codes \cup {0}
            /\ response.body.error.code >= 0
        BY <2>1, <3>1, CodeMeaning
      <3>3. ASSUME NEW c \in Codes, c < 0, ErrorMember(c)
            PROVE  FALSE
        <4>1. response.body.error.code = c
          BY <3>3 DEF ErrorMember
        <4>2. c \in Int
          BY CodesAssumption
        <4> QED
          BY <3>2, <3>3, <4>1, <4>2
      <3>4. ~ Complains
        BY <3>1 DEF Complains
      <3> QED
        BY <3>1, <3>3, <3>4 DEF ErrorsNeverPassForData
    <2> QED
      BY <2>2, <2>3
  <1> QED
    BY <1>1, ShapedInvariant, PTL

-----------------------------------------------------------------------------
(* Read backwards: what an outcome says about the response. *)

\* The code in the error object decides, and its message if the code is -1.
LEMMA CodeTable ==
    ASSUME NEW error \in [shape: {"object"}, code: Codes \cup {0, NonNumber},
                          message: Messages]
    PROVE  \/ error.code = NonNumber /\ RaiseForCode(error) = Raise("TypeError")
           \/ error.code = -1 /\ error.message = "not_text"
                /\ RaiseForCode(error) = Raise("AttributeError")
           \/ error.code = -1 /\ error.message = "conflict"
                /\ RaiseForCode(error) = Raise("FeatureConflictError")
           \/ error.code = -1 /\ error.message \in {"absent", "plain"}
                /\ RaiseForCode(error) = Raise("TokenError")
           \/ error.code = -32000 /\ RaiseForCode(error) = Raise("AuthenticationError")
           \/ /\ error.code \in Int \ {-1, -32000} /\ error.code < 0
              /\ RaiseForCode(error) = Raise("NonZeroResponse")
           \/ /\ error.code \in Int /\ error.code >= 0
              /\ RaiseForCode(error) = Return("envelope")
  <1>1. error.code \in Int \/ error.code = NonNumber
    BY CodeIsNumberOrNot
  <1>2. CASE error.code = NonNumber
    BY <1>2, NonNumberOutcome
  <1>3. CASE error.code \in Int
    <2>1. error.code # NonNumber
      BY <1>3, CodesAssumption
    <2>2. CASE error.code = -1
      BY <2>1, <2>2 DEF RaiseForCode, IsFeatureConflict, Messages
    <2>3. CASE error.code # -1
      BY <1>3, <2>1, <2>3 DEF RaiseForCode
    <2> QED
      BY <2>2, <2>3
  <1> QED
    BY <1>1, <1>2, <1>3

\* A response the code can be surprised by: the second reading of its body fails, or
\* `in`, `<` or `.lower` meet a value they cannot work on.
Surprises ==
    \/ response.body.kind \in {"undecodable", "read_timeout", "read_broken"}
    \/ response.ok /\ response.body.kind \in {"scalar", "keyed"}
    \/ /\ response.ok /\ response.body.kind = "error"
       /\ response.body.error.shape \in {"scalar", "wordy"}
    \/ Reported(NonNumber)
    \/ Reported(-1) /\ response.body.error.message = "not_text"

\* Each exception, and what the router has sent exactly when it is raised.
ExceptionsTell ==
    /\ Raised({"FeatureConflictError"}) <=> SaysConflict
    /\ Raised({"TokenError"}) <=>
          Reported(-1) /\ response.body.error.message \in {"absent", "plain"}
    /\ Raised({"AuthenticationError"}) <=> Reported(-32000)
    /\ Raised({"NonZeroResponse"}) <=>
          \/ Complains /\ ~ response.body.result.conflict
          \/ \E c \in Codes : c < 0 /\ c \notin {-1, -32000} /\ Reported(c)
    /\ Raised({"UnexpectedResponse"}) <=> response.ok /\ response.body.kind = "keyless"
    /\ Raised({"UnsuccessfulRequest"}) <=>
          \/ response.body.kind = "not_json"
          \/ ~ response.ok /\ response.body.kind \notin Unparsed

SurprisesEscape == Raised(ReadErrors \cup Builtins) <=> Surprises

\* The response by its class, and the outcome of each, all of them different.
LEMMA OutcomeTable ==
    ASSUME NEW r \in Responses
    PROVE  \/ /\ r.body.kind \in Unparsed
              /\ raise_for_status(r) = RaiseForRead(r.body.kind)
           \/ /\ r.body.kind \notin Unparsed /\ ~ r.ok
              /\ raise_for_status(r) = Raise("UnsuccessfulRequest")
           \/ /\ r.ok /\ r.body.kind \in {"scalar", "keyed"}
              /\ raise_for_status(r) = Raise("TypeError")
           \/ /\ r.ok /\ r.body.kind = "keyless"
              /\ raise_for_status(r) = Raise("UnexpectedResponse")
           \/ /\ r.ok /\ r.body.kind \in {"result", "both"} /\ r.body.result \in Results
              /\ raise_for_status(r) = RaiseForResult(r.body.result)
           \/ /\ r.ok /\ r.body.kind = "error" /\ r.body.error.shape = "scalar"
              /\ raise_for_status(r) = Raise("TypeError")
           \/ /\ r.ok /\ r.body.kind = "error" /\ r.body.error.shape = "wordy"
              /\ raise_for_status(r) = Raise("AttributeError")
           \/ /\ r.ok /\ r.body.kind = "error" /\ r.body.error.shape = "object"
              /\ r.body.error \in [shape: {"object"}, code: Codes \cup {0, NonNumber},
                                   message: Messages]
              /\ raise_for_status(r) = RaiseForCode(r.body.error)
  <1>1. r.body \in Bodies /\ r.ok \in BOOLEAN
    BY DEF Responses
  <1>2. CASE r.body.kind \in Unparsed
    BY <1>2 DEF raise_for_status
  <1>3. CASE r.body.kind \notin Unparsed /\ ~r.ok
    BY <1>3 DEF raise_for_status
  <1>4. CASE r.ok /\ r.body.kind \in {"scalar", "keyless", "keyed"}
    BY <1>4 DEF raise_for_status, RaiseForEnvelope, Unparsed
  <1>5. CASE r.ok /\ r.body.kind \in {"result", "both"}
    <2>1. r.body.result \in Results
      BY <1>1, <1>5 DEF Bodies, Unparsed
    <2> QED
      BY <1>5, <2>1 DEF raise_for_status, RaiseForEnvelope, Unparsed
  <1>6. CASE r.ok /\ r.body.kind = "error"
    <2>1. r.body.error \in Errors
      BY <1>1, <1>6 DEF Bodies, Unparsed
    <2>2. raise_for_status(r) = RaiseForError(r.body.error)
      BY <1>6 DEF raise_for_status, RaiseForEnvelope, Unparsed
    <2> QED
      BY <1>6, <2>1, <2>2 DEF Errors, RaiseForError
  <1> QED
    BY <1>1, <1>2, <1>3, <1>4, <1>5, <1>6 DEF Bodies

\* What is raised tells what the router has sent, exactly: no two of its answers
\* that call for different reactions of the caller share an exception, and none is
\* raised without its cause, for any codes (error_handling.py:29-57, 80-152).
THEOREM ExceptionsTellTheResponse == Spec => [](Done => ExceptionsTell)
  <1>1. Shaped => (Done => ExceptionsTell)
    <2> SUFFICES ASSUME response \in Responses, outcome = raise_for_status(response), Done
                 PROVE  ExceptionsTell
      BY DEF Shaped, Done
    <2> USE DEF ExceptionsTell, Raised
    <2>1. CASE response.body.kind \in Unparsed \/ ~ response.ok
      BY <2>1, OutcomeTable
      DEF RaiseForRead, Unparsed, Raise, Reported, ErrorMember, SaysConflict, Complains
    <2>2. CASE response.ok /\ response.body.kind \in {"scalar", "keyed", "keyless"}
      BY <2>2, OutcomeTable DEF Unparsed, Raise, Reported, ErrorMember, SaysConflict, Complains
    <2>3. CASE response.ok /\ response.body.kind \in {"result", "both"}
      <3>1. outcome = RaiseForResult(response.body.result)
        BY <2>3, OutcomeTable DEF Unparsed
      <3> QED
        BY <2>3, <3>1
        DEF RaiseForResult, Unparsed, Raise, Return, Reported, ErrorMember, SaysConflict, Complains
    <2>4. CASE response.ok /\ response.body.kind = "error"
                /\ response.body.error.shape # "object"
      BY <2>4, OutcomeTable DEF Unparsed, Raise, Reported, ErrorMember, SaysConflict, Complains
    <2>5. CASE response.ok /\ response.body.kind = "error"
                /\ response.body.error.shape = "object"
      <3> DEFINE error == response.body.error
      <3>1. /\ error \in [shape: {"object"}, code: Codes \cup {0, NonNumber},
                          message: Messages]
            /\ outcome = RaiseForCode(error)
        BY <2>5, OutcomeTable DEF Unparsed
      <3>2. /\ \A c : Reported(c) <=> error.code = c
            /\ ~ Complains
            /\ SaysConflict <=> error.code = -1 /\ error.message = "conflict"
            /\ response.body.kind \notin Unparsed \cup {"keyless", "not_json"}
        BY <2>5 DEF Reported, ErrorMember, Complains, SaysConflict, Unparsed
      <3>3. error.code \in Int \ {NonNumber} /\ error.code # 0 => error.code \in Codes
        BY <3>1
      <3>4. NonNumber # -1 /\ NonNumber # -32000 /\ NonNumber \notin Int
        BY CodesAssumption
      <3>5. \A c \in Codes : c \in Int
        BY CodesAssumption
      <3>6. CASE error.code = NonNumber
        <4>1. outcome = Raise("TypeError")
          BY <3>1, <3>6, NonNumberOutcome
        <4> QED
          BY <2>5, <3>2, <3>4, <3>5, <3>6, <4>1 DEF Raise
      <3>7. CASE error.code = -1
        <4>1. \/ error.message = "not_text" /\ outcome = Raise("AttributeError")
              \/ error.message = "conflict" /\ outcome = Raise("FeatureConflictError")
              \/ error.message \in {"absent", "plain"} /\ outcome = Raise("TokenError")
          BY <3>1, <3>4, <3>7, CodeTable
        <4> QED
          BY <2>5, <3>2, <3>4, <3>7, <4>1 DEF Raise
      <3>8. CASE error.code = -32000
        <4>1. outcome = Raise("AuthenticationError")
          BY <3>1, <3>4, <3>8, CodeTable
        <4> QED
          BY <2>5, <3>2, <3>4, <3>8, <4>1 DEF Raise
      <3>9. CASE error.code \in Int \ {-1, -32000}
        <4>1. error.code # NonNumber
          BY <3>4, <3>9
        <4>2. CASE error.code < 0
          <5>1. outcome = Raise("NonZeroResponse") /\ error.code \in Codes
            BY <3>1, <3>3, <3>9, <4>1, <4>2, CodeTable
          <5> QED
            BY <2>5, <3>2, <3>9, <4>2, <5>1 DEF Raise
        <4>3. CASE error.code >= 0
          <5>1. outcome = Return("envelope")
            BY <3>1, <3>9, <4>1, <4>3, CodeTable
          <5>2. ~ \E c \in Codes : c < 0 /\ c = error.code
            BY <3>9, <4>3
          <5> QED
            BY <2>5, <3>2, <3>9, <5>1, <5>2 DEF Return
        <4> QED
          BY <3>9, <4>2, <4>3
      <3> QED
        BY <3>1, <3>6, <3>7, <3>8, <3>9, CodeTable
    <2> QED
      BY <2>1, <2>2, <2>3, <2>4, <2>5, OutcomeTable
  <1> QED
    BY <1>1, ShapedInvariant, PTL

\* "Every failure path raises an APIClientError subclass" (error_handling.py:96)
\* fails for these responses and for no others.
THEOREM OnlySurprisesEscape == Spec => [](Done => SurprisesEscape)
  <1>1. Shaped => (Done => SurprisesEscape)
    <2> SUFFICES ASSUME response \in Responses, outcome = raise_for_status(response), Done
                 PROVE  SurprisesEscape
      BY DEF Shaped, Done
    <2> USE DEF SurprisesEscape, Raised, Surprises
    <2>0. NonNumber # -1 /\ NonNumber \notin Int
      BY CodesAssumption
    <2>1. CASE response.body.kind \in Unparsed \/ ~ response.ok
      BY <2>1, OutcomeTable
      DEF RaiseForRead, Unparsed, Raise, Reported, ErrorMember, ReadErrors, Builtins
    <2>2. CASE response.ok /\ response.body.kind \in {"scalar", "keyed", "keyless"}
      BY <2>2, OutcomeTable DEF Unparsed, Raise, Reported, ErrorMember, ReadErrors, Builtins
    <2>3. CASE response.ok /\ response.body.kind \in {"result", "both"}
      <3>1. outcome = RaiseForResult(response.body.result)
        BY <2>3, OutcomeTable DEF Unparsed
      <3> QED
        BY <2>3, <3>1
        DEF RaiseForResult, Unparsed, Raise, Return, Reported, ErrorMember, ReadErrors, Builtins
    <2>4. CASE response.ok /\ response.body.kind = "error"
                /\ response.body.error.shape # "object"
      BY <2>4, OutcomeTable DEF Unparsed, Raise, Reported, ErrorMember, ReadErrors, Builtins
    <2>5. CASE response.ok /\ response.body.kind = "error"
                /\ response.body.error.shape = "object"
      <3>1. /\ response.body.error \in [shape: {"object"}, code: Codes \cup {0, NonNumber},
                                        message: Messages]
            /\ outcome = RaiseForCode(response.body.error)
        BY <2>5, OutcomeTable DEF Unparsed
      <3>2. \A c : Reported(c) <=> response.body.error.code = c
        BY <2>5 DEF Reported, ErrorMember
      <3> QED
        BY <2>0, <2>5, <3>1, <3>2, CodeTable
        DEF Unparsed, Raise, Return, ReadErrors, Builtins
    <2> QED
      BY <2>1, <2>2, <2>3, <2>4, <2>5, OutcomeTable
  <1> QED
    BY <1>1, ShapedInvariant, PTL
=============================================================================
