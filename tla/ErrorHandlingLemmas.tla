------------------------- MODULE ErrorHandlingLemmas -------------------------
(***************************************************************************)
(* What raise_for_status and its helpers return, for every response.       *)
(***************************************************************************)
EXTENDS ErrorHandling, TLAPS

\* A result object yields its value or one of the two router-reported errors;
\* anything else than an object is returned as it is.
LEMMA ResultOutcome ==
    ASSUME NEW result \in Results
    PROVE  \/ RaiseForResult(result) = Return(result.value) /\ result.value \in Values
           \/ RaiseForResult(result) = Raise("FeatureConflictError")
           \/ RaiseForResult(result) = Raise("NonZeroResponse")
  BY DEF Results, RaiseForResult, Values

\* A code is an integer or the one thing that is none.
LEMMA CodeIsNumberOrNot ==
    ASSUME NEW code \in Codes \cup {0, NonNumber}
    PROVE  code \in Int \/ code = NonNumber
  <1>1. code \in Codes \/ code = 0 \/ code = NonNumber
    OBVIOUS
  <1>2. Codes \subseteq Int
    BY CodesAssumption
  <1>3. 0 \in Int
    OBVIOUS
  <1> QED
    BY <1>1, <1>2, <1>3, Zenon

\* A code that is not a number fails at the comparison with 0.
LEMMA NonNumberOutcome ==
    ASSUME NEW error, error.code = NonNumber
    PROVE  RaiseForCode(error) = Raise("TypeError")
  <1>1. error.code \notin Int
    BY CodesAssumption
  <1>2. error.code # -1 /\ error.code # -32000
    BY <1>1
  <1> QED
    BY <1>1, <1>2 DEF RaiseForCode

\* The error classes by code, and the value a non-negative code yields.
LEMMA CodeOutcome ==
    ASSUME NEW error \in [shape: {"object"}, code: Codes \cup {0, NonNumber},
                          message: Messages]
    PROVE  \/ RaiseForCode(error) = Return("envelope")
           \/ \E e \in NonZeroResponses : RaiseForCode(error) = Raise(e)
           \/ /\ error.code = NonNumber \/ error.message = "not_text"
              /\ \E e \in Builtins : RaiseForCode(error) = Raise(e)
  <1>1. error.code \in Int \/ error.code = NonNumber
    BY CodeIsNumberOrNot
  <1>2. CASE error.code = NonNumber
    BY <1>2, NonNumberOutcome DEF Builtins
  <1>3. CASE error.code \in Int
    <2>1. error.code # NonNumber
      BY <1>3, CodesAssumption
    <2> QED
      BY <1>3, <2>1 DEF RaiseForCode, NonZeroResponses, AuthenticationErrors, Builtins
  <1> QED
    BY <1>1, <1>2, <1>3

\* The envelope step returns an outcome, for every body that was parsed.
LEMMA EnvelopeOutcome ==
    ASSUME NEW body \in Bodies, body.kind \notin Unparsed
    PROVE  RaiseForEnvelope(body) \in Outcomes
  <1>1. CASE body.kind \in {"scalar", "keyless", "keyed"}
    BY <1>1 DEF RaiseForEnvelope, Outcomes, Raise, Exceptions, APIClientErrors, Builtins
  <1>2. CASE body.kind \in {"result", "both"}
    <2>1. body.result \in Results
      BY <1>2 DEF Bodies, Unparsed
    <2>2. RaiseForEnvelope(body) = RaiseForResult(body.result)
      BY <1>2 DEF RaiseForEnvelope
    <2> QED
      BY <2>1, <2>2, ResultOutcome
      DEF Outcomes, Return, Raise, Exceptions, APIClientErrors, NonZeroResponses
  <1>3. CASE body.kind = "error"
    <2>1. body.error \in Errors
      BY <1>3 DEF Bodies, Unparsed
    <2>2. RaiseForEnvelope(body) = RaiseForError(body.error)
      BY <1>3 DEF RaiseForEnvelope
    <2>3. CASE body.error.shape \in {"scalar", "wordy"}
      BY <2>2, <2>3
      DEF RaiseForError, Outcomes, Raise, Exceptions, Builtins
    <2>4. CASE body.error.shape = "object"
      <3>1. body.error \in [shape: {"object"}, code: Codes \cup {0, NonNumber},
                            message: Messages]
        BY <2>1, <2>4 DEF Errors
      <3>2. RaiseForError(body.error) = RaiseForCode(body.error)
        BY <2>4 DEF RaiseForError
      <3> QED
        BY <2>2, <3>1, <3>2, CodeOutcome
        DEF Outcomes, Return, Raise, Values, Exceptions, APIClientErrors
    <2> QED
      BY <2>1, <2>3, <2>4 DEF Errors
  <1> QED
    BY <1>1, <1>2, <1>3 DEF Bodies

\* raise_for_status returns a value or raises one of the known exceptions.
LEMMA StatusOutcome ==
    ASSUME NEW response \in Responses
    PROVE  raise_for_status(response) \in Outcomes
  <1>1. response.body \in Bodies
    BY DEF Responses
  <1>2. CASE response.body.kind \in Unparsed
    BY <1>2 DEF raise_for_status, RaiseForRead, Unparsed, Outcomes, Raise,
                Exceptions, APIClientErrors, ReadErrors
  <1>3. CASE response.body.kind \notin Unparsed /\ ~response.ok
    BY <1>3 DEF raise_for_status, Outcomes, Raise, Exceptions, APIClientErrors
  <1>4. CASE response.body.kind \notin Unparsed /\ response.ok
    BY <1>1, <1>4, EnvelopeOutcome DEF raise_for_status
  <1> QED
    BY <1>2, <1>3, <1>4

\* Whatever is raised for a well-formed response belongs to the hierarchy.
LEMMA WellFormedOutcome ==
    ASSUME NEW response \in Responses, WellFormed(response),
           raise_for_status(response).kind = "raise"
    PROVE  raise_for_status(response).is \in APIClientErrors
  <1> DEFINE body == response.body
  <1>1. body \in Bodies
    BY DEF Responses
  <1>2. CASE body.kind = "not_json"
    BY <1>2 DEF raise_for_status, RaiseForRead, Unparsed, Raise, APIClientErrors
  <1>3. CASE body.kind # "not_json"
    <2>1. body.kind \in {"keyless", "result", "error"}
      BY <1>3 DEF WellFormed
    <2>2. CASE ~response.ok
      BY <2>1, <2>2 DEF raise_for_status, Unparsed, Raise, APIClientErrors
    <2>3. CASE response.ok /\ body.kind = "keyless"
      BY <2>3 DEF raise_for_status, RaiseForEnvelope, Unparsed, Raise, APIClientErrors
    <2>4. CASE response.ok /\ body.kind = "result"
      <3>1. body.result \in Results
        BY <1>1, <2>4 DEF Bodies, Unparsed
      <3>2. raise_for_status(response) = RaiseForResult(body.result)
        BY <2>4 DEF raise_for_status, RaiseForEnvelope, Unparsed
      <3> QED
        BY <3>1, <3>2, ResultOutcome DEF Return, Raise, APIClientErrors, NonZeroResponses
    <2>5. CASE response.ok /\ body.kind = "error"
      <3>1. /\ body.error \in Errors
            /\ body.error.shape = "object"
            /\ body.error.code # NonNumber
            /\ body.error.message # "not_text"
        BY <1>1, <2>5 DEF Bodies, Unparsed, WellFormed
      <3>2. raise_for_status(response) = RaiseForCode(body.error)
        BY <2>5, <3>1 DEF raise_for_status, RaiseForEnvelope, RaiseForError, Unparsed
      <3>3. body.error \in [shape: {"object"}, code: Codes \cup {0, NonNumber},
                            message: Messages]
        BY <3>1 DEF Errors
      <3> QED
        BY <3>1, <3>2, <3>3, CodeOutcome DEF Return, Raise, APIClientErrors
    <2> QED
      BY <2>1, <2>2, <2>3, <2>4, <2>5
  <1> QED
    BY <1>2, <1>3

\* What such a response yields as a value is an object: a result or the envelope.
LEMMA WellFormedValue ==
    ASSUME NEW response \in Responses, WellFormed(response),
           response.body.kind = "result" => response.body.result.value \in DictValues,
           raise_for_status(response).kind = "return"
    PROVE  raise_for_status(response).is \in DictValues \cup {"envelope"}
  <1> DEFINE body == response.body
  <1>1. body \in Bodies
    BY DEF Responses
  <1>2. body.kind \in {"result", "error"} /\ response.ok
    BY DEF WellFormed, raise_for_status, RaiseForRead, RaiseForEnvelope, Unparsed, Raise
  <1>3. CASE body.kind = "result"
    <2>1. body.result \in Results
      BY <1>1, <1>3 DEF Bodies, Unparsed
    <2>2. raise_for_status(response) = RaiseForResult(body.result)
      BY <1>2, <1>3 DEF raise_for_status, RaiseForEnvelope, Unparsed
    <2> QED
      BY <1>3, <2>1, <2>2, ResultOutcome DEF Return, Raise
  <1>4. CASE body.kind = "error"
    <2>1. /\ body.error \in Errors
          /\ body.error.shape = "object"
      BY <1>1, <1>4 DEF Bodies, Unparsed, WellFormed
    <2>2. raise_for_status(response) = RaiseForCode(body.error)
      BY <1>2, <1>4, <2>1 DEF raise_for_status, RaiseForEnvelope, RaiseForError, Unparsed
    <2>3. body.error \in [shape: {"object"}, code: Codes \cup {0, NonNumber},
                          message: Messages]
      BY <2>1 DEF Errors
    <2> QED
      BY <2>2, <2>3, CodeOutcome DEF Return, Raise
  <1> QED
    BY <1>2, <1>3, <1>4
=============================================================================
