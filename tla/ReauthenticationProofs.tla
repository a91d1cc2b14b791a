----------------------- MODULE ReauthenticationProofs ------------------------
(***************************************************************************)
(* The safety properties of re-authentication, for any number of tasks,    *)
(* session ids and conflicting features and any number of upsets.          *)
(***************************************************************************)
EXTENDS Reauthentication, ErrorHandlingLemmas, FiniteSetTheorems

VARIABLE logins     \* how often each call has logged in, see CountedSpec

\* The "none" values are none of the others, and there is a session id to hand out.
LEMMA NoneIsApart ==
    NoSid \notin Sids /\ Sids # {} /\ NoReply \notin Replies /\ MaxUpsets \in Nat
  BY ReauthenticationAssumption

(* What raise_for_status makes of the router's answers. *)

\* A result is returned.
LEMMA ResultReturns ==
    ASSUME NEW value \in {"sid", "other"}
    PROVE  raise_for_status(Result(value)) = Return(value)
  BY DEF raise_for_status, Result, Unparsed, RaiseForEnvelope, RaiseForResult

\* The two refusals of a session and of a password are told apart.
LEMMA RefusalsRaise ==
    /\ raise_for_status(NotLoggedIn) = Raise("TokenError")
    /\ raise_for_status(AccessDenied) = Raise("AuthenticationError")
  <1>1. NonNumber # -1 /\ NonNumber # -32000
    BY CodesAssumption
  <1>2. /\ raise_for_status(NotLoggedIn) = RaiseForCode([shape |-> "object", code |-> -1, message |-> "plain"])
        /\ raise_for_status(AccessDenied) = RaiseForCode([shape |-> "object", code |-> -32000, message |-> "plain"])
    BY DEF raise_for_status, NotLoggedIn, AccessDenied, Error, Unparsed, RaiseForEnvelope,
           RaiseForError
  <1> QED
    BY <1>1, <1>2 DEF RaiseForCode, IsFeatureConflict

\* A conflict is told from both, in the envelope as well as inside a result.
LEMMA ConflictRaises ==
    ASSUME NEW r \in Conflict
    PROVE  raise_for_status(r) = Raise("FeatureConflictError")
  <1>1. CASE r = Error(-1, "conflict")
    <2>1. NonNumber # -1
      BY CodesAssumption
    <2>2. raise_for_status(r) = RaiseForCode([shape |-> "object", code |-> -1, message |-> "conflict"])
      BY <1>1 DEF raise_for_status, Error, Unparsed, RaiseForEnvelope, RaiseForError
    <2> QED
      BY <2>1, <2>2 DEF RaiseForCode, IsFeatureConflict
  <1>2. CASE r # Error(-1, "conflict")
    BY <1>2 DEF Conflict, raise_for_status, Unparsed, RaiseForEnvelope, RaiseForResult, DictValues
  <1> QED
    BY <1>1, <1>2

LEMMA GarbledRaises == raise_for_status(Garbled) = Raise("UnexpectedResponse")
  BY DEF raise_for_status, Garbled, Unparsed, RaiseForEnvelope

-----------------------------------------------------------------------------
(* The inductive invariant. *)

\* An answer on its way back, by the request it answers.
Answered(t) ==
    \/ pc[t] = "login" /\ reply[t].outcome = Return("sid") /\ reply[t].sid \in Sids
    \/ pc[t] = "login" /\ reply[t].outcome = Raise("AuthenticationError")
    \/ /\ pc[t] \notin {"idle", "login"} /\ reply[t].outcome = Raise("TokenError")
       /\ sent[t] \notin live /\ took[t] = 0
    \/ pc[t] = "set" /\ reply[t].outcome = Return("other") /\ took[t] = 1
    \/ pc[t] = "set" /\ reply[t].outcome = Raise("FeatureConflictError") /\ took[t] = 0
    \/ pc[t] = "set" /\ reply[t].outcome = Raise("UnexpectedResponse")
    \/ /\ pc[t] \in {"read"} \cup Getters /\ reply[t].outcome = Return("other")
       /\ pc[t] \in Getters => blame[t] \cap Shows(pc[t]) \subseteq reply[t].shows

\* What a call has met so far, and what is known of the cause of a refusal.
TaskInv(t) ==
    /\ reply[t] # NoReply => Answered(t)
    /\ took[t] = 1 => pc[t] = "set" /\ reply[t] # NoReply
    /\ pc[t] = "login" => sent[t] \notin live
    /\ pc[t] # "idle" => out[t] = "none"
    /\ t \in conflict => pc[t] \in Getters \cup {"login"}
    /\ pc[t] \in Getters => t \in conflict
    /\ t \notin conflict => asked[t] = {} /\ shown[t] = {}
    /\ asked[t] # Getters
    /\ blame[t] \subseteq active
    /\ \A getter \in asked[t] : blame[t] \cap Shows(getter) \subseteq shown[t]

CallInv == TypeOK /\ \A t \in Tasks : TaskInv(t)

LEMMA InitInv == Init => CallInv
  <1> SUFFICES ASSUME Init PROVE CallInv
    OBVIOUS
  <1>1. (CHOOSE s \in Sids : TRUE) \in Sids
    BY NoneIsApart
  <1>2. Getters # {}
    BY DEF Getters
  <1>3. TypeOK
    BY <1>1, NoneIsApart DEF Init, TypeOK, Requests
  <1>4. ASSUME NEW t \in Tasks PROVE TaskInv(t)
    BY <1>2 DEF Init, TaskInv, Getters
  <1> QED
    BY <1>3, <1>4 DEF CallInv

\* The getter asked next is one that has not answered yet.
LEMMA NextGetterType ==
    ASSUME NEW done \in SUBSET Getters, done # Getters
    PROVE  NextGetter(done) \in Getters /\ NextGetter(done) \notin done
  BY DEF NextGetter

\* A session id the router grants is nobody's.
LEMMA GrantedIsNew ==
    ASSUME NEW new \in Unknown
    PROVE  new \in Sids /\ new \notin Known
  BY DEF Unknown

\* The end of a call leaves its task as it was before the call, but for the outcome.
LEMMA FinishInv ==
    ASSUME CallInv, NEW t \in Tasks, NEW end \in {"done"} \cup APIClientErrors,
           Finish(t, end), UNCHANGED <<sid, worldVars>>
    PROVE  CallInv'
  <1> USE DEF CallInv, TypeOK, Finish, worldVars
  <1>1. TypeOK'
    OBVIOUS
  <1>2. Getters # {}
    BY DEF Getters
  <1>3. ASSUME NEW u \in Tasks PROVE TaskInv(u)'
    <2>1. CASE u = t
      BY <1>2, <2>1 DEF TaskInv, Getters
    <2>2. CASE u # t
      BY <2>2 DEF TaskInv, Answered
    <2> QED
      BY <2>1, <2>2
  <1> QED
    BY <1>1, <1>3

\* Answering changes the reply of its task, what the task knows of it, and what the
\* router holds; a session that becomes known was nobody's.
AnswerStep(t, new, grown) ==
    /\ new \in Replies
    /\ reply' = [reply EXCEPT ![t] = new]
    /\ live' \subseteq live \cup grown /\ live' \subseteq Sids
    /\ grown \cap Known = {}
    /\ took' \in [Tasks -> 0..1] /\ blame' \in [Tasks -> SUBSET Features]
    /\ \A u \in Tasks \ {t} : took'[u] = took[u] /\ blame'[u] = blame[u]
    /\ blame'[t] \subseteq active
    /\ pc[t] # "set" => blame' = blame /\ took' = took
    /\ UNCHANGED <<sid, active, upsets, pc, sent, conflict, asked, shown, out>>

LEMMA AnswerStepInv ==
    ASSUME CallInv, NEW t \in Tasks, pc[t] # "idle", reply[t] = NoReply,
           NEW new, NEW grown, AnswerStep(t, new, grown), Answered(t)'
    PROVE  CallInv'
  <1> USE DEF CallInv
  <1>1. TypeOK'
    BY DEF TypeOK, AnswerStep
  <1>2. new # NoReply /\ reply'[t] = new
    BY NoneIsApart DEF TypeOK, AnswerStep
  <1>3. ASSUME NEW u \in Tasks PROVE sent[u] \notin live => sent[u] \notin live'
    BY NoneIsApart DEF TypeOK, Known, AnswerStep
  <1>4. TaskInv(t)'
    <2>1. pc[t] = "set" => t \notin conflict /\ asked[t] = {}
      BY DEF TaskInv, Getters
    <2>2. pc[t] # "set" => took'[t] = 0 /\ blame'[t] = blame[t]
      BY DEF TaskInv, TypeOK, AnswerStep
    <2> QED
      BY <1>2, <1>3, <2>1, <2>2 DEF TaskInv, AnswerStep
  <1>5. ASSUME NEW u \in Tasks, u # t PROVE TaskInv(u)'
    <2>1. /\ reply'[u] = reply[u] /\ took'[u] = took[u] /\ blame'[u] = blame[u]
          /\ TaskInv(u)
      BY <1>5 DEF TypeOK, AnswerStep
    <2>2. reply[u] # NoReply => Answered(u)'
      BY <1>3, <2>1 DEF TaskInv, Answered, AnswerStep
    <2> QED
      BY <1>3, <2>1, <2>2 DEF TaskInv, AnswerStep
  <1> QED
    BY <1>1, <1>4, <1>5

\* Whatever the router answers is such a step, and an answer to its request.
LEMMA AnswerIsStep ==
    ASSUME CallInv, NEW t \in Tasks, Answer(t)
    PROVE  /\ pc[t] # "idle" /\ reply[t] = NoReply
           /\ \E new, grown : AnswerStep(t, new, grown) /\ Answered(t)'
  <1>0. TypeOK /\ TaskInv(t)
    BY DEF CallInv
  <1>1. /\ pc[t] # "idle" /\ reply[t] = NoReply /\ took[t] = 0
        /\ UNCHANGED <<sid, active, upsets, pc, sent, conflict, asked, shown, out>>
    BY <1>0 DEF Answer, TaskInv, TypeOK
  <1>3. CASE pc[t] = "login" /\ AnswerLogin(t)
    <2>1. CASE \E new \in Unknown :
                 /\ reply' = [reply EXCEPT ![t] = Message(Result("sid"), new, {})]
                 /\ live' = (live \cap Known) \cup {new}
      <3>1. PICK new \in Unknown :
               /\ reply' = [reply EXCEPT ![t] = Message(Result("sid"), new, {})]
               /\ live' = (live \cap Known) \cup {new}
        BY <2>1
      <3>2. new \in Sids /\ new \notin Known
        BY <3>1, GrantedIsNew
      <3>3. Message(Result("sid"), new, {}) = [outcome |-> Return("sid"), sid |-> new, shows |-> {}]
        BY ResultReturns DEF Message
      <3>4. AnswerStep(t, Message(Result("sid"), new, {}), {new})
        BY <1>0, <1>1, <1>3, <3>1, <3>2, <3>3
        DEF AnswerStep, AnswerLogin, TypeOK, TaskInv, Replies, Outcomes, Return, Values, DictValues
      <3>5. Answered(t)'
        BY <1>0, <1>1, <1>3, <3>1, <3>2, <3>3 DEF TypeOK, Answered
      <3> QED
        BY <1>1, <3>4, <3>5
    <2>2. CASE reply' = [reply EXCEPT ![t] = Plain(AccessDenied)] /\ UNCHANGED live
      <3>1. Plain(AccessDenied) =
               [outcome |-> Raise("AuthenticationError"), sid |-> NoSid, shows |-> {}]
        BY RefusalsRaise DEF Plain, Message
      <3>2. AnswerStep(t, Plain(AccessDenied), {})
        BY <1>0, <1>1, <1>3, <2>2, <3>1
        DEF AnswerStep, AnswerLogin, TypeOK, TaskInv, Replies, Outcomes, Raise, Exceptions, APIClientErrors,
            NonZeroResponses, AuthenticationErrors
      <3>3. Answered(t)'
        BY <1>0, <1>1, <1>3, <2>2, <3>1 DEF TypeOK, Answered
      <3> QED
        BY <1>1, <3>2, <3>3
    <2> QED
      BY <1>3, <2>1, <2>2 DEF AnswerLogin
  <1>4. CASE pc[t] # "login" /\ sent[t] \notin live /\ Refuse(t)
    <2>1. Plain(NotLoggedIn) = [outcome |-> Raise("TokenError"), sid |-> NoSid, shows |-> {}]
      BY RefusalsRaise DEF Plain, Message
    <2>2. AnswerStep(t, Plain(NotLoggedIn), {})
      BY <1>0, <1>1, <1>4, <2>1
      DEF AnswerStep, Refuse, TypeOK, TaskInv, Replies, Outcomes, Raise, Exceptions, APIClientErrors,
          NonZeroResponses, AuthenticationErrors
    <2>3. Answered(t)'
      BY <1>0, <1>1, <1>4, <2>1 DEF Refuse, TypeOK, Answered
    <2> QED
      BY <1>1, <2>2, <2>3
  <1>5. CASE pc[t] = "set" /\ AnswerSet(t)
    <2>1. PICK r \in (IF active = {} THEN {Result("other")} ELSE Conflict) \cup {Garbled} :
             reply' = [reply EXCEPT ![t] = Plain(r)]
      BY <1>5 DEF AnswerSet
    <2>2. /\ Plain(r) = [outcome |-> raise_for_status(r), sid |-> NoSid, shows |-> {}]
          /\ \/ active = {} /\ raise_for_status(r) = Return("other")
             \/ active # {} /\ raise_for_status(r) = Raise("FeatureConflictError")
             \/ raise_for_status(r) = Raise("UnexpectedResponse")
      BY <2>1, ResultReturns, ConflictRaises, GarbledRaises DEF Plain, Message
    <2>3. Plain(r) \in Replies
      BY <2>2
      DEF Replies, Outcomes, Raise, Return, Values, DictValues, Exceptions, APIClientErrors,
          NonZeroResponses
    <2>4. /\ took' \in [Tasks -> 0..1] /\ blame' \in [Tasks -> SUBSET Features]
          /\ \A u \in Tasks \ {t} : took'[u] = took[u] /\ blame'[u] = blame[u]
          /\ blame'[t] \subseteq active
          /\ active = {} => took'[t] = 1
          /\ active # {} => took'[t] = 0
      <3>1. CASE active = {}
        BY <1>0, <1>1, <1>5, <3>1 DEF AnswerSet, TypeOK, TaskInv
      <3>2. CASE active # {}
        BY <1>0, <1>1, <1>5, <3>2 DEF AnswerSet, TypeOK
      <3> QED
        BY <3>1, <3>2
    <2>5. AnswerStep(t, Plain(r), {})
      BY <1>0, <1>1, <1>5, <2>1, <2>3, <2>4 DEF AnswerStep, AnswerSet, TypeOK
    <2>6. Answered(t)'
      BY <1>0, <1>1, <1>5, <2>1, <2>2, <2>4 DEF TypeOK, Answered
    <2> QED
      BY <1>1, <2>5, <2>6
  <1>6. CASE pc[t] \in {"read"} \cup Getters /\ AnswerRead(t)
    <2>1. PICK shows :
             /\ shows = IF pc[t] \in Getters THEN active \cap Shows(pc[t]) ELSE {}
             /\ reply' = [reply EXCEPT ![t] = Message(Result("other"), NoSid, shows)]
             /\ blame' = blame
      BY <1>6 DEF AnswerRead
    <2>2. Message(Result("other"), NoSid, shows)
             = [outcome |-> Return("other"), sid |-> NoSid, shows |-> shows]
      BY ResultReturns DEF Message
    <2>3. shows \in SUBSET Features
      BY <1>0, <2>1 DEF TypeOK
    <2>4. Message(Result("other"), NoSid, shows) \in Replies
      BY <2>2, <2>3 DEF Replies, Outcomes, Return, Values, DictValues
    <2>5. AnswerStep(t, Message(Result("other"), NoSid, shows), {})
      BY <1>0, <1>1, <1>6, <2>1, <2>4 DEF AnswerStep, AnswerRead, TypeOK, TaskInv
    <2>6. pc[t] \in Getters => blame[t] \cap Shows(pc[t]) \subseteq shows
      BY <1>0, <2>1 DEF TaskInv
    <2>7. Answered(t)'
      <3>1. /\ pc'[t] = pc[t] /\ blame'[t] = blame[t]
            /\ reply'[t].outcome = Return("other") /\ reply'[t].shows = shows
        <4>1. reply'[t] = Message(Result("other"), NoSid, shows)
          BY <1>0, <2>1 DEF TypeOK
        <4>2. pc'[t] = pc[t] /\ blame'[t] = blame[t]
          BY <1>1, <2>1
        <4> QED
          BY <2>2, <4>1, <4>2
      <3>2. pc'[t] \in {"read"} \cup Getters
        BY <1>6, <3>1
      <3>3. pc'[t] \in Getters => blame'[t] \cap Shows(pc'[t]) \subseteq reply'[t].shows
        BY <2>6, <3>1
      <3> QED
        BY <3>1, <3>2, <3>3 DEF Answered
    <2> QED
      BY <1>1, <2>5, <2>7
  <1> QED
    BY <1>1, <1>3, <1>4, <1>5, <1>6 DEF Answer

LEMMA AnswerInv ==
    ASSUME CallInv, NEW t \in Tasks, Answer(t)
    PROVE  CallInv'
  BY AnswerIsStep, AnswerStepInv

-----------------------------------------------------------------------------
(* The steps of the client and the application. *)

LEMMA BeginInv ==
    ASSUME CallInv, NEW t \in Tasks, Begin(t)
    PROVE  CallInv'
  <1>1. TypeOK'
    BY DEF CallInv, TypeOK, Begin, worldVars, callVars, Requests
  <1>2. ASSUME NEW u \in Tasks PROVE TaskInv(u)'
    <2>1. CASE u = t
      <3>1. t \notin conflict /\ reply[t] = NoReply
        BY DEF CallInv, TaskInv, Answered, Begin, Getters
      <3> QED
        BY <2>1, <3>1 DEF CallInv, TypeOK, TaskInv, Begin, worldVars, callVars, Getters
    <2>2. CASE u # t
      BY <2>2 DEF CallInv, TypeOK, TaskInv, Answered, Begin, worldVars, callVars
    <2> QED
      BY <2>1, <2>2
  <1> QED
    BY <1>1, <1>2 DEF CallInv

\* A request that is sent leaves the other tasks as they are.
LEMMA SendOthers ==
    ASSUME TypeOK, NEW t \in Tasks, NEW request, Send(t, request),
           UNCHANGED <<worldVars, asked, shown, blame, took>>,
           conflict' \in {conflict, conflict \cup {t}},
           NEW u \in Tasks, u # t, TaskInv(u)
    PROVE  TaskInv(u)'
  BY DEF TypeOK, Send, worldVars, TaskInv, Answered

LEMMA ReadDoneInv ==
    ASSUME CallInv, NEW t \in Tasks, ReadDone(t)
    PROVE  CallInv'
  <1>0. TypeOK /\ TaskInv(t)
    BY DEF CallInv
  <1>1. /\ pc[t] = "read" /\ Send(t, "set") /\ sid' = sid
        /\ UNCHANGED <<worldVars, asked, shown, blame, took>> /\ conflict' = conflict
    BY DEF ReadDone, callVars
  <1>2. TypeOK'
    BY <1>0, <1>1 DEF TypeOK, Send, worldVars, Requests
  <1>3. TaskInv(t)'
    BY <1>0, <1>1 DEF TypeOK, Send, worldVars, TaskInv, Getters
  <1>4. ASSUME NEW u \in Tasks, u # t PROVE TaskInv(u)'
    BY <1>1, <1>4, SendOthers DEF CallInv
  <1> QED
    BY <1>2, <1>3, <1>4 DEF CallInv

LEMMA LoginDoneInv ==
    ASSUME CallInv, NEW t \in Tasks, LoginDone(t)
    PROVE  CallInv'
  <1>0. TypeOK /\ TaskInv(t)
    BY DEF CallInv
  <1>1. /\ pc[t] = "login" /\ Send(t, Resumed(t)) /\ sid' = reply[t].sid
        /\ UNCHANGED <<worldVars, asked, shown, blame, took>> /\ conflict' = conflict
    BY DEF LoginDone, callVars
  <1>2. reply[t].sid \in Sids
    BY <1>0, <1>1 DEF LoginDone, Succeeds, TaskInv, Answered, Raise, Getters
  <1>3. IF t \in conflict THEN Resumed(t) \in Getters ELSE Resumed(t) = "read"
    BY <1>0, NextGetterType DEF Resumed, TypeOK, TaskInv
  <1>4. TypeOK'
    BY <1>0, <1>1, <1>2, <1>3 DEF TypeOK, Send, worldVars, Requests
  <1>5. TaskInv(t)'
    BY <1>0, <1>1, <1>3 DEF TypeOK, Send, worldVars, TaskInv, Getters
  <1>6. ASSUME NEW u \in Tasks, u # t PROVE TaskInv(u)'
    BY <1>1, <1>6, SendOthers DEF CallInv
  <1> QED
    BY <1>4, <1>5, <1>6 DEF CallInv

\* The session that an authentication error is about is one the router does not know.
LEMMA LoginNeededInv ==
    ASSUME CallInv, NEW t \in Tasks, LoginNeeded(t)
    PROVE  CallInv'
  <1>0. TypeOK /\ TaskInv(t)
    BY DEF CallInv
  <1>1. pc[t] # "idle" /\ sent[t] \notin live /\ took[t] = 0
    BY <1>0
    DEF LoginNeeded, Raises, TaskInv, Answered, AuthenticationErrors, Return, Raise
  <1>2. TypeOK'
    BY <1>0 DEF TypeOK, LoginNeeded, worldVars, callVars, Requests
  <1>3. TaskInv(t)'
    BY <1>0, <1>1 DEF TypeOK, LoginNeeded, worldVars, callVars, TaskInv, Getters
  <1>4. ASSUME NEW u \in Tasks, u # t PROVE TaskInv(u)'
    BY <1>4 DEF CallInv, TypeOK, LoginNeeded, worldVars, callVars, TaskInv, Answered
  <1> QED
    BY <1>2, <1>3, <1>4 DEF CallInv

LEMMA ConflictMetInv ==
    ASSUME CallInv, NEW t \in Tasks, ConflictMet(t)
    PROVE  CallInv'
  <1>0. TypeOK /\ TaskInv(t)
    BY DEF CallInv
  <1>1. /\ pc[t] = "set" /\ Send(t, NextGetter({})) /\ sid' = sid
        /\ UNCHANGED <<worldVars, asked, shown, blame, took>>
        /\ conflict' = conflict \cup {t}
    BY DEF ConflictMet
  <1>2. took[t] = 0
    BY <1>0, <1>1 DEF ConflictMet, Raises, TypeOK, TaskInv, Answered, Return, Raise, Getters
  <1>3. NextGetter({}) \in Getters
    BY NextGetterType DEF Getters
  <1>4. TypeOK'
    BY <1>0, <1>1, <1>3 DEF TypeOK, Send, worldVars, Requests
  <1>5. TaskInv(t)'
    BY <1>0, <1>1, <1>2, <1>3 DEF TypeOK, Send, worldVars, TaskInv, Getters
  <1>6. ASSUME NEW u \in Tasks, u # t PROVE TaskInv(u)'
    BY <1>1, <1>6, SendOthers DEF CallInv
  <1> QED
    BY <1>4, <1>5, <1>6 DEF CallInv

LEMMA GetterDoneInv ==
    ASSUME CallInv, NEW t \in Tasks, GetterDone(t)
    PROVE  CallInv'
  <1>0. TypeOK /\ TaskInv(t)
    BY DEF CallInv
  <1>1. /\ pc[t] \in Getters /\ Succeeds(t)
        /\ UNCHANGED <<sid, worldVars>>
    BY DEF GetterDone
  <1>2. CASE asked[t] \cup {pc[t]} = Getters
    <2>1. Finish(t, "FeatureConflictError")
      BY <1>2 DEF GetterDone
    <2> QED
      BY <1>1, <2>1, FinishInv DEF APIClientErrors, NonZeroResponses
  <1>3. CASE asked[t] \cup {pc[t]} # Getters
    <2> DEFINE next == NextGetter(asked[t] \cup {pc[t]})
    <2>1. /\ asked' = [asked EXCEPT ![t] = @ \cup {pc[t]}]
          /\ shown' = [shown EXCEPT ![t] = @ \cup reply[t].shows]
          /\ Send(t, next)
          /\ UNCHANGED <<conflict, blame, took>>
      BY <1>3 DEF GetterDone
    <2>2. next \in Getters
      BY <1>0, <1>1, <1>3, NextGetterType DEF TypeOK
    <2> HIDE DEF next
    <2>3. reply[t] \in Replies /\ Answered(t)
      BY <1>0, <1>1 DEF Succeeds, TypeOK, TaskInv
    <2>4. reply[t].shows \subseteq Features
      BY <2>3 DEF Replies
    <2>5. blame[t] \cap Shows(pc[t]) \subseteq reply[t].shows
      BY <1>1, <2>3 DEF Succeeds, Answered, Return, Raise, Getters
    <2>6. TypeOK'
      BY <1>0, <1>1, <2>1, <2>2, <2>4 DEF TypeOK, Send, worldVars, Requests
    <2>7. TaskInv(t)'
      <3>1. /\ reply'[t] = NoReply /\ took'[t] = 0 /\ pc'[t] \in Getters /\ t \in conflict'
            /\ out'[t] = "none" /\ blame'[t] \subseteq active'
        BY <1>0, <1>1, <2>1, <2>2 DEF TypeOK, Send, worldVars, TaskInv, Getters
      <3>2. asked'[t] = asked[t] \cup {pc[t]} /\ asked'[t] # Getters
            /\ shown'[t] = shown[t] \cup reply[t].shows /\ blame'[t] = blame[t]
        BY <1>0, <1>3, <2>1 DEF TypeOK
      <3>3. ASSUME NEW getter \in asked'[t] PROVE blame'[t] \cap Shows(getter) \subseteq shown'[t]
        BY <1>0, <2>5, <3>2, <3>3 DEF TaskInv
      <3> QED
        BY <3>1, <3>2, <3>3 DEF TaskInv, Getters
    <2>8. ASSUME NEW u \in Tasks, u # t PROVE TaskInv(u)'
      BY <1>1, <2>1, <2>8 DEF CallInv, TypeOK, Send, worldVars, TaskInv, Answered
    <2> QED
      BY <2>6, <2>7, <2>8 DEF CallInv
  <1> QED
    BY <1>2, <1>3

\* What ends a call for good is an exception of the hierarchy, and never a conflict.
LEMMA GivesUpOutcome ==
    ASSUME CallInv, NEW t \in Tasks, GivesUp(t)
    PROVE  /\ reply[t].outcome.is \in APIClientErrors \ {"FeatureConflictError"}
           /\ took[t] = 1 => reply[t].outcome.is = "UnexpectedResponse"
  BY DEF CallInv, GivesUp, Raises, Handled, TaskInv, Answered, Return, Raise, Getters,
         APIClientErrors, NonZeroResponses, AuthenticationErrors

LEMMA UpsetInv ==
    ASSUME CallInv, SessionEnds \/ SetSid \/ FeatureSwitched
    PROVE  CallInv'
  <1>1. upsets' \in 0..MaxUpsets
    BY NoneIsApart DEF CallInv, TypeOK, SessionEnds, SetSid, FeatureSwitched, Upset
  <1>2. CASE SessionEnds
    BY <1>1, <1>2
    DEF CallInv, TypeOK, SessionEnds, taskVars, callVars, TaskInv, Answered
  <1>3. CASE SetSid
    <2>1. sid' \in Sids \cup {NoSid}
      BY <1>3, GrantedIsNew DEF SetSid, Known, CallInv, TypeOK, Replies
    <2> QED
      BY <1>1, <1>3, <2>1 DEF CallInv, TypeOK, SetSid, taskVars, callVars, TaskInv, Answered
  <1>4. CASE FeatureSwitched
    <2>1. active' \subseteq Features
      BY <1>4 DEF FeatureSwitched, CallInv, TypeOK
    <2>2. blame' \in [Tasks -> SUBSET Features]
          /\ \A t \in Tasks : blame'[t] \subseteq blame[t] /\ blame'[t] \subseteq active'
      BY <1>4 DEF FeatureSwitched, CallInv, TypeOK
    <2>3. TypeOK'
      BY <1>1, <1>4, <2>1, <2>2 DEF FeatureSwitched, CallInv, TypeOK
    <2>4. ASSUME NEW t \in Tasks PROVE TaskInv(t)'
      <3>1. TaskInv(t) /\ blame'[t] \subseteq blame[t] /\ blame'[t] \subseteq active'
        BY <2>2 DEF CallInv
      <3> QED
        BY <1>4, <3>1 DEF FeatureSwitched, TaskInv, Answered
    <2> QED
      BY <2>3, <2>4 DEF CallInv
  <1> QED
    BY <1>2, <1>3, <1>4

\* Every step keeps the invariant.
LEMMA StepInv ==
    ASSUME CallInv, [Next]_vars
    PROVE  CallInv'
  <1>1. ASSUME NEW t \in Tasks, SetDone(t) PROVE CallInv'
    BY <1>1, FinishInv DEF SetDone
  <1>2. ASSUME NEW t \in Tasks, GivesUp(t) PROVE CallInv'
    BY <1>2, FinishInv, GivesUpOutcome DEF GivesUp
  <1>3. ASSUME NEW t \in Tasks, Lost(t) PROVE CallInv'
    BY <1>3, FinishInv DEF Lost, APIClientErrors
  <1>4. CASE UNCHANGED vars
    BY <1>4 DEF vars, worldVars, taskVars, callVars, CallInv, TypeOK, TaskInv, Answered
  <1> QED
    BY <1>1, <1>2, <1>3, <1>4, BeginInv, AnswerInv, ReadDoneInv, LoginDoneInv, GetterDoneInv,
       LoginNeededInv, ConflictMetInv, UpsetInv
    DEF Next

-----------------------------------------------------------------------------
(* The properties. *)

\* Types: what a client receives is a reply, and a call ends in the hierarchy.
THEOREM TypeCorrect == Spec => []TypeOK
  <1>1. CallInv => TypeOK
    BY DEF CallInv
  <1> QED
    BY InitInv, StepInv, <1>1, PTL DEF Spec

\* An application logs in again only after the session it was refused with has
\* ended, however many sessions were granted and ended meanwhile.
THEOREM LoginsAreNeeded == Spec => []LoginsReplaceEndedSessions
  <1>1. CallInv => LoginsReplaceEndedSessions
    BY DEF CallInv, TaskInv, LoginsReplaceEndedSessions
  <1> QED
    BY InitInv, StepInv, <1>1, PTL DEF Spec

\* Which steps end a call, and how.
LEMMA EndedCall ==
    ASSUME CallInv, [Next]_vars, NEW t \in Tasks, pc[t] # "idle",
           pc'[t] = "idle" \/ out'[t] # out[t]
    PROVE  \/ SetDone(t) /\ out'[t] = "done"
           \/ GetterDone(t) /\ out'[t] = "FeatureConflictError"
              /\ asked[t] \cup {pc[t]} = Getters
           \/ GivesUp(t) /\ out'[t] = reply[t].outcome.is
           \/ out'[t] = "UnsuccessfulRequest"
  <1> USE DEF CallInv, TypeOK
  <1>1. ASSUME NEW u \in Tasks, u # t, NEW end, Finish(u, end)
        PROVE  pc'[t] = pc[t] /\ out'[t] = out[t]
    BY <1>1 DEF Finish
  <1>2. ASSUME NEW u \in Tasks, NEW request, Send(u, request), request # "idle"
        PROVE  pc'[t] # "idle" /\ out'[t] = out[t]
    BY <1>2 DEF Send
  <1>3. ASSUME NEW u \in Tasks, LoginDone(u) PROVE Resumed(u) # "idle"
    BY NextGetterType DEF Resumed, TaskInv, Getters
  <1>4. NextGetter({}) # "idle"
    BY NextGetterType DEF Getters
  <1>5. ASSUME NEW u \in Tasks, GetterDone(u)
        PROVE  \/ Finish(u, "FeatureConflictError") /\ asked[u] \cup {pc[u]} = Getters
               \/ \E request : request # "idle" /\ Send(u, request)
    <2>1. CASE asked[u] \cup {pc[u]} = Getters
      BY <1>5, <2>1 DEF GetterDone
    <2>2. CASE asked[u] \cup {pc[u]} # Getters
      <3>1. NextGetter(asked[u] \cup {pc[u]}) \in Getters
        BY <1>5, <2>2, NextGetterType DEF GetterDone
      <3> QED
        BY <1>5, <2>2, <3>1 DEF GetterDone, Getters
    <2> QED
      BY <2>1, <2>2
  <1>6. ASSUME NEW u \in Tasks, Begin(u) \/ Answer(u) \/ LoginNeeded(u)
        PROVE  pc'[t] # "idle" /\ out'[t] = out[t]
    BY <1>6 DEF Begin, Answer, LoginNeeded
  <1>7. ASSUME SessionEnds \/ SetSid \/ FeatureSwitched \/ UNCHANGED vars
        PROVE  pc'[t] # "idle" /\ out'[t] = out[t]
    BY <1>7 DEF SessionEnds, SetSid, FeatureSwitched, taskVars, callVars, vars
  <1>8. PICK u \in Tasks : \/ SetDone(u) \/ GetterDone(u) \/ GivesUp(u) \/ Lost(u)
    BY <1>2, <1>3, <1>4, <1>6, <1>7 DEF Next, ReadDone, LoginDone, ConflictMet
  <1>9. CASE u # t
    BY <1>1, <1>2, <1>5, <1>8, <1>9 DEF SetDone, GivesUp, Lost
  <1>10. CASE u = t
    BY <1>2, <1>5, <1>8, <1>10 DEF SetDone, GivesUp, Lost, Finish
  <1> QED
    BY <1>9, <1>10

\* How a call ends tells what became of the change, whatever was lost, refused or
\* repeated before.
THEOREM OutcomeIsTrue == Spec => OutcomeTellsEffect
  <1>1. ASSUME CallInv, [Next]_vars, NEW t \in Tasks, pc[t] # "idle", pc'[t] = "idle"
        PROVE  /\ out'[t] = "done" => took[t] = 1
               /\ out'[t] \in NonZeroResponses => took[t] = 0
    <2>0. TaskInv(t) /\ took[t] \in 0..1
      BY <1>1 DEF CallInv, TypeOK
    <2>1. CASE SetDone(t) /\ out'[t] = "done"
      BY <2>0, <2>1
      DEF SetDone, Succeeds, TaskInv, Answered, Return, Raise, Getters, NonZeroResponses,
          AuthenticationErrors
    <2>2. CASE GetterDone(t) /\ out'[t] = "FeatureConflictError"
      BY <2>0, <2>2 DEF GetterDone, TaskInv, Getters
    <2>3. CASE GivesUp(t) /\ out'[t] = reply[t].outcome.is
      BY <1>1, <2>0, <2>3, GivesUpOutcome
      DEF APIClientErrors, NonZeroResponses, AuthenticationErrors
    <2>4. CASE out'[t] = "UnsuccessfulRequest"
      BY <2>4 DEF NonZeroResponses, AuthenticationErrors
    <2> QED
      BY <1>1, <2>1, <2>2, <2>3, <2>4, EndedCall
  <1>2. CallInv /\ [Next]_vars =>
          [\A t \in Tasks : pc[t] # "idle" /\ pc'[t] = "idle" =>
              /\ out'[t] = "done" => took[t] = 1
              /\ out'[t] \in NonZeroResponses => took[t] = 0]_vars
    BY <1>1
  <1> QED
    BY InitInv, StepInv, <1>2, PTL DEF Spec, OutcomeTellsEffect

\* Between them the getters show every conflicting feature.
LEMMA GettersShowAll ==
    ASSUME NEW f \in Features
    PROVE  \E getter \in Getters : f \in Shows(getter)
  <1>1. f \in ConflictingFeatures
    BY ReauthenticationAssumption
  <1> QED
    BY <1>1 DEF ConflictingFeatures, Getters, Shows

\* When a conflict is reported, every cause that is still there has been shown.
THEOREM ConflictsExplained == Spec => ConflictsAreExplained
  <1>1. ASSUME CallInv, [Next]_vars, NEW t \in Tasks, pc[t] # "idle",
               out'[t] = "FeatureConflictError"
        PROVE  blame[t] \subseteq shown[t] \cup reply[t].shows
    <2>0. TypeOK /\ TaskInv(t)
      BY <1>1 DEF CallInv
    <2>1. GetterDone(t) /\ asked[t] \cup {pc[t]} = Getters
      <3>1. out'[t] # out[t]
        BY <1>1, <2>0 DEF TaskInv
      <3> QED
        BY <1>1, <3>1, EndedCall, GivesUpOutcome
    <2>2. blame[t] \cap Shows(pc[t]) \subseteq reply[t].shows
      BY <2>0, <2>1 DEF GetterDone, Succeeds, TaskInv, Answered, Return, Raise, Getters
    <2>3. ASSUME NEW f \in blame[t] PROVE f \in shown[t] \cup reply[t].shows
      <3>1. PICK getter \in Getters : f \in Shows(getter)
        BY <2>0, GettersShowAll DEF TypeOK
      <3> QED
        BY <2>0, <2>1, <2>2, <3>1 DEF TaskInv
    <2> QED
      BY <2>3
  <1>2. CallInv /\ [Next]_vars =>
          [\A t \in Tasks : pc[t] # "idle" /\ out'[t] = "FeatureConflictError" =>
              blame[t] \subseteq shown[t] \cup reply[t].shows]_vars
    BY <1>1
  <1> QED
    BY InitInv, StepInv, <1>2, PTL DEF Spec, ConflictsAreExplained
-----------------------------------------------------------------------------
(***************************************************************************)
(* Logins are bounded.  A history variable counts, for each call, how      *)
(* often it has gone over to logging in; it restrains nothing.             *)
(***************************************************************************)

CountLogins ==
    logins' = [t \in Tasks |->
        IF pc'[t] = "idle" THEN 0
        ELSE IF pc[t] # "login" /\ pc'[t] = "login" THEN logins[t] + 1
        ELSE logins[t]]

CountedSpec ==
    /\ Init /\ logins = [t \in Tasks |-> 0]
    /\ [][Next /\ CountLogins]_<<vars, logins>>

\* The tasks a new session is on its way to, and those for which it has ended already.
Granted == {u \in Tasks : reply[u] # NoReply /\ reply[u].sid # NoSid}
DeadGrants == {u \in Granted : reply[u].sid \notin live}

\* A session that one upset at least separates from a refusal: nothing that is on
\* its way replaces it by a session that has ended, nor ends with it.
Clean(s) == s \in live /\ \A u \in Granted : reply[u].sid # s

\* The call may be refused without another upset.
Exposed(t) == pc[t] # "login" /\ ~ (Clean(sid) /\ Clean(sent[t]))

\* How many logins the call may still need without another upset.
Debt(t) == Cardinality(DeadGrants) + IF Exposed(t) THEN 1 ELSE 0

\* The grants on their way are different sessions, so one upset ends one of them;
\* what a call has logged in and may still have to is paid for by the upsets so far.
LoginInv ==
    /\ logins \in [Tasks -> Nat]
    /\ \A u \in Granted : pc[u] = "login"
    /\ \A u, v \in Granted : u # v => reply[u].sid # reply[v].sid
    /\ IsFiniteSet(DeadGrants) /\ Cardinality(DeadGrants) <= upsets
    /\ \A t \in Tasks :
          IF pc[t] = "idle" THEN logins[t] = 0 ELSE logins[t] + Debt(t) <= 1 + upsets

LEMMA InitLoginInv == Init /\ logins = [t \in Tasks |-> 0] => LoginInv
  <1> SUFFICES ASSUME Init, logins = [t \in Tasks |-> 0] PROVE LoginInv
    OBVIOUS
  <1>1. Granted = {} /\ DeadGrants = {}
    BY DEF Init, Granted, DeadGrants
  <1> QED
    BY <1>1, FS_EmptySet DEF Init, LoginInv

\* The next values of the history variable, by what becomes of the request.
LEMMA Counting ==
    ASSUME CountLogins, logins \in [Tasks -> Nat]
    PROVE  /\ logins' \in [Tasks -> Nat]
           /\ \A t \in Tasks :
                 /\ pc'[t] = "idle" => logins'[t] = 0
                 /\ pc'[t] # "idle" /\ (pc[t] = "login" \/ pc'[t] # "login") =>
                       logins'[t] = logins[t]
                 /\ pc[t] # "login" /\ pc'[t] = "login" => logins'[t] = logins[t] + 1
  BY DEF CountLogins

\* What becomes of the grants, and of what is clean, when a task drops its reply.
DropStep(u) ==
    /\ \A v \in Tasks \ {u} : reply'[v] = reply[v] /\ sent'[v] = sent[v] /\ pc'[v] = pc[v]
    /\ reply'[u] = NoReply
    /\ live' = live /\ upsets' = upsets

LEMMA DropGrants ==
    ASSUME LoginInv, NEW u \in Tasks, DropStep(u)
    PROVE  /\ Granted' = Granted \ {u} /\ DeadGrants' = DeadGrants \ {u}
           /\ IsFiniteSet(DeadGrants')
           /\ Cardinality(DeadGrants) \in Nat /\ Cardinality(DeadGrants') \in Nat
           /\ Cardinality(DeadGrants') =
                IF u \in DeadGrants THEN Cardinality(DeadGrants) - 1 ELSE Cardinality(DeadGrants)
           /\ \A s : s \in live /\ (\A v \in Granted \ {u} : reply[v].sid # s) => Clean(s)'
  <1>1. Granted' = Granted \ {u}
    BY DEF DropStep, Granted
  <1>2. DeadGrants' = DeadGrants \ {u}
    BY <1>1 DEF DropStep, DeadGrants, Granted
  <1>3. IsFiniteSet(DeadGrants)
    BY DEF LoginInv
  <1>4. ASSUME NEW s, s \in live, \A v \in Granted \ {u} : reply[v].sid # s PROVE Clean(s)'
    BY <1>1, <1>4 DEF Clean, DropStep, Granted
  <1> QED
    BY <1>1, <1>2, <1>3, <1>4, FS_RemoveElement, FS_CardinalityType

\* The part of the invariant that is about the grants.
LEMMA DropKeepsGrants ==
    ASSUME CallInv, LoginInv, CountLogins, NEW u \in Tasks, DropStep(u)
    PROVE  /\ logins' \in [Tasks -> Nat]
           /\ \A v \in Granted' : pc'[v] = "login"
           /\ \A v, w \in Granted' : v # w => reply'[v].sid # reply'[w].sid
           /\ IsFiniteSet(DeadGrants') /\ Cardinality(DeadGrants') <= upsets'
  <1>1. /\ Granted' = Granted \ {u} /\ IsFiniteSet(DeadGrants')
        /\ Cardinality(DeadGrants) \in Nat /\ Cardinality(DeadGrants') \in Nat
        /\ Cardinality(DeadGrants') <= Cardinality(DeadGrants)
    BY DropGrants
  <1>2. upsets' = upsets /\ upsets \in Nat /\ Cardinality(DeadGrants) <= upsets
    BY DEF DropStep, CallInv, TypeOK, LoginInv
  <1>3. Cardinality(DeadGrants') <= upsets'
    BY <1>1, <1>2
  <1>4. \A v \in Granted' : v \in Granted /\ v \in Tasks \ {u}
    BY <1>1 DEF Granted
  <1> QED
    BY <1>1, <1>3, <1>4, Counting DEF LoginInv, DropStep

\* A task whose request is the same as before owes no more than before, unless the
\* session id has been replaced by a grant; then it owes what the grant did.
LEMMA DropOthers ==
    ASSUME CallInv, LoginInv, CountLogins, NEW u \in Tasks, DropStep(u),
           sid' = sid \/ (u \in Granted /\ sid' = reply[u].sid),
           NEW t \in Tasks, t # u, pc[t] # "idle"
    PROVE  logins'[t] + Debt(t)' <= 1 + upsets'
  <1>1. /\ DeadGrants' = DeadGrants \ {u}
        /\ Cardinality(DeadGrants) \in Nat /\ Cardinality(DeadGrants') \in Nat
        /\ Cardinality(DeadGrants') =
             IF u \in DeadGrants THEN Cardinality(DeadGrants) - 1 ELSE Cardinality(DeadGrants)
        /\ \A s : s \in live /\ (\A v \in Granted \ {u} : reply[v].sid # s) => Clean(s)'
    BY DropGrants
  <1>2. pc'[t] = pc[t] /\ sent'[t] = sent[t] /\ upsets' = upsets
    BY DEF DropStep
  <1>3. /\ logins'[t] = logins[t] /\ logins[t] \in Nat /\ upsets \in Nat
        /\ logins[t] + Debt(t) <= 1 + upsets
    BY <1>2, Counting DEF LoginInv, CallInv, TypeOK
  <1>4. \A s : Clean(s) => Clean(s)'
    BY <1>1 DEF Clean
  <1>5. CASE u \in DeadGrants
    BY <1>1, <1>2, <1>3, <1>5 DEF Debt
  <1>6. CASE u \notin DeadGrants
    <2>1. sid' # sid => Clean(sid)'
      BY <1>1, <1>6 DEF DeadGrants, LoginInv, Clean
    <2>2. Exposed(t)' => Exposed(t)
      <3>1. CASE sid' = sid
        BY <1>2, <1>4, <3>1 DEF Exposed, Clean
      <3>2. CASE sid' # sid
        <4>1. Clean(sid)'
          BY <2>1, <3>2
        <4> QED
          BY <1>2, <1>4, <4>1 DEF Exposed, Clean
      <3> QED
        BY <3>1, <3>2
    <2> QED
      BY <1>1, <1>2, <1>3, <1>6, <2>2 DEF Debt
  <1> QED
    BY <1>5, <1>6

\* A call that sends its next request with the session id of the moment.
LEMMA SendOn ==
    ASSUME CallInv, LoginInv, CountLogins, NEW t \in Tasks, DropStep(t),
           pc[t] \notin {"idle", "login"}, pc'[t] \notin {"idle", "login"},
           sid' = sid, sent'[t] = sid
    PROVE  logins'[t] + Debt(t)' <= 1 + upsets'
  <1>1. t \notin Granted /\ t \notin DeadGrants
    BY DEF LoginInv, DeadGrants
  <1>2. /\ Cardinality(DeadGrants') = Cardinality(DeadGrants)
        /\ Cardinality(DeadGrants) \in Nat
        /\ \A s : Clean(s) => Clean(s)'
    BY <1>1, DropGrants DEF Clean
  <1>3. Exposed(t)' => Exposed(t)
    BY <1>2 DEF Exposed, Clean
  <1>4. /\ logins'[t] = logins[t] /\ logins[t] \in Nat
        /\ upsets' = upsets /\ upsets \in Nat
        /\ logins[t] + Debt(t) <= 1 + upsets
    BY Counting DEF LoginInv, DropStep, CallInv, TypeOK
  <1> QED
    BY <1>2, <1>3, <1>4 DEF Debt

\* A call that begins owes one login at most for itself.
LEMMA BeginLogins ==
    ASSUME CallInv, LoginInv, CountLogins, NEW t \in Tasks, DropStep(t),
           pc[t] = "idle", pc'[t] \notin {"idle", "login"}
    PROVE  logins'[t] + Debt(t)' <= 1 + upsets'
  <1>1. t \notin DeadGrants
    BY DEF LoginInv, DeadGrants
  <1>2. Cardinality(DeadGrants') = Cardinality(DeadGrants) /\ Cardinality(DeadGrants) \in Nat
    BY <1>1, DropGrants
  <1>3. logins'[t] = 0 /\ upsets' = upsets /\ upsets \in Nat /\ Cardinality(DeadGrants) <= upsets
    BY Counting DEF LoginInv, DropStep, CallInv, TypeOK
  <1> QED
    BY <1>2, <1>3 DEF Debt

\* A login settles what the call owed for its session.
LEMMA LoginNeededLogins ==
    ASSUME CallInv, LoginInv, CountLogins, NEW t \in Tasks, DropStep(t),
           pc[t] \notin {"idle", "login"}, pc'[t] = "login", sent[t] \notin live
    PROVE  logins'[t] + Debt(t)' <= 1 + upsets'
  <1>1. t \notin DeadGrants /\ Exposed(t) /\ ~ Exposed(t)'
    BY DEF LoginInv, DeadGrants, Exposed, Clean
  <1>2. Cardinality(DeadGrants') = Cardinality(DeadGrants) /\ Cardinality(DeadGrants) \in Nat
    BY <1>1, DropGrants
  <1>3. /\ logins'[t] = logins[t] + 1 /\ logins[t] \in Nat
        /\ upsets' = upsets /\ upsets \in Nat
        /\ logins[t] + Debt(t) <= 1 + upsets
    BY Counting DEF LoginInv, DropStep, CallInv, TypeOK
  <1> QED
    BY <1>1, <1>2, <1>3 DEF Debt

\* The session a login has brought is either good for the next request, or had
\* ended on its way.
LEMMA LoginDoneLogins ==
    ASSUME CallInv, LoginInv, CountLogins, NEW t \in Granted, t \in Tasks, DropStep(t),
           pc'[t] \notin {"idle", "login"}, sid' = reply[t].sid, sent'[t] = sid'
    PROVE  logins'[t] + Debt(t)' <= 1 + upsets'
  <1>1. pc[t] = "login" /\ ~ Exposed(t)
    BY DEF LoginInv, Exposed
  <1>2. /\ Cardinality(DeadGrants) \in Nat /\ Cardinality(DeadGrants') \in Nat
        /\ Cardinality(DeadGrants') =
             IF t \in DeadGrants THEN Cardinality(DeadGrants) - 1 ELSE Cardinality(DeadGrants)
        /\ \A s : s \in live /\ (\A v \in Granted \ {t} : reply[v].sid # s) => Clean(s)'
    BY DropGrants
  <1>3. /\ logins'[t] = logins[t] /\ logins[t] \in Nat
        /\ upsets' = upsets /\ upsets \in Nat
        /\ logins[t] + Debt(t) <= 1 + upsets
    BY <1>1, Counting DEF LoginInv, DropStep, CallInv, TypeOK
  <1>4. t \notin DeadGrants => Clean(sid)' /\ Clean(sent[t])'
    BY <1>2 DEF DeadGrants, LoginInv, Clean
  <1>5. t \notin DeadGrants => ~ Exposed(t)'
    BY <1>4 DEF Exposed
  <1> QED
    BY <1>1, <1>2, <1>3, <1>5 DEF Debt

\* The invariant after a step that drops a reply, from what it says of its own task.
LEMMA DropLogins ==
    ASSUME CallInv, LoginInv, CountLogins, NEW u \in Tasks, DropStep(u),
           sid' = sid \/ (u \in Granted /\ sid' = reply[u].sid),
           pc'[u] # "idle" => logins'[u] + Debt(u)' <= 1 + upsets'
    PROVE  LoginInv'
  <1>1. ASSUME NEW t \in Tasks
        PROVE  IF pc'[t] = "idle" THEN logins'[t] = 0 ELSE logins'[t] + Debt(t)' <= 1 + upsets'
    BY Counting, DropOthers DEF LoginInv, DropStep
  <1> QED
    BY <1>1, DropKeepsGrants DEF LoginInv

\* An answer grants at most a session that nobody knows; those that are known stay
\* as they are.
LEMMA AnswerLogins ==
    ASSUME CallInv, LoginInv, CountLogins, NEW t \in Tasks, Answer(t)
    PROVE  LoginInv'
  <1>0. /\ TypeOK
        /\ pc[t] # "idle" /\ reply[t] = NoReply
        /\ UNCHANGED <<sid, upsets, pc, sent>>
    BY DEF Answer, CallInv
  <1>1. ASSUME NEW new \in Replies, reply' = [reply EXCEPT ![t] = new],
               \A s \in Known : s \in live <=> s \in live',
               new.sid # NoSid =>
                  pc[t] = "login" /\ new.sid \in live' /\ new.sid \notin Known
        PROVE  LoginInv'
    <2>1. /\ reply'[t] = new /\ new # NoReply
          /\ \A u \in Tasks \ {t} : reply'[u] = reply[u]
      BY <1>0, <1>1, NoneIsApart DEF TypeOK
    <2>2. ASSUME NEW u \in Granted PROVE reply[u].sid \in Known /\ u \in Tasks /\ u # t
      BY <1>0, <2>2 DEF Granted, Known
    <2>3. Granted' = IF new.sid # NoSid THEN Granted \cup {t} ELSE Granted
      BY <1>0, <2>1 DEF Granted
    <2>4. DeadGrants' = DeadGrants
      <3>1. t \notin DeadGrants'
        BY <1>1, <2>1 DEF DeadGrants, Granted
      <3>2. ASSUME NEW u \in Tasks, u # t PROVE u \in DeadGrants' <=> u \in DeadGrants
        BY <1>1, <2>1, <2>2, <3>2 DEF DeadGrants, Granted
      <3>3. DeadGrants \subseteq Tasks /\ DeadGrants' \subseteq Tasks /\ t \notin DeadGrants
        BY <1>0 DEF DeadGrants, Granted
      <3> QED
        BY <3>1, <3>2, <3>3
    <2>5. ASSUME NEW s, s = sid \/ (\E u \in Tasks : s = sent[u]), Clean(s) PROVE Clean(s)'
      <3>1. s \in Known
        BY <1>0, <2>5, NoneIsApart DEF Known, Clean, TypeOK
      <3>2. s \in live'
        BY <1>1, <2>5, <3>1 DEF Clean
      <3>3. ASSUME NEW u \in Granted' PROVE reply'[u].sid # s
        BY <1>1, <2>1, <2>3, <2>5, <3>1 DEF Clean, Granted
      <3> QED
        BY <3>2, <3>3 DEF Clean
    <2>6. ASSUME NEW u \in Tasks PROVE Exposed(u)' => Exposed(u)
      <3>1. Clean(sid) => Clean(sid)'
        BY <1>0, <2>5 DEF Clean
      <3>2. Clean(sent[u]) => Clean(sent[u])'
        BY <1>0, <2>5 DEF Clean
      <3> QED
        BY <1>0, <3>1, <3>2 DEF Exposed
    <2>7. ASSUME NEW u \in Tasks, pc[u] # "idle"
          PROVE  logins'[u] + Debt(u)' <= 1 + upsets'
      <3>1. logins'[u] = logins[u] /\ logins[u] \in Nat /\ logins[u] + Debt(u) <= 1 + upsets
        BY <1>0, <2>7, Counting DEF LoginInv
      <3>2. Cardinality(DeadGrants) \in Nat /\ upsets \in Nat
        BY <1>0, FS_CardinalityType DEF LoginInv, TypeOK
      <3> QED
        BY <1>0, <2>4, <2>6, <3>1, <3>2 DEF Debt
    <2>8. \A u, v \in Granted' : u # v => reply'[u].sid # reply'[v].sid
      BY <1>1, <2>1, <2>2, <2>3 DEF LoginInv
    <2>9. \A u \in Granted' : pc'[u] = "login"
      BY <1>0, <1>1, <2>3 DEF LoginInv
    <2> QED
      BY <1>0, <2>4, <2>7, <2>8, <2>9, Counting DEF LoginInv
  <1>2. CASE pc[t] = "login" /\ AnswerLogin(t)
    <2>1. CASE \E new \in Unknown :
                 /\ reply' = [reply EXCEPT ![t] = Message(Result("sid"), new, {})]
                 /\ live' = (live \cap Known) \cup {new}
      <3>1. PICK new \in Unknown :
               /\ reply' = [reply EXCEPT ![t] = Message(Result("sid"), new, {})]
               /\ live' = (live \cap Known) \cup {new}
        BY <2>1
      <3>2. new \in Sids /\ new \notin Known
        BY <3>1, GrantedIsNew
      <3>3. Message(Result("sid"), new, {}) = [outcome |-> Return("sid"), sid |-> new, shows |-> {}]
        BY ResultReturns DEF Message
      <3>4. Message(Result("sid"), new, {}) \in Replies
        BY <3>2, <3>3 DEF Replies, Outcomes, Return, Values, DictValues
      <3> QED
        BY <1>1, <1>2, <3>1, <3>2, <3>3, <3>4
    <2>2. CASE reply' = [reply EXCEPT ![t] = Plain(AccessDenied)] /\ UNCHANGED live
      <3>1. Plain(AccessDenied) =
               [outcome |-> Raise("AuthenticationError"), sid |-> NoSid, shows |-> {}]
        BY RefusalsRaise DEF Plain, Message
      <3>2. Plain(AccessDenied) \in Replies
        BY <3>1 DEF Replies, Outcomes, Raise, Exceptions, APIClientErrors, NonZeroResponses,
                    AuthenticationErrors
      <3> QED
        BY <1>1, <2>2, <3>1, <3>2
    <2> QED
      BY <1>2, <2>1, <2>2 DEF AnswerLogin
  <1>3. CASE Refuse(t)
    <2>1. Plain(NotLoggedIn) = [outcome |-> Raise("TokenError"), sid |-> NoSid, shows |-> {}]
      BY RefusalsRaise DEF Plain, Message
    <2>2. Plain(NotLoggedIn) \in Replies
      BY <2>1 DEF Replies, Outcomes, Raise, Exceptions, APIClientErrors, NonZeroResponses,
                  AuthenticationErrors
    <2> QED
      BY <1>1, <1>3, <2>1, <2>2 DEF Refuse
  <1>4. CASE AnswerSet(t)
    <2>1. PICK r \in (IF active = {} THEN {Result("other")} ELSE Conflict) \cup {Garbled} :
             reply' = [reply EXCEPT ![t] = Plain(r)]
      BY <1>4 DEF AnswerSet
    <2>2. /\ Plain(r) = [outcome |-> raise_for_status(r), sid |-> NoSid, shows |-> {}]
          /\ raise_for_status(r) \in {Return("other"), Raise("FeatureConflictError"),
                                      Raise("UnexpectedResponse")}
      BY <2>1, ResultReturns, ConflictRaises, GarbledRaises DEF Plain, Message
    <2>3. Plain(r) \in Replies
      BY <2>2
      DEF Replies, Outcomes, Raise, Return, Values, DictValues, Exceptions, APIClientErrors,
          NonZeroResponses
    <2> QED
      BY <1>1, <1>4, <2>1, <2>2, <2>3 DEF AnswerSet
  <1>5. CASE AnswerRead(t)
    <2>1. PICK shows :
             /\ shows = IF pc[t] \in Getters THEN active \cap Shows(pc[t]) ELSE {}
             /\ reply' = [reply EXCEPT ![t] = Message(Result("other"), NoSid, shows)]
             /\ live' = live
      BY <1>5 DEF AnswerRead
    <2>2. Message(Result("other"), NoSid, shows)
             = [outcome |-> Return("other"), sid |-> NoSid, shows |-> shows]
      BY ResultReturns DEF Message
    <2>3. shows \in SUBSET Features
      BY <1>0, <2>1 DEF TypeOK
    <2>4. Message(Result("other"), NoSid, shows) \in Replies
      BY <2>2, <2>3 DEF Replies, Outcomes, Return, Values, DictValues
    <2> QED
      BY <1>1, <2>1, <2>2, <2>4
  <1> QED
    BY <1>2, <1>3, <1>4, <1>5 DEF Answer

\* An upset ends one session, or gives one session id to the client: either way
\* every call owes one login more at most.
LEMMA UpsetLogins ==
    ASSUME CallInv, LoginInv, CountLogins, SessionEnds \/ SetSid \/ FeatureSwitched
    PROVE  LoginInv'
  <1>0. /\ UNCHANGED <<pc, sent, reply>> /\ upsets' = upsets + 1 /\ upsets \in Nat
        /\ Granted' = Granted
    BY DEF SessionEnds, SetSid, FeatureSwitched, taskVars, Upset, CallInv, TypeOK, Granted
  <1>1. IsFiniteSet(DeadGrants) /\ Cardinality(DeadGrants) \in Nat
        /\ Cardinality(DeadGrants) <= upsets
    BY FS_CardinalityType DEF LoginInv
  <1>2. SUFFICES
           /\ IsFiniteSet(DeadGrants') /\ Cardinality(DeadGrants') \in Nat
           /\ Cardinality(DeadGrants') <= Cardinality(DeadGrants) + 1
           /\ \A t \in Tasks : Debt(t)' <= Debt(t) + 1
    <2>1. ASSUME NEW t \in Tasks, pc[t] # "idle", Debt(t)' <= Debt(t) + 1
          PROVE  logins'[t] + Debt(t)' <= 1 + upsets'
      <3>1. logins'[t] = logins[t] /\ logins[t] \in Nat /\ logins[t] + Debt(t) <= 1 + upsets
        BY <1>0, <2>1, Counting DEF LoginInv
      <3>2. Debt(t) \in Nat /\ Debt(t)' \in Nat
        BY <1>1, <1>2 DEF Debt
      <3> QED
        BY <1>0, <2>1, <3>1, <3>2
    <2>2. Cardinality(DeadGrants') <= upsets'
      BY <1>0, <1>1, <1>2
    <2> QED
      BY <1>0, <1>2, <2>1, <2>2, Counting DEF LoginInv
  <1>3. CASE live' = live
    <2>1. DeadGrants' = DeadGrants
      BY <1>0, <1>3 DEF DeadGrants
    <2> QED
      BY <1>1, <1>2, <2>1 DEF Debt
  <1>4. CASE SessionEnds
    <2>1. PICK gone \in live : live' = live \ {gone} /\ sid' = sid
      BY <1>4 DEF SessionEnds
    <2>2. CASE \E u \in Granted : reply[u].sid = gone
      <3>1. PICK u \in Granted : reply[u].sid = gone
        BY <2>2
      <3>2. DeadGrants' = DeadGrants \cup {u} /\ u \notin DeadGrants
        BY <1>0, <2>1, <3>1 DEF DeadGrants, LoginInv
      <3>3. /\ IsFiniteSet(DeadGrants')
            /\ Cardinality(DeadGrants') = Cardinality(DeadGrants) + 1
        BY <1>1, <3>2, FS_AddElement
      <3>4. ASSUME NEW t \in Tasks PROVE Exposed(t)' => Exposed(t)
        BY <1>0, <2>1, <3>1 DEF Exposed, Clean
      <3> QED
        BY <1>1, <1>2, <3>3, <3>4 DEF Debt
    <2>3. CASE ~ \E u \in Granted : reply[u].sid = gone
      <3>1. DeadGrants' = DeadGrants
        BY <1>0, <2>1, <2>3 DEF DeadGrants
      <3> QED
        BY <1>1, <1>2, <3>1 DEF Debt
    <2> QED
      BY <2>2, <2>3
  <1> QED
    BY <1>3, <1>4 DEF SetSid, FeatureSwitched

\* Every step keeps the invariant.
LEMMA StepLogins ==
    ASSUME CallInv, LoginInv, [Next /\ CountLogins]_<<vars, logins>>
    PROVE  LoginInv'
  <1>1. CASE UNCHANGED <<vars, logins>>
    BY <1>1 DEF vars, worldVars, taskVars, LoginInv, Granted, DeadGrants, Debt, Exposed, Clean
  <1>2. ASSUME CountLogins, NEW t \in Tasks,
               Begin(t) \/ ReadDone(t) \/ SetDone(t) \/ LoginDone(t) \/ GetterDone(t)
                 \/ LoginNeeded(t) \/ ConflictMet(t) \/ GivesUp(t) \/ Lost(t)
        PROVE  LoginInv'
    <2>0. TypeOK /\ TaskInv(t)
      BY DEF CallInv
    <2>1. ASSUME NEW end, Finish(t, end), UNCHANGED <<sid, worldVars>> PROVE LoginInv'
      BY <1>2, <2>0, <2>1, DropLogins DEF Finish, worldVars, DropStep, TypeOK
    <2>2. ASSUME NEW request, request \notin {"idle", "login"}, Send(t, request),
                 UNCHANGED worldVars
          PROVE  DropStep(t) /\ pc'[t] = request /\ sent'[t] = sid'
      BY <2>0, <2>2 DEF Send, worldVars, DropStep, TypeOK
    <2>3. ASSUME NEW request, request \notin {"idle", "login"}, Send(t, request),
                 UNCHANGED <<sid, worldVars>>, pc[t] \notin {"idle", "login"}
          PROVE  LoginInv'
      BY <1>2, <2>2, <2>3, SendOn, DropLogins
    <2>4. CASE Begin(t)
      <3>1. reply[t] = NoReply
        BY <2>0, <2>4 DEF Begin, TaskInv, Answered, Getters
      <3>2. DropStep(t) /\ pc[t] = "idle" /\ pc'[t] = "read" /\ sid' = sid
        BY <2>0, <2>4, <3>1 DEF Begin, worldVars, DropStep, TypeOK
      <3> QED
        BY <1>2, <3>2, BeginLogins, DropLogins
    <2>5. CASE ReadDone(t)
      BY <2>3, <2>5 DEF ReadDone
    <2>6. CASE SetDone(t)
      BY <2>1, <2>6 DEF SetDone
    <2>7. CASE LoginDone(t)
      <3>1. Resumed(t) \notin {"idle", "login"}
        BY <2>0, NextGetterType DEF Resumed, TypeOK, TaskInv, Getters
      <3>2. reply[t].sid \in Sids
        BY <2>0, <2>7 DEF LoginDone, Succeeds, TaskInv, Answered, Raise, Getters
      <3>3. t \in Granted
        BY <2>7, <3>2, NoneIsApart DEF Granted, LoginDone, Succeeds
      <3>4. /\ DropStep(t) /\ pc'[t] \notin {"idle", "login"}
            /\ sid' = reply[t].sid /\ sent'[t] = sid'
        BY <2>2, <2>7, <3>1 DEF LoginDone
      <3> QED
        BY <1>2, <3>3, <3>4, LoginDoneLogins, DropLogins
    <2>8. CASE GetterDone(t)
      <3>1. CASE asked[t] \cup {pc[t]} = Getters
        BY <2>1, <2>8, <3>1 DEF GetterDone
      <3>2. CASE asked[t] \cup {pc[t]} # Getters
        <4>1. NextGetter(asked[t] \cup {pc[t]}) \in Getters /\ pc[t] \in Getters
          BY <2>0, <2>8, <3>2, NextGetterType DEF GetterDone, TypeOK
        <4>2. "idle" \notin Getters /\ "login" \notin Getters
          BY DEF Getters
        <4> QED
          BY <2>3, <2>8, <3>2, <4>1, <4>2 DEF GetterDone
      <3> QED
        BY <3>1, <3>2
    <2>9. CASE LoginNeeded(t)
      <3>1. pc[t] \notin {"idle", "login"} /\ sent[t] \notin live
        BY <2>0, <2>9
        DEF LoginNeeded, Raises, TaskInv, Answered, AuthenticationErrors, Return, Raise
      <3>2. DropStep(t) /\ pc'[t] = "login" /\ sid' = sid
        BY <2>0, <2>9 DEF LoginNeeded, worldVars, DropStep, TypeOK
      <3> QED
        BY <1>2, <3>1, <3>2, LoginNeededLogins, DropLogins
    <2>10. CASE ConflictMet(t)
      <3>1. NextGetter({}) \in Getters /\ "idle" \notin Getters /\ "login" \notin Getters
        BY NextGetterType DEF Getters
      <3> QED
        BY <2>3, <2>10, <3>1 DEF ConflictMet
    <2>11. CASE GivesUp(t)
      BY <2>1, <2>11 DEF GivesUp
    <2>12. CASE Lost(t)
      BY <2>1, <2>12 DEF Lost
    <2> QED
      BY <1>2, <2>4, <2>5, <2>6, <2>7, <2>8, <2>9, <2>10, <2>11, <2>12
  <1> QED
    BY <1>1, <1>2, AnswerLogins, UpsetLogins DEF Next

\* A call logs in once more at most than something happened from outside: with
\* sessions that stay, one login is enough for every call, though the tasks that log
\* in beside each other replace the session id under each other's hands
\* (error_handling.py:49-51, services.py:97-98).
THEOREM LoginsAreBounded == CountedSpec => [](\A t \in Tasks : logins[t] <= 1 + upsets)
  <1>1. CallInv /\ [Next /\ CountLogins]_<<vars, logins>> => CallInv'
    <2> SUFFICES ASSUME CallInv, [Next /\ CountLogins]_<<vars, logins>> PROVE CallInv'
      OBVIOUS
    <2>1. [Next]_vars
      OBVIOUS
    <2> QED
      BY <2>1, StepInv
  <1>2. CallInv /\ LoginInv => \A t \in Tasks : logins[t] <= 1 + upsets
    <2> SUFFICES ASSUME CallInv, LoginInv, NEW t \in Tasks PROVE logins[t] <= 1 + upsets
      OBVIOUS
    <2>1. Debt(t) \in Nat /\ upsets \in Nat /\ logins[t] \in Nat
      BY FS_CardinalityType DEF LoginInv, Debt, CallInv, TypeOK
    <2> QED
      BY <2>1 DEF LoginInv
  <1> QED
    BY InitInv, InitLoginInv, StepLogins, <1>1, <1>2, PTL DEF CountedSpec

-----------------------------------------------------------------------------
(***************************************************************************)
(* Calls run out of steps.  What keeps a call from its end are requests    *)
(* that are refused for want of a session, each of which costs a login.    *)
(***************************************************************************)

\* The getters that have not answered yet.
Unasked(done) ==
    (IF "network_acceleration" \in done THEN 0 ELSE 1)
      + (IF "sqm_config" \in done THEN 0 ELSE 1)
      + (IF "parental_control_config" \in done THEN 0 ELSE 1)

\* The requests from this one to the last of its call, if no other is refused.
RequestsAhead(t, request, refused, done) ==
    CASE request = "read" -> 5
      [] request = "set" -> 4
      [] request = "login" -> 1 + IF t \in refused THEN Unasked(done) ELSE 5
      [] OTHER -> Unasked(done)

Ahead(t) == RequestsAhead(t, pc[t], conflict, asked[t])

\* The steps the call is from its end at most: a request is answered and its reply
\* is read, and each login it may still need puts up to six requests before it.
StepsLeft(t) ==
    IF pc[t] = "idle" THEN 0
    ELSE 13 * (1 + MaxUpsets - logins[t]) + 2 * Ahead(t) - IF reply[t] = NoReply THEN 0 ELSE 1

\* No getter is asked twice.
AskingInv == \A t \in Tasks : pc[t] \in Getters => pc[t] \notin asked[t]

LEMMA StepAsking ==
    ASSUME CallInv, AskingInv, [Next]_vars
    PROVE  AskingInv'
  <1>1. ASSUME NEW t \in Tasks, NEW request, pc' = [pc EXCEPT ![t] = request],
               asked'[t] \in SUBSET Getters,
               request \in Getters => request \notin asked'[t],
               \A u \in Tasks \ {t} : asked'[u] = asked[u]
        PROVE  AskingInv'
    BY <1>1 DEF AskingInv, CallInv, TypeOK
  <1>2. ASSUME UNCHANGED <<pc, asked>> PROVE AskingInv'
    BY <1>2 DEF AskingInv
  <1>3. ASSUME NEW t \in Tasks, NEW end, Finish(t, end) PROVE AskingInv'
    <2>1. "idle" \notin Getters
      BY DEF Getters
    <2> QED
      BY <1>1, <1>3, <2>1 DEF Finish, CallInv, TypeOK
  <1>4. {"idle", "read", "set", "login"} \cap Getters = {}
    BY DEF Getters
  <1>5. ASSUME NEW t \in Tasks PROVE TaskInv(t) /\ asked[t] \in SUBSET Getters
    BY <1>5 DEF CallInv, TypeOK
  <1>6. ASSUME NEW t \in Tasks, Begin(t) PROVE AskingInv'
    BY <1>1, <1>4, <1>5, <1>6 DEF Begin, callVars
  <1>7. ASSUME NEW t \in Tasks, ReadDone(t) PROVE AskingInv'
    BY <1>1, <1>4, <1>5, <1>7 DEF ReadDone, Send, callVars
  <1>8. ASSUME NEW t \in Tasks, LoginDone(t) PROVE AskingInv'
    <2>1. Resumed(t) \in Getters => Resumed(t) \notin asked[t]
      BY <1>4, <1>5, NextGetterType DEF Resumed, TaskInv
    <2> QED
      BY <1>1, <1>5, <1>8, <2>1 DEF LoginDone, Send, callVars
  <1>9. ASSUME NEW t \in Tasks, LoginNeeded(t) PROVE AskingInv'
    BY <1>1, <1>4, <1>5, <1>9 DEF LoginNeeded, callVars
  <1>10. ASSUME NEW t \in Tasks, ConflictMet(t) PROVE AskingInv'
    <2>1. asked[t] = {}
      BY <1>4, <1>5, <1>10 DEF ConflictMet, TaskInv
    <2> QED
      BY <1>1, <1>5, <1>10, <2>1 DEF ConflictMet, Send
  <1>11. ASSUME NEW t \in Tasks, GetterDone(t) PROVE AskingInv'
    <2>1. CASE asked[t] \cup {pc[t]} # Getters
      <3>1. asked[t] \cup {pc[t]} \in SUBSET Getters
        BY <1>5, <1>11 DEF GetterDone
      <3>2. asked' = [asked EXCEPT ![t] = @ \cup {pc[t]}]
            /\ pc' = [pc EXCEPT ![t] = NextGetter(asked[t] \cup {pc[t]})]
        BY <1>11, <2>1 DEF GetterDone, Send
      <3>3. asked'[t] = asked[t] \cup {pc[t]} /\ \A u \in Tasks \ {t} : asked'[u] = asked[u]
        BY <3>2 DEF CallInv, TypeOK
      <3> QED
        BY <1>1, <2>1, <3>1, <3>2, <3>3, NextGetterType
    <2> QED
      BY <1>3, <1>11, <2>1 DEF GetterDone
  <1> QED
    BY <1>2, <1>3, <1>6, <1>7, <1>8, <1>9, <1>10, <1>11
    DEF Next, vars, taskVars, callVars, Answer, SetDone, GivesUp, Lost, SessionEnds, SetSid,
        FeatureSwitched

\* Each of the three getters counts once.
LEMMA UnaskedCount ==
    ASSUME NEW done \in SUBSET Getters
    PROVE  /\ Unasked(done) \in 0..3
           /\ done = {} => Unasked(done) = 3
           /\ done # Getters => Unasked(done) >= 1
           /\ \A getter \in Getters \ done : Unasked(done \cup {getter}) = Unasked(done) - 1
  <1>1. Unasked(done) \in 0..3 /\ (done = {} => Unasked(done) = 3)
    BY DEF Unasked
  <1>2. done # Getters => Unasked(done) >= 1
    <2>1. SUFFICES ASSUME done # Getters PROVE \E getter \in Getters : getter \notin done
      <3>1. ASSUME NEW getter \in Getters, getter \notin done PROVE Unasked(done) >= 1
        BY <3>1 DEF Unasked, Getters
      <3> QED
        BY <3>1
    <2> QED
      BY <2>1
  <1>3. ASSUME NEW getter \in Getters, getter \notin done
        PROVE  Unasked(done \cup {getter}) = Unasked(done) - 1
    <2>1. CASE getter = "network_acceleration"
      BY <1>3, <2>1 DEF Unasked
    <2>2. CASE getter = "sqm_config"
      BY <1>3, <2>2 DEF Unasked
    <2>3. CASE getter = "parental_control_config"
      BY <1>3, <2>3 DEF Unasked
    <2> QED
      BY <1>3, <2>1, <2>2, <2>3 DEF Getters
  <1> QED
    BY <1>1, <1>2, <1>3

\* The number of requests ahead, by the one the call waits for.
LEMMA AheadTable ==
    ASSUME NEW t, NEW request \in Requests, NEW refused,
           NEW done \in SUBSET Getters, done # Getters
    PROVE  /\ RequestsAhead(t, request, refused, done) \in 1..6
           /\ request = "read" => RequestsAhead(t, request, refused, done) = 5
           /\ request = "set" => RequestsAhead(t, request, refused, done) = 4
           /\ request = "login" => RequestsAhead(t, request, refused, done)
                                      = 1 + IF t \in refused THEN Unasked(done) ELSE 5
           /\ request \in Getters => RequestsAhead(t, request, refused, done) = Unasked(done)
  <1>1. Unasked(done) \in 1..3
    BY UnaskedCount
  <1> QED
    BY <1>1 DEF RequestsAhead, Requests, Getters

\* What is left is a number, and at most that of a call that is about to log in first.
LEMMA StepsLeftType ==
    ASSUME CallInv, LoginInv, NEW t \in Tasks
    PROVE  /\ StepsLeft(t) \in 0 .. 13 * (2 + MaxUpsets)
           /\ pc[t] # "idle" => StepsLeft(t) > 0
  <1>1. upsets \in 0..MaxUpsets /\ MaxUpsets \in Nat /\ logins[t] \in Nat
    BY NoneIsApart DEF CallInv, TypeOK, LoginInv
  <1>2. CASE pc[t] = "idle"
    BY <1>1, <1>2 DEF StepsLeft
  <1>3. CASE pc[t] # "idle"
    <2>1. Debt(t) \in Nat /\ logins[t] + Debt(t) <= 1 + upsets
      BY <1>3, FS_CardinalityType DEF LoginInv, Debt
    <2>2. logins[t] \in 0 .. 1 + MaxUpsets
      BY <1>1, <2>1
    <2>3. Ahead(t) \in 1..6
      BY <1>3, AheadTable DEF Ahead, CallInv, TypeOK, TaskInv
    <2> QED
      BY <1>1, <1>3, <2>2, <2>3 DEF StepsLeft
  <1> QED
    BY <1>2, <1>3

\* A request that is answered has its reply.
LEMMA AnswerReplies ==
    ASSUME CallInv, NEW t \in Tasks, Answer(t)
    PROVE  reply[t] = NoReply /\ reply'[t] # NoReply
  <1>1. PICK new, grown : AnswerStep(t, new, grown)
    BY AnswerIsStep
  <1>2. reply'[t] = new /\ new # NoReply
    BY <1>1, NoneIsApart DEF AnswerStep, CallInv, TypeOK
  <1> QED
    BY <1>2 DEF Answer

\* What a step of its own brings a call nearer to its end.
LEMMA OwnStepsCount ==
    ASSUME CallInv, LoginInv, AskingInv, CallInv', LoginInv', CountLogins, NEW t \in Tasks,
           \/ Answer(t) \/ Lost(t)
           \/ ReadDone(t) \/ SetDone(t) \/ LoginDone(t) \/ GetterDone(t)
           \/ LoginNeeded(t) \/ ConflictMet(t) \/ GivesUp(t)
    PROVE  StepsLeft(t)' < StepsLeft(t)
  <1>0. TypeOK /\ TaskInv(t) /\ TypeOK' /\ TaskInv(t)' /\ MaxUpsets \in Nat
    BY NoneIsApart DEF CallInv
  <1>1. pc[t] # "idle"
    BY <1>0 DEF Answer, Lost, ReadDone, SetDone, LoginDone, GetterDone, LoginNeeded,
                ConflictMet, GivesUp, Raises, Succeeds, Getters
  <1>2. StepsLeft(t) \in Nat /\ StepsLeft(t) > 0
    BY <1>0, <1>1, StepsLeftType
  <1>3. logins[t] \in Nat /\ Ahead(t) \in 1..6
    BY <1>0, <1>1, AheadTable DEF LoginInv, Ahead, TypeOK, TaskInv
  <1>4. ASSUME pc'[t] # "idle"
        PROVE  logins'[t] \in 0 .. 1 + MaxUpsets /\ Ahead(t)' \in 1..6
    <2>1. upsets' \in 0..MaxUpsets /\ logins'[t] \in Nat
      BY <1>0 DEF TypeOK, LoginInv
    <2>2. Debt(t)' \in Nat /\ logins'[t] + Debt(t)' <= 1 + upsets'
      BY <1>4, FS_CardinalityType DEF LoginInv, Debt
    <2> QED
      BY <1>0, <1>4, <2>1, <2>2, AheadTable DEF Ahead, TypeOK, TaskInv
  <1>5. ASSUME NEW end, Finish(t, end) PROVE StepsLeft(t)' < StepsLeft(t)
    <2>1. pc'[t] = "idle"
      BY <1>0, <1>5 DEF Finish, TypeOK
    <2> QED
      BY <1>2, <2>1 DEF StepsLeft
  <1>6. CASE Answer(t)
    <2>1. reply[t] = NoReply /\ reply'[t] # NoReply
      BY <1>6, AnswerReplies
    <2>2. pc' = pc /\ Ahead(t)' = Ahead(t)
      BY <1>6 DEF Answer, Ahead
    <2>3. logins'[t] = logins[t]
      BY <1>1, <2>2, Counting DEF LoginInv
    <2> QED
      BY <1>0, <1>1, <1>3, <2>1, <2>2, <2>3 DEF StepsLeft
  <1>7. ASSUME pc'[t] \notin {"idle", "login"}, Ahead(t)' = Ahead(t) - 1,
               reply[t] # NoReply, reply'[t] = NoReply
        PROVE  StepsLeft(t)' < StepsLeft(t)
    <2>1. logins'[t] = logins[t]
      BY <1>7, Counting DEF LoginInv
    <2> QED
      BY <1>0, <1>1, <1>3, <1>7, <2>1 DEF StepsLeft
  <1>8. ASSUME NEW request, Send(t, request)
        PROVE  pc'[t] = request /\ reply'[t] = NoReply
    BY <1>0, <1>8 DEF Send, TypeOK
  <1>9. "idle" \notin Getters /\ "login" \notin Getters /\ Getters \subseteq Requests
        /\ {"read", "set", "login"} \subseteq Requests
    BY DEF Requests, Getters
  <1>10. CASE ReadDone(t)
    <2>1. pc[t] = "read" /\ pc'[t] = "set" /\ reply[t] # NoReply /\ reply'[t] = NoReply
      BY <1>8, <1>10 DEF ReadDone, Succeeds
    <2>2. Ahead(t) = 5 /\ Ahead(t)' = 4
      BY <2>1 DEF Ahead, RequestsAhead
    <2> QED
      BY <1>7, <2>1, <2>2
  <1>11. CASE LoginDone(t)
    <2>1. /\ pc[t] = "login" /\ reply[t] # NoReply
          /\ Send(t, Resumed(t)) /\ asked' = asked /\ conflict' = conflict
      BY <1>11 DEF LoginDone, Succeeds, callVars
    <2>2. asked[t] \in SUBSET Getters /\ asked[t] # Getters
      BY <1>0 DEF TypeOK, TaskInv
    <2>3. IF t \in conflict THEN Resumed(t) \in Getters ELSE Resumed(t) = "read"
      BY <2>2, NextGetterType DEF Resumed
    <2>4. pc'[t] = Resumed(t) /\ pc'[t] \notin {"idle", "login"} /\ reply'[t] = NoReply
          /\ pc'[t] \in Requests
      BY <1>8, <1>9, <2>1, <2>3
    <2>5. Ahead(t) = 1 + IF t \in conflict THEN Unasked(asked[t]) ELSE 5
      BY <1>9, <2>1, <2>2, AheadTable DEF Ahead
    <2>6. Ahead(t)' = IF t \in conflict THEN Unasked(asked[t]) ELSE 5
      BY <2>1, <2>2, <2>3, <2>4, AheadTable DEF Ahead
    <2>7. Unasked(asked[t]) \in 0..3
      BY <2>2, UnaskedCount
    <2> QED
      BY <1>7, <2>1, <2>4, <2>5, <2>6, <2>7
  <1>12. CASE GetterDone(t)
    <2> DEFINE done == asked[t] \cup {pc[t]}
    <2>1. CASE done # Getters
      <3>1. /\ pc[t] \in Getters /\ pc[t] \notin asked[t] /\ reply[t] # NoReply
            /\ asked' = [asked EXCEPT ![t] = @ \cup {pc[t]}]
            /\ Send(t, NextGetter(done))
        BY <1>12, <2>1 DEF GetterDone, Succeeds, AskingInv
      <3>2. /\ asked'[t] = done /\ done \in SUBSET Getters
            /\ asked[t] \in SUBSET Getters /\ asked[t] # Getters
        BY <1>0, <3>1 DEF TypeOK, TaskInv
      <3>3. Unasked(done) = Unasked(asked[t]) - 1 /\ Unasked(asked[t]) \in 0..3
        BY <3>1, <3>2, UnaskedCount
      <3> HIDE DEF done
      <3>4. NextGetter(done) \in Getters
        BY <2>1, <3>2, NextGetterType
      <3>5. pc'[t] \in Getters /\ pc'[t] \notin {"idle", "login"} /\ reply'[t] = NoReply
        BY <1>8, <1>9, <3>1, <3>4
      <3>6. Ahead(t) = Unasked(asked[t])
        BY <1>9, <3>1, <3>2, AheadTable DEF Ahead
      <3>7. Ahead(t)' = Unasked(done)
        BY <1>9, <2>1, <3>2, <3>5, AheadTable DEF Ahead
      <3> QED
        BY <1>7, <3>1, <3>3, <3>5, <3>6, <3>7
    <2> QED
      BY <1>5, <1>12, <2>1 DEF GetterDone
  <1>13. CASE ConflictMet(t)
    <2>1. pc[t] = "set" /\ reply[t] # NoReply /\ Send(t, NextGetter({})) /\ asked' = asked
      BY <1>13 DEF ConflictMet, Raises
    <2>2. NextGetter({}) \in Getters /\ asked[t] = {} /\ {} # Getters
      BY <1>0, <2>1, NextGetterType DEF TaskInv, Getters
    <2>3. pc'[t] \in Getters /\ pc'[t] \notin {"idle", "login"} /\ reply'[t] = NoReply
      BY <1>8, <1>9, <2>1, <2>2
    <2>4. Ahead(t) = 4
      BY <2>1 DEF Ahead, RequestsAhead
    <2>5. Ahead(t)' = Unasked({}) /\ Unasked({}) = 3
      BY <1>9, <2>1, <2>2, <2>3, AheadTable, UnaskedCount DEF Ahead
    <2> QED
      BY <1>7, <2>1, <2>3, <2>4, <2>5
  <1>14. CASE LoginNeeded(t)
    <2>1. pc[t] # "login" /\ pc'[t] = "login" /\ reply[t] # NoReply /\ reply'[t] = NoReply
      BY <1>0, <1>14 DEF LoginNeeded, Raises, TypeOK
    <2>2. logins'[t] = logins[t] + 1
      BY <2>1, Counting DEF LoginInv
    <2>3. logins'[t] \in 0 .. 1 + MaxUpsets /\ Ahead(t)' \in 1..6
      BY <1>4, <2>1
    <2> QED
      BY <1>0, <1>1, <1>3, <2>1, <2>2, <2>3 DEF StepsLeft
  <1> QED
    BY <1>5, <1>6, <1>10, <1>11, <1>12, <1>13, <1>14 DEF SetDone, GivesUp, Lost

\* A step of another task or of the world leaves the call where it is.
LEMMA OtherStepsLeave ==
    ASSUME CallInv, LoginInv, CountLogins, NEW t \in Tasks, pc[t] # "idle", Next,
           ~ (\/ Answer(t) \/ Lost(t)
              \/ ReadDone(t) \/ SetDone(t) \/ LoginDone(t) \/ GetterDone(t)
              \/ LoginNeeded(t) \/ ConflictMet(t) \/ GivesUp(t))
    PROVE  UNCHANGED <<StepsLeft(t), pc[t], sent[t], reply[t], asked[t], out[t]>>
  <1>1. /\ UNCHANGED <<pc[t], sent[t], reply[t], asked[t], out[t]>>
        /\ t \in conflict' <=> t \in conflict
    <2>1. ASSUME NEW u \in Tasks,
                 \/ Begin(u) \/ Answer(u) \/ Lost(u)
                 \/ ReadDone(u) \/ SetDone(u) \/ LoginDone(u) \/ GetterDone(u)
                 \/ LoginNeeded(u) \/ ConflictMet(u) \/ GivesUp(u)
          PROVE  /\ UNCHANGED <<pc[t], sent[t], reply[t], asked[t], out[t]>>
                 /\ t \in conflict' <=> t \in conflict
      <3>1. u # t
        BY <2>1 DEF Begin
      <3>2. ASSUME NEW end, Finish(u, end)
            PROVE  /\ UNCHANGED <<pc[t], sent[t], reply[t], asked[t], out[t]>>
                   /\ t \in conflict' <=> t \in conflict
        BY <3>1, <3>2 DEF Finish, CallInv, TypeOK
      <3>3. ASSUME Answer(u)
            PROVE  UNCHANGED <<pc[t], sent[t], reply[t], asked[t], out[t], conflict>>
        BY <3>1, <3>3, AnswerIsStep DEF AnswerStep, CallInv, TypeOK
      <3> QED
        BY <2>1, <3>1, <3>2, <3>3
        DEF Begin, Lost, ReadDone, SetDone, LoginDone, GetterDone, LoginNeeded, ConflictMet,
            GivesUp, Send, callVars, CallInv, TypeOK
    <2> QED
      BY <2>1 DEF Next, SessionEnds, SetSid, FeatureSwitched, taskVars, callVars
  <1>2. logins'[t] = logins[t]
    BY <1>1, Counting DEF LoginInv
  <1>3. Ahead(t)' = Ahead(t)
    BY <1>1 DEF Ahead, RequestsAhead
  <1> QED
    BY <1>1, <1>2, <1>3 DEF StepsLeft

\* Whatever the other tasks do and whatever happens from outside, a call of an
\* application that logs in again only ever gets nearer to its end, from which it is
\* never more than 13 * (2 + MaxUpsets) steps away: it does not loop on
\* re-authentication (error_handling.py:49-51, services.py:97-98).  With the fairness
\* of FairSpec, that every request is answered or times out, this is why
\* CallsComeToAnEnd.
CallsGetNearerToTheirEnd ==
    [][\A t \in Tasks : pc[t] # "idle" =>
          \/ StepsLeft(t)' < StepsLeft(t)
          \/ UNCHANGED <<StepsLeft(t), pc[t], sent[t], reply[t], asked[t], out[t]>>]_<<vars, logins>>

THEOREM CallsRunOutOfSteps ==
    CountedSpec => /\ [](\A t \in Tasks : StepsLeft(t) \in 0 .. 13 * (2 + MaxUpsets))
                   /\ CallsGetNearerToTheirEnd
  <1> DEFINE Inv == CallInv /\ LoginInv /\ AskingInv
             Nearer == \A t \in Tasks : pc[t] # "idle" =>
                          \/ StepsLeft(t)' < StepsLeft(t)
                          \/ UNCHANGED <<StepsLeft(t), pc[t], sent[t], reply[t], asked[t], out[t]>>
  <1>1. Init /\ logins = [t \in Tasks |-> 0] => Inv
    <2>1. Init => AskingInv
      BY DEF Init, AskingInv, Getters
    <2> QED
      BY <2>1, InitInv, InitLoginInv
  <1>2. Inv /\ [Next /\ CountLogins]_<<vars, logins>> => Inv'
    <2> SUFFICES ASSUME Inv, [Next /\ CountLogins]_<<vars, logins>> PROVE Inv'
      OBVIOUS
    <2>1. [Next]_vars
      OBVIOUS
    <2> QED
      BY <2>1, StepInv, StepAsking, StepLogins
  <1>3. Inv => \A t \in Tasks : StepsLeft(t) \in 0 .. 13 * (2 + MaxUpsets)
    BY StepsLeftType
  <1>4. Inv /\ Inv' /\ [Next /\ CountLogins]_<<vars, logins>> => [Nearer]_<<vars, logins>>
    <2> SUFFICES ASSUME Inv, Inv', Next, CountLogins PROVE Nearer
      OBVIOUS
    <2> QED
      BY OwnStepsCount, OtherStepsLeave
  <1> QED
    BY <1>1, <1>2, <1>3, <1>4, PTL DEF CountedSpec, CallsGetNearerToTheirEnd
=============================================================================
