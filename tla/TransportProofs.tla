--------------------------- MODULE TransportProofs ---------------------------
(***************************************************************************)
(* The safety properties of the transport, for every number of tasks,      *)
(* sessions and session ids and every set of replies.                      *)
(***************************************************************************)
EXTENDS Transport, ErrorHandlingLemmas

USE TransportAssumption DEF Released, AuthKept, SlotEmptied, ToClose

TaskTypeOK ==
    /\ pc \in [Tasks -> Suspended \cup {"idle"}]
    /\ op \in [Tasks -> Ops]
    /\ on \in [Tasks -> Sessions \cup {NoSession}]
    /\ held \subseteq Tasks
    /\ out \in [Tasks -> Ends]

-----------------------------------------------------------------------------
(* The operators the actions are built from. *)

\* What _post can end with: never a raw timeout or connection error.
LEMMA PostedOutcome ==
    ASSUME NEW t \in Tasks, NEW o \in Posted(t)
    PROVE  /\ o \in Outcomes
           /\ o.kind = "raise" => o.is \in Ends \ {"TimeoutError", "ClientError",
                                     "RuntimeError", "none", "done", "CancelledError"}
           /\ pc[t] \in {"sent", "reading"}
  <1> DEFINE Lost == {Translate(Raise(e)) : e \in {"TimeoutError", "ClientError"}}
  <1>1. /\ pc[t] \in {"sent", "reading"}
        /\ o \in Lost \cup RepliesTranslated
    BY DEF Posted
  <1>2. CASE o \in Lost
    <2>1. o = Raise("UnsuccessfulRequest")
      BY <1>2 DEF Translate
    <2> QED
      BY <1>1, <2>1 DEF Raise, Outcomes, Exceptions, APIClientErrors, Ends
  <1>3. CASE o \in RepliesTranslated
    <2>1. PICK r \in Responses : o = Translate(raise_for_status(r))
      BY <1>3 DEF RepliesTranslated
    <2>2. raise_for_status(r) \in Outcomes
      BY StatusOutcome
    <2>3. CASE o = Raise("UnsuccessfulRequest")
      BY <1>1, <2>3 DEF Raise, Outcomes, Exceptions, APIClientErrors, Ends
    <2>4. CASE o # Raise("UnsuccessfulRequest")
      <3>1. o = raise_for_status(r) /\ o \notin {Raise("TimeoutError"), Raise("ClientError")}
        BY <2>1, <2>4 DEF Translate
      <3> QED
        BY <1>1, <2>2, <3>1
        DEF Outcomes, Raise, Ends, Exceptions, APIClientErrors, NonZeroResponses,
            AuthenticationErrors, ReadErrors, Builtins
    <2> QED
      BY <2>3, <2>4
  <1> QED
    BY <1>1, <1>2, <1>3

\* What login() makes of an exception: a KeyError or ValueError never leaves it.
LEMMA LoginRaisesType ==
    ASSUME NEW e \in Ends \cup {"KeyError"}
    PROVE  LoginRaises(e) \in Ends /\ LoginRaises(e) # "ValueError"
  BY DEF LoginRaises, Ends, Exceptions, APIClientErrors

LEMMA FinishType ==
    ASSUME TaskTypeOK, NEW t \in Tasks, NEW end \in Ends, Finish(t, end)
    PROVE  /\ pc' \in [Tasks -> Suspended \cup {"idle"}]
           /\ on' \in [Tasks -> Sessions \cup {NoSession}]
           /\ held' \subseteq Tasks
           /\ out' \in [Tasks -> Ends]
  BY DEF TaskTypeOK, Finish

\* Sending keeps the types, whichever request is sent.
LEMMA SendType ==
    ASSUME TypeOK, NEW t \in Tasks, NEW what \in Ops, Send(t, what)
    PROVE  TypeOK'
  <1> USE DEF TypeOK
  <1>1. PICK s \in Sessions :
           /\ GetSession(s)
           /\ IF life'[s] = "open"
              THEN /\ pc' = [pc EXCEPT ![t] = "sent"]
                   /\ on' = [on EXCEPT ![t] = s]
                   /\ out' = [out EXCEPT ![t] = "none"]
                   /\ UNCHANGED held
              ELSE Finish(t, "RuntimeError")
    BY DEF Send
  <1>2. owns' \in BOOLEAN /\ slot' \in Sessions \cup {NoSession}
           /\ life' \in [Sessions -> {"unborn", "open", "closed", "gone"}]
    BY <1>1 DEF GetSession, sessionVars
  <1>3. /\ pc' \in [Tasks -> Suspended \cup {"idle"}]
        /\ on' \in [Tasks -> Sessions \cup {NoSession}]
        /\ held' \subseteq Tasks
        /\ out' \in [Tasks -> Ends]
    <2>1. CASE life'[s] = "open"
      BY <1>1, <2>1 DEF Suspended, Ends
    <2>2. CASE life'[s] # "open"
      BY <1>1, <2>2, FinishType DEF TaskTypeOK, Ends
    <2> QED
      BY <2>1, <2>2
  <1>4. op' \in [Tasks -> Ops] /\ UNCHANGED authVars
    BY DEF Send
  <1> QED
    BY <1>2, <1>3, <1>4 DEF authVars

-----------------------------------------------------------------------------
(* Type correctness. *)

\* Each variable stays in its type, whatever the tasks, the router and the
\* application do.
THEOREM TypeCorrect == Spec => []TypeOK
  <1>1. Init => TypeOK
    <2> SUFFICES ASSUME Init
                 PROVE  TypeOK
      OBVIOUS
    <2>1. /\ owns \in BOOLEAN /\ slot \in Sessions \cup {NoSession}
          /\ life \in [Sessions -> {"unborn", "open", "closed", "gone"}]
      BY DEF Init
    <2>2. sid \in Sids \cup {NoSid} /\ loggedIn \in BOOLEAN
      BY DEF Init
    <2>3. TaskTypeOK
      BY DEF Init, TaskTypeOK, Ops, Ends
    <2> QED
      BY <2>1, <2>2, <2>3 DEF TypeOK, TaskTypeOK
  <1>2. TypeOK /\ [Next]_vars => TypeOK'
    <2> SUFFICES ASSUME TypeOK, [Next]_vars
                 PROVE  TypeOK'
      OBVIOUS
    <2>0. TaskTypeOK
      BY DEF TypeOK, TaskTypeOK
    <2>1. ASSUME NEW t \in Tasks, Request(t) \/ Reachable(t) \/ Login(t)
          PROVE  TypeOK'
      BY <2>1, SendType DEF Request, Reachable, Login, Ops
    <2>2. ASSUME NEW t \in Tasks, Close(t)
          PROVE  TypeOK'
      <3>1. CASE owns /\ slot # NoSession /\ life[slot] = "open"
        BY <2>2, <3>1 DEF Close, TypeOK, authVars, Ops, Suspended, Ends
      <3>2. CASE ~(owns /\ slot # NoSession /\ life[slot] = "open")
        <4>1. Finish(t, "done") /\ UNCHANGED life
          BY <2>2, <3>2 DEF Close
        <4> QED
          BY <2>0, <2>2, <4>1, FinishType DEF Close, TypeOK, authVars, Ops, Ends
      <3> QED
        BY <3>1, <3>2
    <2>3. ASSUME NEW t \in Tasks, ResponseArrives(t)
          PROVE  TypeOK'
      BY <2>3 DEF ResponseArrives, TypeOK, sessionVars, authVars, Suspended
    <2>4. ASSUME NEW t \in Tasks, HashDone(t)
          PROVE  TypeOK'
      <3>1. CASE Send(t, "get_sid")
        BY <3>1, SendType DEF Ops
      <3>2. ASSUME NEW e \in HashFailures, Finish(t, LoginRaises(e)),
                   UNCHANGED <<sessionVars, authVars, op>>
            PROVE  TypeOK'
        <4>1. LoginRaises(e) \in Ends
          BY LoginRaisesType DEF Ends, Exceptions, ReadErrors, Builtins
        <4> QED
          BY <2>0, <3>2, <4>1, FinishType DEF TypeOK, sessionVars, authVars
      <3> QED
        BY <2>4, <3>1, <3>2 DEF HashDone
    <2>5. ASSUME NEW t \in Tasks, CloseDone(t) \/ Cancel(t)
          PROVE  TypeOK'
      BY <2>0, <2>5, FinishType
      DEF CloseDone, Cancel, TypeOK, sessionVars, authVars, Ends
    <2>6. ASSUME NEW t \in Tasks, EndRequest(t)
          PROVE  TypeOK'
      <3>1. PICK o \in Posted(t) : Finish(t, IF o.kind = "raise" THEN o.is ELSE "done")
        BY <2>6 DEF EndRequest
      <3>2. (IF o.kind = "raise" THEN o.is ELSE "done") \in Ends
        BY PostedOutcome DEF Ends
      <3> QED
        BY <2>0, <2>6, <3>1, <3>2, FinishType DEF EndRequest, TypeOK, sessionVars, authVars
    <2>7. ASSUME NEW t \in Tasks, EndReachable(t)
          PROVE  TypeOK'
      <3>1. PICK o \in Posted(t) :
               Finish(t, IF o.kind = "raise"
                         THEN IF o.is \in APIClientErrors THEN "false" ELSE o.is
                         ELSE IF Truthy(o.is) THEN "true" ELSE "false")
        BY <2>7 DEF EndReachable
      <3>2. (IF o.kind = "raise"
             THEN IF o.is \in APIClientErrors THEN "false" ELSE o.is
             ELSE IF Truthy(o.is) THEN "true" ELSE "false") \in Ends
        BY PostedOutcome DEF Ends
      <3> QED
        BY <2>0, <2>7, <3>1, <3>2, FinishType
        DEF EndReachable, TypeOK, sessionVars, authVars
    <2>8. ASSUME NEW t \in Tasks, EndChallenge(t)
          PROVE  TypeOK'
      <3>1. PICK o \in Posted(t) :
               \/ /\ pc' = [pc EXCEPT ![t] = "hashing"]
                  /\ on' = [on EXCEPT ![t] = NoSession]
                  /\ held' = held \ {t}
                  /\ UNCHANGED out
               \/ /\ o.kind = "raise"
                  /\ Finish(t, LoginRaises(o.is))
               \/ Finish(t, LoginRaises(
                        IF o.is \in PlainValues THEN "TypeError" ELSE "KeyError"))
        BY <2>8 DEF EndChallenge
      <3>2. UNCHANGED <<sessionVars, authVars, op>>
        BY <2>8 DEF EndChallenge
      <3>3. o.kind = "raise" => LoginRaises(o.is) \in Ends
        BY PostedOutcome, LoginRaisesType
      <3>4. LoginRaises(IF o.is \in PlainValues THEN "TypeError" ELSE "KeyError") \in Ends
        BY LoginRaisesType DEF Ends, Exceptions, Builtins
      <3>5. TaskTypeOK'
        BY <2>0, <3>1, <3>2, <3>3, <3>4, FinishType
        DEF TaskTypeOK, Suspended
      <3> QED
        BY <3>2, <3>5 DEF TypeOK, TaskTypeOK, sessionVars, authVars
    <2>9. ASSUME NEW t \in Tasks, EndGetSid(t)
          PROVE  TypeOK'
      <3>1. PICK o \in Posted(t) :
               \/ o.kind = "return" /\ StoreSid(t, o.is)
               \/ o.kind = "raise" /\ Finish(t, LoginRaises(o.is)) /\ UNCHANGED authVars
        BY <2>9 DEF EndGetSid
      <3>2. UNCHANGED <<sessionVars, op>>
        BY <2>9 DEF EndGetSid
      <3>3. CASE o.kind = "raise" /\ Finish(t, LoginRaises(o.is)) /\ UNCHANGED authVars
        <4>1. LoginRaises(o.is) \in Ends
          BY <3>3, PostedOutcome, LoginRaisesType
        <4> QED
          BY <2>0, <3>2, <3>3, <4>1, FinishType DEF TypeOK, sessionVars, authVars
      <3>4. CASE StoreSid(t, o.is)
        <4>1. \E end \in Ends : Finish(t, end)
          BY <3>4, LoginRaisesType DEF StoreSid, Ends, Exceptions, Builtins
        <4>2. sid' \in Sids \cup {NoSid} /\ loggedIn' \in BOOLEAN
          BY <3>4 DEF StoreSid, TypeOK, authVars
        <4> QED
          BY <2>0, <3>2, <4>1, <4>2, FinishType DEF TypeOK, sessionVars
      <3> QED
        BY <3>1, <3>3, <3>4
    <2>10. ASSUME SetSid \/ CallerCloses
           PROVE  TypeOK'
      BY <2>10 DEF SetSid, CallerCloses, TypeOK, sessionVars, authVars, taskVars
    <2>11. ASSUME UNCHANGED vars
           PROVE  TypeOK'
      BY <2>11 DEF vars, TypeOK, sessionVars, authVars, taskVars
    <2> QED
      BY <2>1, <2>2, <2>3, <2>4, <2>5, <2>6, <2>7, <2>8, <2>9, <2>10, <2>11 DEF Next
  <1> QED
    BY <1>1, <1>2, PTL DEF Spec

-----------------------------------------------------------------------------
(* The session slot. *)

\* The strengthening of NoOrphanSession: a supplied session never leaves the slot
\* and is the only one there is, which makes an empty slot a sign of ownership.
SessionInv ==
    /\ NoOrphanSession
    /\ ~owns => /\ slot \in Sessions /\ OpenSessions \subseteq {slot}
                /\ life[slot] \in {"open", "gone"}

\* The four things a step can do to the sessions.
Created(s) ==
    /\ owns /\ slot = NoSession /\ life[s] = "unborn"
    /\ slot' = s
    /\ life' = [life EXCEPT ![s] = "open"]
    /\ UNCHANGED owns

Closed(s) ==
    /\ owns /\ slot = s /\ life[s] = "open"
    /\ slot' = NoSession
    /\ life' = [life EXCEPT ![s] = "closed"]
    /\ UNCHANGED owns

LEMMA SessionSteps ==
    ASSUME TypeOK, SessionInv, Next
    PROVE  \/ UNCHANGED sessionVars
           \/ \E s \in Sessions : Created(s)
           \/ \E s \in Sessions : Closed(s)
           \/ CallerCloses
  <1>1. ASSUME NEW t \in Tasks, NEW what, Send(t, what)
        PROVE  UNCHANGED sessionVars \/ \E s \in Sessions : Created(s)
    <2>1. PICK s \in Sessions : GetSession(s)
      BY <1>1 DEF Send
    <2>2. slot = NoSession => owns
      BY DEF SessionInv
    <2> QED
      BY <2>1, <2>2 DEF GetSession, Created
  <1>2. ASSUME NEW t \in Tasks, Request(t) \/ Reachable(t) \/ Login(t)
        PROVE  UNCHANGED sessionVars \/ \E s \in Sessions : Created(s)
    BY <1>1, <1>2 DEF Request, Reachable, Login
  <1>3. ASSUME NEW t \in Tasks, HashDone(t)
        PROVE  UNCHANGED sessionVars \/ \E s \in Sessions : Created(s)
    BY <1>1, <1>3 DEF HashDone
  <1>4. ASSUME NEW t \in Tasks, Close(t)
        PROVE  UNCHANGED sessionVars \/ \E s \in Sessions : Closed(s)
    <2>1. CASE owns /\ slot # NoSession
      <3>1. slot \in Sessions /\ life[slot] = "open"
        BY <2>1 DEF TypeOK, SessionInv, NoOrphanSession, OpenSessions
      <3> QED
        BY <1>4, <2>1, <3>1 DEF Close, Closed
    <2>2. CASE ~(owns /\ slot # NoSession)
      BY <1>4, <2>2 DEF Close, sessionVars
    <2> QED
      BY <2>1, <2>2
  <1>5. ASSUME NEW t \in Tasks,
               \/ ResponseArrives(t) \/ CloseDone(t) \/ Cancel(t)
               \/ EndRequest(t) \/ EndReachable(t) \/ EndChallenge(t) \/ EndGetSid(t)
        PROVE  UNCHANGED sessionVars
    BY <1>5 DEF ResponseArrives, CloseDone, Cancel, EndRequest, EndReachable,
                EndChallenge, EndGetSid
  <1>6. SetSid => UNCHANGED sessionVars
    BY DEF SetSid
  <1> QED
    BY <1>2, <1>3, <1>4, <1>5, <1>6 DEF Next

LEMMA SessionInvariant == Spec => []SessionInv
  <1>1. Init => SessionInv
    BY DEF Init, SessionInv, NoOrphanSession, OpenSessions
  <1>2. TypeOK /\ SessionInv /\ [Next]_vars => SessionInv'
    <2> SUFFICES ASSUME TypeOK, SessionInv, [Next]_vars
                 PROVE  SessionInv'
      OBVIOUS
    <2>1. CASE UNCHANGED sessionVars
      BY <2>1 DEF SessionInv, NoOrphanSession, OpenSessions, sessionVars
    <2>2. ASSUME NEW s \in Sessions, Created(s)
          PROVE  SessionInv'
      BY <2>2 DEF Created, TypeOK, SessionInv, NoOrphanSession, OpenSessions
    <2>3. ASSUME NEW s \in Sessions, Closed(s)
          PROVE  SessionInv'
      BY <2>3 DEF Closed, TypeOK, SessionInv, NoOrphanSession, OpenSessions
    <2>4. CASE CallerCloses
      BY <2>4 DEF CallerCloses, TypeOK, SessionInv, NoOrphanSession, OpenSessions
    <2> QED
      BY <2>1, <2>2, <2>3, <2>4, SessionSteps DEF vars
  <1> QED
    BY <1>1, <1>2, TypeCorrect, PTL DEF Spec

\* However calls and close() interleave, an open owned session is the one in the
\* slot, for any number of tasks.
THEOREM NoSessionIsOrphaned == Spec => []NoOrphanSession
  <1>1. SessionInv => NoOrphanSession
    BY DEF SessionInv
  <1> QED
    BY <1>1, SessionInvariant, PTL

\* Each step of the transport is a step of SessionOwner, or a stutter.
LEMMA OwnerSteps ==
    ASSUME TypeOK, SessionInv, [Next]_vars
    PROVE  [Owner!Next]_Owner!vars
  <1>1. CASE UNCHANGED sessionVars
    BY <1>1 DEF sessionVars, Owner!vars
  <1>2. ASSUME NEW s \in Sessions, Created(s)
        PROVE  Owner!Next
    <2>1. Owner!Open = {}
      BY <1>2 DEF Created, SessionInv, NoOrphanSession, OpenSessions, Owner!Open
    <2>2. Owner!Create(s)
      BY <1>2, <2>1 DEF Created, Owner!Create
    <2> QED
      BY <2>2 DEF Owner!Next
  <1>3. ASSUME NEW s \in Sessions, Closed(s)
        PROVE  Owner!Next
    BY <1>3 DEF Closed, Owner!Close, Owner!Next
  <1>4. CASE CallerCloses
    <2>1. slot \in Sessions
      BY <1>4 DEF CallerCloses, SessionInv
    <2> QED
      BY <1>4, <2>1 DEF CallerCloses, Owner!CallerCloses, Owner!Next
  <1> QED
    BY <1>1, <1>2, <1>3, <1>4, SessionSteps DEF vars

\* The transport implements the session ownership its class promises: initial
\* states map to initial states, each step to a step or a stutter.
THEOREM ImplementsSessionOwner == Spec => OwnerSpec
  <1>1. Init => Owner!Init
    BY DEF Init, Owner!Init
  <1>2. TypeOK /\ SessionInv /\ [Next]_vars => [Owner!Next]_Owner!vars
    BY OwnerSteps
  <1> QED
    BY <1>1, <1>2, TypeCorrect, SessionInvariant, PTL DEF Spec, OwnerSpec, Owner!Spec

-----------------------------------------------------------------------------
(* Where tasks are suspended, and what they hold there. *)

\* Finishing, from wherever the task was suspended, gives the response back.
LEMMA FinishReleases ==
    ASSUME TypeOK, NoLeakedConnection, NEW t \in Tasks, NEW end, Finish(t, end)
    PROVE  NoLeakedConnection'
  BY DEF TypeOK, NoLeakedConnection, Finish

\* A task that is not reading sends another request without holding a response.
LEMMA SendHoldsNothing ==
    ASSUME TypeOK, NoLeakedConnection, NEW t \in Tasks, pc[t] # "reading",
           NEW what, Send(t, what)
    PROVE  NoLeakedConnection'
  <1>1. \/ pc' = [pc EXCEPT ![t] = "sent"] /\ UNCHANGED held
        \/ Finish(t, "RuntimeError")
    BY DEF Send
  <1>2. CASE pc' = [pc EXCEPT ![t] = "sent"] /\ UNCHANGED held
    BY <1>2 DEF TypeOK, NoLeakedConnection
  <1> QED
    BY <1>1, <1>2, FinishReleases

\* Every response is released on every path, including cancellation, for any
\* number of tasks.
THEOREM ResponsesAreReleased == Spec => []NoLeakedConnection
  <1>1. Init => NoLeakedConnection
    BY DEF Init, NoLeakedConnection
  <1>2. TypeOK /\ NoLeakedConnection /\ [Next]_vars => NoLeakedConnection'
    <2> SUFFICES ASSUME TypeOK, NoLeakedConnection, [Next]_vars
                 PROVE  NoLeakedConnection'
      OBVIOUS
    <2>1. ASSUME NEW t \in Tasks, Request(t) \/ Reachable(t) \/ Login(t)
          PROVE  NoLeakedConnection'
      BY <2>1, SendHoldsNothing DEF Request, Reachable, Login
    <2>2. ASSUME NEW t \in Tasks, Close(t)
          PROVE  NoLeakedConnection'
      <3>1. \/ Finish(t, "done")
            \/ pc[t] = "idle" /\ pc' = [pc EXCEPT ![t] = "closing"] /\ UNCHANGED held
        BY <2>2 DEF Close
      <3>2. CASE pc[t] = "idle" /\ pc' = [pc EXCEPT ![t] = "closing"] /\ UNCHANGED held
        BY <3>2 DEF TypeOK, NoLeakedConnection
      <3> QED
        BY <3>1, <3>2, FinishReleases
    <2>3. ASSUME NEW t \in Tasks, ResponseArrives(t)
          PROVE  NoLeakedConnection'
      BY <2>3 DEF ResponseArrives, TypeOK, NoLeakedConnection
    <2>4. ASSUME NEW t \in Tasks, HashDone(t)
          PROVE  NoLeakedConnection'
      BY <2>4, SendHoldsNothing, FinishReleases DEF HashDone
    <2>5. ASSUME NEW t \in Tasks,
                 CloseDone(t) \/ Cancel(t) \/ EndRequest(t) \/ EndReachable(t)
          PROVE  NoLeakedConnection'
      BY <2>5, FinishReleases DEF CloseDone, Cancel, EndRequest, EndReachable
    <2>6. ASSUME NEW t \in Tasks, EndChallenge(t)
          PROVE  NoLeakedConnection'
      <3>1. \/ \E end : Finish(t, end)
            \/ pc' = [pc EXCEPT ![t] = "hashing"] /\ held' = held \ {t}
        BY <2>6 DEF EndChallenge
      <3>2. CASE pc' = [pc EXCEPT ![t] = "hashing"] /\ held' = held \ {t}
        BY <3>2 DEF TypeOK, NoLeakedConnection
      <3> QED
        BY <3>1, <3>2, FinishReleases
    <2>7. ASSUME NEW t \in Tasks, EndGetSid(t)
          PROVE  NoLeakedConnection'
      <3>1. \E end : Finish(t, end)
        BY <2>7 DEF EndGetSid, StoreSid
      <3> QED
        BY <3>1, FinishReleases
    <2>8. ASSUME SetSid \/ CallerCloses \/ UNCHANGED vars
          PROVE  NoLeakedConnection'
      BY <2>8 DEF SetSid, CallerCloses, vars, taskVars, NoLeakedConnection
    <2> QED
      BY <2>1, <2>2, <2>3, <2>4, <2>5, <2>6, <2>7, <2>8 DEF Next
  <1> QED
    BY <1>1, <1>2, TypeCorrect, PTL DEF Spec

\* Only a login is ever suspended in hashing.
HashingInv == \A t \in Tasks : pc[t] = "hashing" => op[t] = "challenge"

LEMMA HashingInvariant == Spec => []HashingInv
  <1>1. Init => HashingInv
    BY DEF Init, HashingInv
  <1>2. TypeOK /\ HashingInv /\ [Next]_vars => HashingInv'
    <2> SUFFICES ASSUME TypeOK, HashingInv, [Next]_vars
                 PROVE  HashingInv'
      OBVIOUS
    <2>1. ASSUME NEW t \in Tasks, NEW what, Send(t, what)
          PROVE  HashingInv'
      <3>1. \E p \in {"sent", "idle"} : pc' = [pc EXCEPT ![t] = p]
        BY <2>1 DEF Send, Finish
      <3>2. op' = [op EXCEPT ![t] = what]
        BY <2>1 DEF Send
      <3> QED
        BY <3>1, <3>2 DEF TypeOK, HashingInv
    <2>2. ASSUME NEW t \in Tasks, NEW end, Finish(t, end), UNCHANGED op
          PROVE  HashingInv'
      BY <2>2 DEF Finish, TypeOK, HashingInv
    <2>3. ASSUME NEW t \in Tasks, Request(t) \/ Reachable(t) \/ Login(t) \/ HashDone(t)
          PROVE  HashingInv'
      BY <2>1, <2>2, <2>3 DEF Request, Reachable, Login, HashDone
    <2>4. ASSUME NEW t \in Tasks, Close(t)
          PROVE  HashingInv'
      <3>1. \E p \in {"closing", "idle"} : pc' = [pc EXCEPT ![t] = p]
        BY <2>4 DEF Close, Finish
      <3>2. op' = [op EXCEPT ![t] = "close"]
        BY <2>4 DEF Close
      <3> QED
        BY <3>1, <3>2 DEF TypeOK, HashingInv
    <2>5. ASSUME NEW t \in Tasks, ResponseArrives(t)
          PROVE  HashingInv'
      BY <2>5 DEF ResponseArrives, TypeOK, HashingInv
    <2>6. ASSUME NEW t \in Tasks,
                 CloseDone(t) \/ Cancel(t) \/ EndRequest(t) \/ EndReachable(t)
          PROVE  HashingInv'
      BY <2>2, <2>6 DEF CloseDone, Cancel, EndRequest, EndReachable
    <2>7. ASSUME NEW t \in Tasks, EndChallenge(t)
          PROVE  HashingInv'
      <3>1. \/ \E end : Finish(t, end)
            \/ pc' = [pc EXCEPT ![t] = "hashing"]
        BY <2>7 DEF EndChallenge
      <3>2. op[t] = "challenge" /\ UNCHANGED op
        BY <2>7 DEF EndChallenge
      <3>3. CASE pc' = [pc EXCEPT ![t] = "hashing"]
        BY <3>2, <3>3 DEF TypeOK, HashingInv
      <3> QED
        BY <2>2, <3>1, <3>2, <3>3
    <2>8. ASSUME NEW t \in Tasks, EndGetSid(t)
          PROVE  HashingInv'
      <3>1. (\E end : Finish(t, end)) /\ UNCHANGED op
        BY <2>8 DEF EndGetSid, StoreSid
      <3> QED
        BY <2>2, <3>1
    <2>9. ASSUME SetSid \/ CallerCloses \/ UNCHANGED vars
          PROVE  HashingInv'
      BY <2>9 DEF SetSid, CallerCloses, vars, taskVars, HashingInv
    <2> QED
      BY <2>3, <2>4, <2>5, <2>6, <2>7, <2>8, <2>9 DEF Next
  <1> QED
    BY <1>1, <1>2, TypeCorrect, PTL DEF Spec

-----------------------------------------------------------------------------
(* How calls end. *)

\* The caller has closed the session it supplied.
Gone == ~owns /\ slot \in Sessions /\ life[slot] = "gone"

LEMMA OwnershipIsFixed ==
    ASSUME TypeOK, SessionInv, [Next]_vars
    PROVE  UNCHANGED owns /\ (Gone => Gone')
  <1>1. UNCHANGED sessionVars => UNCHANGED owns /\ (Gone => Gone')
    BY DEF sessionVars, Gone
  <1> QED
    BY <1>1, SessionSteps DEF Created, Closed, CallerCloses, Gone, vars

\* With a good router, _post ends with an APIClientError or an object.
LEMMA PostedGood ==
    ASSUME GoodRouter, NEW t \in Tasks, NEW o \in Posted(t)
    PROVE  /\ o.kind = "raise" => o.is \in APIClientErrors
           /\ o.kind = "return" => o.is \in DictValues \cup {"envelope"}
  <1> DEFINE Lost == {Translate(Raise(e)) : e \in {"TimeoutError", "ClientError"}}
  <1>1. o \in Lost \cup RepliesTranslated
    BY DEF Posted
  <1>2. CASE o = Raise("UnsuccessfulRequest")
    BY <1>2 DEF Raise, APIClientErrors
  <1>3. CASE o # Raise("UnsuccessfulRequest")
    <2>1. o \in RepliesTranslated
      BY <1>1, <1>3 DEF Translate
    <2>2. PICK r \in Replies : o = Translate(raise_for_status(r))
      BY <2>1 DEF RepliesTranslated
    <2>3. o = raise_for_status(r)
      BY <1>3, <2>2 DEF Translate
    <2>4. /\ r \in Responses /\ WellFormed(r)
          /\ r.body.kind = "result" => r.body.result.value \in DictValues
      BY <2>2 DEF GoodRouter
    <2> QED
      BY <2>3, <2>4, WellFormedOutcome, WellFormedValue
  <1> QED
    BY <1>2, <1>3

\* How a call that did `what` may end: the strengthening of the three properties
\* about exceptions, one conjunct for each.
EndOK(what, end) ==
    /\ end \notin {"TimeoutError", "ClientError"}
    /\ what \in {"challenge", "get_sid"} => end # "ValueError"
    /\ end = "RuntimeError" => Gone
    /\ GoodRouter /\ owns =>
          /\ end \in APIClientErrors
                \cup {"none", "done", "true", "false", "CancelledError"}
          /\ what = "reachable" => end \notin APIClientErrors

EndsInv == \A t \in Tasks : EndOK(op[t], out[t])

\* A step that ends the call of one task in an allowed way keeps EndsInv.
LEMMA FinishOK ==
    ASSUME TypeOK, EndsInv, NEW t \in Tasks, NEW what \in Ops, NEW end \in Ends,
           EndOK(what, end), UNCHANGED owns, Gone => Gone',
           op' = [op EXCEPT ![t] = what], out' = [out EXCEPT ![t] = end]
    PROVE  EndsInv'
  BY DEF TypeOK, EndsInv, EndOK

LEMMA SendOK ==
    ASSUME TypeOK, SessionInv, EndsInv, NEW t \in Tasks, NEW what \in Ops,
           Send(t, what), UNCHANGED owns, Gone => Gone'
    PROVE  EndsInv'
  <1>1. PICK s \in Sessions :
           /\ GetSession(s)
           /\ IF life'[s] = "open" THEN out' = [out EXCEPT ![t] = "none"]
              ELSE out' = [out EXCEPT ![t] = "RuntimeError"]
    BY DEF Send, Finish
  <1>2. op' = [op EXCEPT ![t] = what]
    BY DEF Send
  <1>3. CASE life'[s] = "open"
    <2>1. EndOK(what, "none")
      BY DEF EndOK, APIClientErrors, NonZeroResponses, AuthenticationErrors
    <2> QED
      BY <1>1, <1>2, <1>3, <2>1, FinishOK DEF Ends
  <1>4. CASE life'[s] # "open"
    <2>1. Gone
      BY <1>1, <1>4
      DEF GetSession, SessionInv, NoOrphanSession, OpenSessions, TypeOK, sessionVars, Gone
    <2>2. EndOK(what, "RuntimeError")
      BY <2>1 DEF EndOK, Gone
    <2> QED
      BY <1>1, <1>2, <1>4, <2>2, FinishOK DEF Ends
  <1> QED
    BY <1>3, <1>4

LEMMA EndsInvariant == Spec => []EndsInv
  <1>1. Init => EndsInv
    BY DEF Init, EndsInv, EndOK, APIClientErrors, NonZeroResponses, AuthenticationErrors
  <1>2. TypeOK /\ SessionInv /\ HashingInv /\ EndsInv /\ [Next]_vars => EndsInv'
    <2> SUFFICES ASSUME TypeOK, SessionInv, HashingInv, EndsInv, [Next]_vars
                 PROVE  EndsInv'
      OBVIOUS
    <2> USE DEF APIClientErrors, NonZeroResponses, AuthenticationErrors
    <2>0. UNCHANGED owns /\ (Gone => Gone')
      BY OwnershipIsFixed
    <2>1. ASSUME NEW t \in Tasks, NEW end \in Ends, Finish(t, end), UNCHANGED op,
                 EndOK(op[t], end)
          PROVE  EndsInv'
      <3>1. op[t] \in Ops /\ op' = [op EXCEPT ![t] = op[t]]
        BY <2>1 DEF TypeOK
      <3> QED
        BY <2>0, <2>1, <3>1, FinishOK DEF Finish
    <2>2. ASSUME NEW t \in Tasks, Request(t) \/ Reachable(t) \/ Login(t)
          PROVE  EndsInv'
      BY <2>0, <2>2, SendOK DEF Request, Reachable, Login, Ops
    <2>3. ASSUME NEW t \in Tasks, Close(t)
          PROVE  EndsInv'
      <3>1. PICK end \in {"none", "done"} : out' = [out EXCEPT ![t] = end]
        BY <2>3 DEF Close, Finish
      <3>2. EndOK("close", end)
        BY DEF EndOK
      <3> QED
        BY <2>0, <2>3, <3>1, <3>2, FinishOK DEF Close, Ends, Ops
    <2>4. ASSUME NEW t \in Tasks, ResponseArrives(t)
          PROVE  EndsInv'
      BY <2>0, <2>4 DEF ResponseArrives, EndsInv, EndOK
    <2>5. ASSUME NEW t \in Tasks, HashDone(t)
          PROVE  EndsInv'
      <3>1. CASE Send(t, "get_sid")
        BY <2>0, <3>1, SendOK DEF Ops
      <3>2. ASSUME NEW e \in HashFailures, Finish(t, LoginRaises(e)), UNCHANGED op
            PROVE  EndsInv'
        <4>1. LoginRaises(e) \in {"UnexpectedResponse", "TypeError"}
          BY DEF LoginRaises
        <4>2. GoodRouter => LoginRaises(e) = "UnexpectedResponse"
          BY DEF LoginRaises, GoodRouter
        <4>3. op[t] = "challenge"
          BY <2>5 DEF HashDone, HashingInv
        <4>4. EndOK(op[t], LoginRaises(e))
          BY <4>1, <4>2, <4>3 DEF EndOK
        <4> QED
          BY <2>1, <3>2, <4>1, <4>4 DEF Ends, Exceptions, Builtins
      <3> QED
        BY <2>5, <3>1, <3>2 DEF HashDone
    <2>6. ASSUME NEW t \in Tasks, Cancel(t)
          PROVE  EndsInv'
      <3>1. EndOK(op[t], "CancelledError")
        BY DEF EndOK
      <3> QED
        BY <2>1, <2>6, <3>1 DEF Cancel, Ends
    <2>7. ASSUME NEW t \in Tasks, CloseDone(t)
          PROVE  EndsInv'
      <3>1. EndOK(op[t], "done")
        BY DEF EndOK
      <3> QED
        BY <2>1, <2>7, <3>1 DEF CloseDone, Ends
    <2>8. ASSUME NEW t \in Tasks, EndRequest(t)
          PROVE  EndsInv'
      <3>1. PICK o \in Posted(t) : Finish(t, IF o.kind = "raise" THEN o.is ELSE "done")
        BY <2>8 DEF EndRequest
      <3>2. op[t] = "request" /\ UNCHANGED op
        BY <2>8 DEF EndRequest
      <3>3. CASE o.kind = "raise"
        <4>1. EndOK(op[t], o.is) /\ o.is \in Ends
          BY <3>2, <3>3, PostedOutcome, PostedGood DEF EndOK
        <4> QED
          BY <2>1, <3>1, <3>2, <3>3, <4>1
      <3>4. CASE o.kind # "raise"
        <4>1. EndOK(op[t], "done")
          BY DEF EndOK
        <4> QED
          BY <2>1, <3>1, <3>2, <3>4, <4>1 DEF Ends
      <3> QED
        BY <3>3, <3>4
    <2>9. ASSUME NEW t \in Tasks, EndReachable(t)
          PROVE  EndsInv'
      <3>1. op[t] = "reachable" /\ UNCHANGED op
        BY <2>9 DEF EndReachable
      <3>2. PICK o \in Posted(t) :
               \/ Finish(t, "true") \/ Finish(t, "false")
               \/ o.kind = "raise" /\ o.is \notin APIClientErrors /\ Finish(t, o.is)
        BY <2>9 DEF EndReachable
      <3>3. EndOK(op[t], "true") /\ EndOK(op[t], "false")
        BY DEF EndOK
      <3>4. CASE o.kind = "raise" /\ o.is \notin APIClientErrors /\ Finish(t, o.is)
        <4>1. EndOK(op[t], o.is) /\ o.is \in Ends
          BY <3>1, <3>4, PostedOutcome, PostedGood DEF EndOK
        <4> QED
          BY <2>1, <3>1, <3>4, <4>1
      <3> QED
        BY <2>1, <3>1, <3>2, <3>3, <3>4 DEF Ends
    <2>10. ASSUME NEW t \in Tasks, EndChallenge(t)
           PROVE  EndsInv'
      <3>1. op[t] = "challenge" /\ UNCHANGED op
        BY <2>10 DEF EndChallenge
      <3>2. PICK o \in Posted(t) :
               \/ UNCHANGED out
               \/ o.kind = "raise" /\ Finish(t, LoginRaises(o.is))
               \/ o.kind = "return" /\ Finish(t, LoginRaises(
                        IF o.is \in PlainValues THEN "TypeError" ELSE "KeyError"))
        BY <2>10 DEF EndChallenge
      <3>3. CASE UNCHANGED out
        BY <2>0, <3>1, <3>3 DEF EndsInv, EndOK
      <3>4. CASE o.kind = "raise" /\ Finish(t, LoginRaises(o.is))
        <4>1. EndOK(op[t], LoginRaises(o.is)) /\ LoginRaises(o.is) \in Ends
          BY <3>1, <3>4, PostedOutcome, PostedGood DEF EndOK, LoginRaises, Ends, Exceptions
        <4> QED
          BY <2>1, <3>1, <3>4, <4>1
      <3>5. ASSUME o.kind = "return",
                   NEW e \in {"TypeError", "KeyError"},
                   e = "TypeError" => o.is \in PlainValues,
                   Finish(t, LoginRaises(e))
            PROVE  EndsInv'
        <4>1. LoginRaises(e) \in {"TypeError", "UnexpectedResponse"}
          BY <3>5 DEF LoginRaises
        <4>2. GoodRouter => LoginRaises(e) = "UnexpectedResponse"
          BY <3>5, PostedGood DEF LoginRaises, PlainValues, DictValues
        <4>3. EndOK(op[t], LoginRaises(e))
          BY <3>1, <4>1, <4>2 DEF EndOK
        <4> QED
          BY <2>1, <3>1, <3>5, <4>1, <4>3 DEF Ends, Exceptions, Builtins
      <3> QED
        BY <3>2, <3>3, <3>4, <3>5
    <2>11. ASSUME NEW t \in Tasks, EndGetSid(t)
           PROVE  EndsInv'
      <3>1. op[t] = "get_sid" /\ UNCHANGED op
        BY <2>11 DEF EndGetSid
      <3>2. PICK o \in Posted(t) :
               \/ o.kind = "return" /\ StoreSid(t, o.is)
               \/ o.kind = "raise" /\ Finish(t, LoginRaises(o.is))
        BY <2>11 DEF EndGetSid
      <3>3. CASE o.kind = "raise" /\ Finish(t, LoginRaises(o.is))
        <4>1. EndOK(op[t], LoginRaises(o.is)) /\ LoginRaises(o.is) \in Ends
          BY <3>1, <3>3, PostedOutcome, PostedGood DEF EndOK, LoginRaises, Ends, Exceptions
        <4> QED
          BY <2>1, <3>1, <3>3, <4>1
      <3>4. CASE Finish(t, "done")
        <4>1. EndOK(op[t], "done")
          BY DEF EndOK
        <4> QED
          BY <2>1, <3>1, <3>4, <4>1 DEF Ends
      <3>5. CASE o.kind = "return" /\ o.is = "null" /\ Finish(t, LoginRaises("TypeError"))
        <4>1. LoginRaises("TypeError") = "TypeError"
          BY DEF LoginRaises
        <4>2. ~GoodRouter
          BY <3>5, PostedGood DEF DictValues
        <4>3. EndOK(op[t], "TypeError")
          BY <3>1, <4>2 DEF EndOK
        <4> QED
          BY <2>1, <3>1, <3>5, <4>1, <4>3 DEF Ends, Exceptions, Builtins
      <3>6. o.kind = "return" /\ StoreSid(t, o.is)
               => \/ Finish(t, "done")
                  \/ o.is = "null" /\ Finish(t, LoginRaises("TypeError"))
        BY DEF StoreSid
      <3> QED
        BY <3>2, <3>3, <3>4, <3>5, <3>6
    <2>12. ASSUME SetSid \/ CallerCloses \/ UNCHANGED vars
           PROVE  EndsInv'
      BY <2>0, <2>12 DEF SetSid, CallerCloses, vars, taskVars, EndsInv, EndOK
    <2> QED
      BY <2>2, <2>3, <2>4, <2>5, <2>6, <2>7, <2>8, <2>9, <2>10, <2>11, <2>12 DEF Next
  <1> QED
    BY <1>1, <1>2, TypeCorrect, SessionInvariant, HashingInvariant, PTL DEF Spec

\* A call meets a closed session only if its caller has closed the session it
\* supplied, for any number of tasks calling and closing.
THEOREM ClosedByTheCaller == Spec => []ClosedSessionsAreTheCallers
  <1>1. EndsInv => ClosedSessionsAreTheCallers
    BY DEF EndsInv, EndOK, Gone, ClosedSessionsAreTheCallers
  <1> QED
    BY <1>1, EndsInvariant, PTL

\* Timeouts, lost connections and failed hashes are always translated.
THEOREM RawErrorsTranslated == Spec => []RawErrorsAreTranslated
  <1>1. EndsInv => RawErrorsAreTranslated
    BY DEF EndsInv, EndOK, RawErrorsAreTranslated
  <1> QED
    BY <1>1, EndsInvariant, PTL

\* With a good router and an owned session no call leaves the hierarchy, and
\* router_reachable never raises.
THEOREM HierarchyIsKept == Spec => []CallsStayInTheHierarchy
  <1>1. EndsInv => CallsStayInTheHierarchy
    BY DEF EndsInv, EndOK, CallsStayInTheHierarchy
  <1> QED
    BY <1>1, EndsInvariant, PTL

-----------------------------------------------------------------------------
(* After the last close(). *)

\* If close() is what each task did last, no owned session is open, for any
\* number of tasks and whatever was in flight.
THEOREM ClosingCloses == Spec => []ClosedInTheEnd
  <1>1. Init => ClosedInTheEnd
    BY DEF Init, ClosedInTheEnd, OpenSessions
  <1>2. TypeOK /\ SessionInv /\ SessionInv' /\ ClosedInTheEnd /\ [Next]_vars
           => ClosedInTheEnd'
    <2> SUFFICES ASSUME TypeOK, SessionInv, SessionInv', ClosedInTheEnd, [Next]_vars
                 PROVE  ClosedInTheEnd'
      OBVIOUS
    <2>0. UNCHANGED owns
      BY OwnershipIsFixed
    <2>1. ASSUME NEW t \in Tasks, NEW what \in Ops \ {"close"}, Send(t, what)
          PROVE  ClosedInTheEnd'
      <3>1. op'[t] = what
        BY <2>1 DEF Send, TypeOK
      <3> QED
        BY <3>1 DEF ClosedInTheEnd
    <2>2. CASE UNCHANGED <<op, sessionVars>>
      BY <2>2 DEF ClosedInTheEnd, OpenSessions, sessionVars
    <2>3. ASSUME NEW t \in Tasks, Request(t) \/ Reachable(t) \/ Login(t) \/ HashDone(t)
          PROVE  ClosedInTheEnd'
      BY <2>1, <2>2, <2>3 DEF Request, Reachable, Login, HashDone, Ops
    <2>4. ASSUME NEW t \in Tasks, Close(t), owns
          PROVE  ClosedInTheEnd'
      <3>1. slot' = NoSession
        BY <2>4 DEF Close
      <3>2. OpenSessions' = {}
        BY <2>0, <2>4, <3>1 DEF SessionInv, NoOrphanSession
      <3> QED
        BY <3>2 DEF ClosedInTheEnd
    <2>5. ASSUME NEW t \in Tasks,
                 \/ ResponseArrives(t) \/ CloseDone(t) \/ Cancel(t)
                 \/ EndRequest(t) \/ EndReachable(t) \/ EndChallenge(t) \/ EndGetSid(t)
          PROVE  ClosedInTheEnd'
      BY <2>2, <2>5 DEF ResponseArrives, CloseDone, Cancel, EndRequest, EndReachable,
                        EndChallenge, EndGetSid
    <2>6. CASE ~owns
      BY <2>0, <2>6 DEF ClosedInTheEnd
    <2>7. ASSUME SetSid \/ UNCHANGED vars
          PROVE  ClosedInTheEnd'
      BY <2>2, <2>7 DEF SetSid, vars, taskVars
    <2>8. CallerCloses => ~owns
      BY DEF CallerCloses
    <2> QED
      BY <2>3, <2>4, <2>5, <2>6, <2>7, <2>8 DEF Next
  <1> QED
    BY <1>1, <1>2, TypeCorrect, SessionInvariant, PTL DEF Spec

-----------------------------------------------------------------------------
(* The session id. *)

\* What a step can do to sid and logged_in besides leaving them alone.
LEMMA AuthSteps ==
    ASSUME Next
    PROVE  \/ UNCHANGED authVars
           \/ SetSid
           \/ \E t \in Tasks : op[t] = "get_sid" /\ pc[t] = "reading" /\ Finish(t, "done")
  <1>1. ASSUME NEW t \in Tasks,
               \/ Request(t) \/ Reachable(t) \/ Login(t) \/ HashDone(t) \/ Close(t)
               \/ ResponseArrives(t) \/ CloseDone(t) \/ Cancel(t)
               \/ EndRequest(t) \/ EndReachable(t) \/ EndChallenge(t)
        PROVE  UNCHANGED authVars
    BY <1>1 DEF Request, Reachable, Login, HashDone, Close, ResponseArrives, CloseDone,
                Cancel, EndRequest, EndReachable, EndChallenge, Send
  <1>2. ASSUME NEW t \in Tasks, EndGetSid(t)
        PROVE  \/ UNCHANGED authVars
               \/ op[t] = "get_sid" /\ pc[t] = "reading" /\ Finish(t, "done")
    <2>1. PICK o \in Posted(t) :
             \/ o.kind = "return" /\ StoreSid(t, o.is)
             \/ UNCHANGED authVars
      BY <1>2 DEF EndGetSid
    <2>2. CASE o.kind = "return" /\ StoreSid(t, o.is)
      <3>1. pc[t] = "reading"
        <4>1. ASSUME NEW e PROVE Translate(Raise(e)).kind = "raise"
          BY DEF Translate, Raise
        <4> QED
          BY <2>2, <4>1 DEF Posted
      <3>2. UNCHANGED authVars \/ Finish(t, "done")
        BY <2>2 DEF StoreSid
      <3> QED
        BY <1>2, <3>1, <3>2 DEF EndGetSid
    <2> QED
      BY <2>1, <2>2
  <1>3. CallerCloses => UNCHANGED authVars
    BY DEF CallerCloses
  <1> QED
    BY <1>1, <1>2, <1>3 DEF Next

\* Whatever the tasks are in the middle of, sid and logged_in change in the step that
\* ends a login successfully and, if the application assigns sid, there; nowhere else.
THEOREM AuthIsChangedBySuccessOnly == Spec => OnlySuccessChangesAuth
  <1> DEFINE A == \/ UNCHANGED authVars
                  \/ AppSetsSid /\ UNCHANGED <<loggedIn, taskVars>>
                  \/ \E t \in Tasks : /\ op[t] = "get_sid"
                                      /\ pc[t] = "reading"
                                      /\ pc'[t] = "idle"
                                      /\ out'[t] = "done"
  <1>1. TypeOK /\ [Next]_vars => [A]_vars
    <2> SUFFICES ASSUME TypeOK, Next
                 PROVE  A
      BY DEF vars
    <2>1. ASSUME NEW t \in Tasks, op[t] = "get_sid", pc[t] = "reading", Finish(t, "done")
          PROVE  A
      <3>1. pc'[t] = "idle" /\ out'[t] = "done"
        BY <2>1 DEF Finish, TypeOK
      <3> QED
        BY <2>1, <3>1
    <2>2. CASE SetSid
      BY <2>2 DEF SetSid
    <2> QED
      BY <2>1, <2>2, AuthSteps
  <1> QED
    BY <1>1, TypeCorrect, PTL DEF Spec, OnlySuccessChangesAuth

-----------------------------------------------------------------------------
(* Calls are finite: the safety part of EveryCallReturns. *)

\* Where a task is suspended agrees with the request it is in.
WaitInv ==
    \A t \in Tasks :
        /\ pc[t] \in {"sent", "reading"} =>
              op[t] \in {"request", "reachable", "challenge", "get_sid"}
        /\ pc[t] = "hashing" => op[t] = "challenge"
        /\ pc[t] = "closing" => op[t] = "close"

LEMMA WaitInvariant == Spec => []WaitInv
  <1>1. Init => WaitInv
    BY DEF Init, WaitInv
  <1>2. TypeOK /\ WaitInv /\ [Next]_vars => WaitInv'
    <2> SUFFICES ASSUME TypeOK, WaitInv, [Next]_vars PROVE WaitInv'
      OBVIOUS
    <2> USE DEF TypeOK, WaitInv
    <2>1. ASSUME NEW t \in Tasks, NEW end, Finish(t, end), op' = op PROVE WaitInv'
      BY <2>1 DEF Finish
    <2>2. ASSUME NEW t \in Tasks, NEW what \in {"request", "reachable", "challenge", "get_sid"},
                 Send(t, what)
          PROVE  WaitInv'
      BY <2>2 DEF Send, Finish
    <2>3. ASSUME NEW t \in Tasks, Request(t) \/ Reachable(t) \/ Login(t) PROVE WaitInv'
      BY <2>2, <2>3 DEF Request, Reachable, Login
    <2>4. ASSUME NEW t \in Tasks, Close(t) PROVE WaitInv'
      BY <2>4 DEF Close, Finish
    <2>5. ASSUME NEW t \in Tasks, ResponseArrives(t) PROVE WaitInv'
      BY <2>5 DEF ResponseArrives
    <2>6. ASSUME NEW t \in Tasks, HashDone(t) PROVE WaitInv'
      BY <2>1, <2>2, <2>6 DEF HashDone
    <2>7. ASSUME NEW t \in Tasks, EndChallenge(t) PROVE WaitInv'
      BY <2>1, <2>7 DEF EndChallenge
    <2>8. ASSUME NEW t \in Tasks, EndGetSid(t) PROVE WaitInv'
      <3>1. \E end : Finish(t, end)
        BY <2>8 DEF EndGetSid, StoreSid
      <3> QED
        BY <2>1, <2>8, <3>1 DEF EndGetSid
    <2>9. ASSUME NEW t \in Tasks, EndRequest(t) \/ EndReachable(t) \/ CloseDone(t) \/ Cancel(t)
          PROVE  WaitInv'
      BY <2>1, <2>9 DEF EndRequest, EndReachable, CloseDone, Cancel
    <2>10. CASE SetSid \/ CallerCloses \/ UNCHANGED vars
      BY <2>10 DEF SetSid, CallerCloses, vars, taskVars
    <2> QED
      BY <2>3, <2>4, <2>5, <2>6, <2>7, <2>8, <2>9, <2>10 DEF Next
  <1> QED
    BY <1>1, <1>2, TypeCorrect, PTL DEF Spec

\* A suspended task waits for a request that has a continuation and may time out at
\* any moment, for the hashing of a challenge, or for the closing of a session
\* (_transport.py:43-50, 71-72): nothing waits for what may never come.
THEOREM EveryWaitHasAnEnd ==
    Spec => [](\A t \in Tasks : pc[t] # "idle" =>
                  \/ /\ op[t] \in {"request", "reachable", "challenge", "get_sid"}
                     /\ Raise("UnsuccessfulRequest") \in Posted(t)
                  \/ pc[t] = "hashing" /\ op[t] = "challenge"
                  \/ pc[t] = "closing" /\ op[t] = "close")
  <1>1. Translate(Raise("TimeoutError")) = Raise("UnsuccessfulRequest")
    BY DEF Translate
  <1>2. ASSUME NEW t \in Tasks, pc[t] \in {"sent", "reading"}
        PROVE  Raise("UnsuccessfulRequest") \in Posted(t)
    BY <1>1, <1>2 DEF Posted
  <1>3. TypeOK /\ WaitInv =>
           \A t \in Tasks : pc[t] # "idle" =>
              \/ /\ op[t] \in {"request", "reachable", "challenge", "get_sid"}
                 /\ Raise("UnsuccessfulRequest") \in Posted(t)
              \/ pc[t] = "hashing" /\ op[t] = "challenge"
              \/ pc[t] = "closing" /\ op[t] = "close"
    BY <1>2 DEF WaitInv, TypeOK, Suspended
  <1> QED
    BY <1>3, WaitInvariant, TypeCorrect, PTL

\* How many steps a suspended call is from its end at most: five for a login.
StepsLeft(t) ==
    CASE pc[t] = "idle" -> 0
      [] pc[t] = "closing" -> 1
      [] pc[t] = "reading" /\ op[t] # "challenge" -> 1
      [] pc[t] = "sent" /\ op[t] # "challenge" -> 2
      [] pc[t] = "hashing" -> 3
      [] pc[t] = "reading" /\ op[t] = "challenge" -> 4
      [] pc[t] = "sent" /\ op[t] = "challenge" -> 5

LEMMA StepsLeftTable ==
    ASSUME NEW t \in Tasks
    PROVE  /\ pc[t] = "idle" => StepsLeft(t) = 0
           /\ pc[t] = "closing" => StepsLeft(t) = 1
           /\ pc[t] = "reading" /\ op[t] # "challenge" => StepsLeft(t) = 1
           /\ pc[t] = "sent" /\ op[t] # "challenge" => StepsLeft(t) = 2
           /\ pc[t] = "hashing" => StepsLeft(t) = 3
           /\ pc[t] = "reading" /\ op[t] = "challenge" => StepsLeft(t) = 4
           /\ pc[t] = "sent" /\ op[t] = "challenge" => StepsLeft(t) = 5
           /\ pc'[t] = "idle" => StepsLeft(t)' = 0
           /\ pc'[t] = "closing" => StepsLeft(t)' = 1
           /\ pc'[t] = "reading" /\ op'[t] # "challenge" => StepsLeft(t)' = 1
           /\ pc'[t] = "sent" /\ op'[t] # "challenge" => StepsLeft(t)' = 2
           /\ pc'[t] = "hashing" => StepsLeft(t)' = 3
           /\ pc'[t] = "reading" /\ op'[t] = "challenge" => StepsLeft(t)' = 4
           /\ pc'[t] = "sent" /\ op'[t] = "challenge" => StepsLeft(t)' = 5
  BY DEF StepsLeft

\* A call that is under way moves only towards its end, whatever the other tasks,
\* the router and the application do: it returns within five steps of its own, so
\* that no interleaving makes it go on for ever.
CallsGetNearerToTheirEnd ==
    [][\A t \in Tasks : pc[t] # "idle" =>
          \/ StepsLeft(t)' < StepsLeft(t)
          \/ pc'[t] = pc[t] /\ op'[t] = op[t]]_vars

THEOREM CallsAreShort == Spec => CallsGetNearerToTheirEnd
  <1> DEFINE Nearer(t) == \/ StepsLeft(t)' < StepsLeft(t)
                          \/ pc'[t] = pc[t] /\ op'[t] = op[t]
  <1>1. ASSUME TypeOK, Next, NEW t \in Tasks, pc[t] # "idle"
        PROVE  Nearer(t)
    <2> USE <1>1 DEF TypeOK
    <2>1. ASSUME NEW u \in Tasks, u # t, NEW what, Send(u, what)
          PROVE  pc'[t] = pc[t] /\ op'[t] = op[t]
      BY <2>1 DEF Send, Finish
    <2>2. ASSUME NEW u \in Tasks, u # t, NEW end, Finish(u, end)
          PROVE  pc'[t] = pc[t]
      BY <2>2 DEF Finish
    <2>3. ASSUME NEW u \in Tasks, NEW end, Finish(u, end), op' = op
          PROVE  Nearer(t)
      <3>1. CASE u = t
        BY <2>3, <3>1, StepsLeftTable DEF Finish, Suspended
      <3>2. CASE u # t
        BY <2>2, <2>3, <3>2
      <3> QED
        BY <3>1, <3>2
    <2>4. ASSUME NEW u \in Tasks, pc[u] = "idle", NEW what, Send(u, what)
          PROVE  Nearer(t)
      BY <2>1, <2>4
    <2>5. ASSUME NEW u \in Tasks, Close(u) PROVE Nearer(t)
      BY <2>5 DEF Close, Finish
    <2>6. ASSUME NEW u \in Tasks, ResponseArrives(u) PROVE Nearer(t)
      <3>1. CASE u = t
        BY <2>6, <3>1, StepsLeftTable DEF ResponseArrives
      <3>2. CASE u # t
        BY <2>6, <3>2 DEF ResponseArrives
      <3> QED
        BY <3>1, <3>2
    <2>7. ASSUME NEW u \in Tasks, HashDone(u) PROVE Nearer(t)
      <3>1. CASE u = t /\ Send(t, "get_sid")
        BY <2>7, <3>1, StepsLeftTable DEF HashDone, Send, Finish
      <3>2. CASE u # t /\ Send(u, "get_sid")
        BY <2>1, <3>2
      <3> QED
        BY <2>3, <2>7, <3>1, <3>2 DEF HashDone
    <2>8. ASSUME NEW u \in Tasks, EndChallenge(u) PROVE Nearer(t)
      <3>1. CASE \E end : Finish(u, end)
        BY <2>3, <2>8, <3>1 DEF EndChallenge
      <3>2. CASE pc' = [pc EXCEPT ![u] = "hashing"]
        <4>1. pc[u] \in {"sent", "reading"} /\ op[u] = "challenge" /\ op' = op
          BY <2>8, PostedOutcome DEF EndChallenge
        <4> QED
          BY <3>2, <4>1, StepsLeftTable
      <3> QED
        BY <2>8, <3>1, <3>2 DEF EndChallenge
    <2>9. ASSUME NEW u \in Tasks, EndGetSid(u) PROVE Nearer(t)
      <3>1. \E end : Finish(u, end)
        BY <2>9 DEF EndGetSid, StoreSid
      <3> QED
        BY <2>3, <2>9, <3>1 DEF EndGetSid
    <2>10. ASSUME NEW u \in Tasks,
                  EndRequest(u) \/ EndReachable(u) \/ CloseDone(u) \/ Cancel(u)
           PROVE  Nearer(t)
      BY <2>3, <2>10 DEF EndRequest, EndReachable, CloseDone, Cancel
    <2>11. ASSUME SetSid \/ CallerCloses PROVE Nearer(t)
      BY <2>11 DEF SetSid, CallerCloses, taskVars
    <2> QED
      BY <2>4, <2>5, <2>6, <2>7, <2>8, <2>9, <2>10, <2>11
      DEF Next, Request, Reachable, Login
  <1>2. TypeOK /\ [Next]_vars => [\A t \in Tasks : pc[t] # "idle" => Nearer(t)]_vars
    BY <1>1
  <1> QED
    BY <1>2, TypeCorrect, PTL DEF Spec, CallsGetNearerToTheirEnd
-----------------------------------------------------------------------------
(* What follows from implementing SessionOwner. *)

\* The abstract specification allows one open session at a time.
OneOpen == \A s, u \in Sessions : life[s] = "open" /\ life[u] = "open" => s = u

LEMMA OwnerHasOneOpen == OwnerSpec => []OneOpen
  <1>1. Owner!Init => OneOpen
    BY DEF Owner!Init, OneOpen
  <1>2. OneOpen /\ [Owner!Next]_Owner!vars => OneOpen'
    <2> SUFFICES ASSUME OneOpen, [Owner!Next]_Owner!vars,
                        NEW s \in Sessions, NEW u \in Sessions,
                        life'[s] = "open", life'[u] = "open"
                 PROVE  s = u
      BY DEF OneOpen
    <2>1. ASSUME NEW one \in Sessions, Owner!Create(one)
          PROVE  s = u
      <3>1. \A other \in Sessions : life[other] # "open"
        BY <2>1 DEF Owner!Create, Owner!Open
      <3> QED
        BY <2>1, <3>1 DEF Owner!Create
    <2>2. ASSUME NEW one \in Sessions, NEW end \in {"closed", "gone"},
                 life' = [life EXCEPT ![one] = end]
          PROVE  s = u
      BY <2>2 DEF OneOpen
    <2>3. CASE UNCHANGED Owner!vars
      BY <2>3 DEF Owner!vars, OneOpen
    <2> QED
      BY <2>1, <2>2, <2>3 DEF Owner!Next, Owner!Close, Owner!CallerCloses
  <1> QED
    BY <1>1, <1>2, PTL DEF OwnerSpec, Owner!Spec

\* A session is opened once, by a transport that owns its sessions and has no other
\* open, and ended once: by the transport if it owns it, else by the caller.
LivesOnce(s) ==
    \/ life[s] = "unborn" /\ life'[s] = "open" /\ owns /\ \A u \in Sessions : life[u] # "open"
    \/ life[s] = "open" /\ life'[s] = "closed" /\ owns
    \/ life[s] = "open" /\ life'[s] = "gone" /\ ~owns

SessionsLiveOnce == [][\A s \in Sessions : life'[s] # life[s] => LivesOnce(s)]_vars

\* Never two sessions at once, none reopened, and none closed by the wrong side
\* (_transport.py:36-41, 83-103), for any number of tasks that call and close:
\* consequences of the abstract specification that the transport inherits.
THEOREM SessionHistories == Spec => []OneOpen /\ SessionsLiveOnce
  <1>1. TypeOK /\ SessionInv /\ [Next]_vars =>
           [\A s \in Sessions : life'[s] # life[s] => LivesOnce(s)]_vars
    <2> SUFFICES ASSUME TypeOK, SessionInv, [Next]_vars,
                        NEW s \in Sessions, life'[s] # life[s]
                 PROVE  LivesOnce(s)
      BY DEF vars
    <2>1. PICK one \in Sessions :
             Owner!Create(one) \/ Owner!Close(one) \/ Owner!CallerCloses(one)
      BY OwnerSteps DEF Owner!Next, Owner!vars
    <2>2. one = s
      BY <2>1 DEF Owner!Create, Owner!Close, Owner!CallerCloses, TypeOK
    <2>3. CASE Owner!Create(s)
      BY <2>3 DEF Owner!Create, Owner!Open, TypeOK, LivesOnce
    <2>4. CASE Owner!Close(s) \/ Owner!CallerCloses(s)
      BY <2>4 DEF Owner!Close, Owner!CallerCloses, TypeOK, LivesOnce
    <2> QED
      BY <2>1, <2>2, <2>3, <2>4
  <1>2. Spec => []OneOpen
    BY ImplementsSessionOwner, OwnerHasOneOpen, PTL
  <1>3. Spec => SessionsLiveOnce
    BY <1>1, TypeCorrect, SessionInvariant, PTL DEF Spec, SessionsLiveOnce
  <1> QED
    BY <1>2, <1>3
=============================================================================
