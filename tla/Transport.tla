------------------------------ MODULE Transport ------------------------------
(***************************************************************************)
(* glinet4/_transport.py: the session slot, the session id and the calls   *)
(* in flight of one GLinetTransport, shared by concurrent asyncio tasks.   *)
(*                                                                         *)
(* asyncio switches tasks at awaits only, so every action is the code from *)
(* one await to the next.  A call sends a POST (Send), waits for the       *)
(* headers (ResponseArrives), reads the body and acts on the outcome       *)
(* (EndRequest, EndReachable, EndChallenge, EndGetSid); login() awaits the *)
(* hashing thread in between (HashDone).  Any await can be cancelled.      *)
(***************************************************************************)
EXTENDS ErrorHandling, FiniteSets

CONSTANTS
    Tasks,          \* asyncio tasks of the application using this transport
    Sessions,       \* aiohttp sessions; bounds how often a session is opened
    NoSession,      \* None in the slot
    Sids,           \* session ids the router hands out
    NoSid,          \* None as session id
    Replies,        \* the responses the router may send
    HashFailures,   \* how _compute_hash may fail on what the router asked for
    AppSetsSid      \* whether the application assigns GLinet.sid

ASSUME TransportAssumption ==
    /\ NoSession \notin Sessions /\ Sessions # {}
    /\ NoSid \notin Sids
    /\ Replies \subseteq Responses
    /\ HashFailures \subseteq {"ValueError", "TypeError"}
    /\ AppSetsSid \in BOOLEAN

VARIABLES
    owns,       \* _owns_session
    slot,       \* _session
    life,       \* what became of each aiohttp session
    sid,        \* sid
    loggedIn,   \* _logged_in
    pc,         \* where each task is suspended
    op,         \* the request a task is in, or was in last
    on,         \* the session that request was sent through
    held,       \* the tasks holding a response that is not released
    out         \* how the last call of each task ended

sessionVars == <<owns, slot, life>>
authVars == <<sid, loggedIn>>
taskVars == <<pc, op, on, held, out>>
vars == <<sessionVars, authVars, taskVars>>

Ops == {"none", "request", "reachable", "challenge", "get_sid", "close"}
Suspended == {"sent", "reading", "hashing", "closing"}
Ends == {"none", "done", "true", "false", "RuntimeError", "CancelledError"}
            \cup Exceptions

TypeOK ==
    /\ owns \in BOOLEAN
    /\ slot \in Sessions \cup {NoSession}
    /\ life \in [Sessions -> {"unborn", "open", "closed", "gone"}]
    /\ sid \in Sids \cup {NoSid}
    /\ loggedIn \in BOOLEAN
    /\ pc \in [Tasks -> Suspended \cup {"idle"}]
    /\ op \in [Tasks -> Ops]
    /\ on \in [Tasks -> Sessions \cup {NoSession}]
    /\ held \subseteq Tasks
    /\ out \in [Tasks -> Ends]

\* __init__: an injected session is stored, an owned one is created later; a sid
\* handed in counts as a login.
Init ==
    /\ \/ /\ owns = TRUE
          /\ slot = NoSession
          /\ life = [s \in Sessions |-> "unborn"]
       \/ /\ owns = FALSE
          /\ slot \in Sessions
          /\ life = [s \in Sessions |-> IF s = slot THEN "open" ELSE "unborn"]
    /\ sid \in Sids \cup {NoSid}
    /\ loggedIn = (sid # NoSid)
    /\ pc = [t \in Tasks |-> "idle"]
    /\ op = [t \in Tasks |-> "none"]
    /\ on = [t \in Tasks |-> NoSession]
    /\ held = {}
    /\ out = [t \in Tasks |-> "none"]

-----------------------------------------------------------------------------
(* Sending a request. *)

\* Mutation: an owned session is created anew whenever the current one is closed
\* or not, without looking at the slot.
AlwaysNewSession(s) ==
    IF owns
    THEN /\ life[s] = "unborn"
         /\ slot' = s
         /\ life' = [life EXCEPT ![s] = "open"]
         /\ UNCHANGED owns
    ELSE s = slot /\ UNCHANGED sessionVars

\* _get_session() returns s, created if the slot is empty.
GetSession(s) ==
    \/ /\ slot = NoSession
       /\ life[s] = "unborn"
       /\ slot' = s
       /\ life' = [life EXCEPT ![s] = "open"]
       /\ UNCHANGED owns
    \/ /\ s = slot
       /\ UNCHANGED sessionVars

\* `finally: response.release()` runs however the call ended.
\* Mutation first: released on success only, where the body was read anyway.
ReleasedUnlessFailed(t, end) ==
    IF end \in {"done", "true", "false"} THEN held \ {t} ELSE held

Released(t, end) == held \ {t}

\* The call of t ends.
Finish(t, end) ==
    /\ pc' = [pc EXCEPT ![t] = "idle"]
    /\ on' = [on EXCEPT ![t] = NoSession]
    /\ held' = Released(t, end)
    /\ out' = [out EXCEPT ![t] = end]

\* _post up to its first await.  A closed session refuses with RuntimeError, not
\* an aiohttp.ClientError, before anything is sent.
Send(t, what) ==
    /\ op' = [op EXCEPT ![t] = what]
    /\ \E s \in Sessions :
          /\ GetSession(s)
          /\ IF life'[s] = "open"
             THEN /\ pc' = [pc EXCEPT ![t] = "sent"]
                  /\ on' = [on EXCEPT ![t] = s]
                  /\ out' = [out EXCEPT ![t] = "none"]
                  /\ UNCHANGED held
             ELSE Finish(t, "RuntimeError")
    /\ UNCHANGED authVars

Request(t) == pc[t] = "idle" /\ Send(t, "request")
Reachable(t) == pc[t] = "idle" /\ Send(t, "reachable")
Login(t) == pc[t] = "idle" /\ Send(t, "challenge")

\* The headers arrive; from here on the task holds the response.  The session
\* may have been closed meanwhile and the headers still be in the buffer.
ResponseArrives(t) ==
    /\ pc[t] = "sent"
    /\ pc' = [pc EXCEPT ![t] = "reading"]
    /\ held' = held \cup {t}
    /\ UNCHANGED <<sessionVars, authVars, op, on, out>>

-----------------------------------------------------------------------------
(* What _post makes of the response, or of its absence. *)

\* The two except clauses of _post.
\* Mutation first: only the timeout is translated.
TranslateTimeout(outcome) ==
    IF outcome = Raise("TimeoutError")
    THEN Raise("UnsuccessfulRequest") ELSE outcome

Translate(outcome) ==
    IF outcome \in {Raise("TimeoutError"), Raise("ClientError")}
    THEN Raise("UnsuccessfulRequest") ELSE outcome

RepliesTranslated == {Translate(raise_for_status(r)) : r \in Replies}

\* How _post of t may end now.  Before the headers arrive only the timeout or the
\* connection can end the wait; closing the session drops its connections.
\* Mutation first: requests without a timeout, on connections that never fail.
PostedIfAnswered(t) == IF pc[t] = "reading" THEN RepliesTranslated ELSE {}

Posted(t) ==
    LET lost == {Translate(Raise(e)) : e \in {"TimeoutError", "ClientError"}}
    IN  CASE pc[t] = "sent" -> lost
          [] pc[t] = "reading" -> lost \cup RepliesTranslated
          [] OTHER -> {}

Truthy(value) == value \notin {"empty", "null", "empty_list"}

\* request(), request_long_timeout(): whatever _post yields.
EndRequest(t) ==
    /\ op[t] = "request"
    /\ \E o \in Posted(t) :
          Finish(t, IF o.kind = "raise" THEN o.is ELSE "done")
    /\ UNCHANGED <<sessionVars, authVars, op>>

\* router_reachable(): only APIClientErrors are turned into an answer.
EndReachable(t) ==
    /\ op[t] = "reachable"
    /\ \E o \in Posted(t) :
          Finish(t, IF o.kind = "raise"
                    THEN IF o.is \in APIClientErrors THEN "false" ELSE o.is
                    ELSE IF Truthy(o.is) THEN "true" ELSE "false")
    /\ UNCHANGED <<sessionVars, authVars, op>>

-----------------------------------------------------------------------------
(* login(). *)

\* except (KeyError, ValueError) around the whole of login().
\* Mutations first: the translation covers the missing key only, or nothing.
LoginRaisesAsIs(exception) == exception

LoginRaisesKeys(exception) ==
    IF exception = "KeyError" THEN "UnexpectedResponse" ELSE exception

LoginRaises(exception) ==
    IF exception \in {"KeyError", "ValueError"} THEN "UnexpectedResponse"
    ELSE exception

\* res["alg"], res["salt"], res["nonce"]; indexing what is not a dict fails.
EndChallenge(t) ==
    /\ op[t] = "challenge"
    /\ \E o \in Posted(t) :
          \/ /\ o = Return("challenge")
             /\ pc' = [pc EXCEPT ![t] = "hashing"]
             /\ on' = [on EXCEPT ![t] = NoSession]
             /\ held' = held \ {t}
             /\ UNCHANGED out
          \/ /\ o.kind = "raise"
             /\ Finish(t, LoginRaises(o.is))
          \/ /\ o.kind = "return" /\ o.is # "challenge"
             /\ Finish(t, LoginRaises(
                   IF o.is \in PlainValues THEN "TypeError" ELSE "KeyError"))
    /\ UNCHANGED <<sessionVars, authVars, op>>

\* The hashing thread is done, and the hash is sent; or hashing fails.
HashDone(t) ==
    /\ pc[t] = "hashing"
    /\ \/ Send(t, "get_sid")
       \/ /\ \E e \in HashFailures : Finish(t, LoginRaises(e))
          /\ UNCHANGED <<sessionVars, authVars, op>>

\* `if "sid" in res` stores whatever stands there, null included; a value without a
\* sid is passed over in silence, unless `in` cannot search it.
StoreSid(t, value) ==
    CASE value = "sid" -> sid' \in Sids /\ loggedIn' = TRUE /\ Finish(t, "done")
      [] value = "null_sid" -> sid' = NoSid /\ loggedIn' = TRUE /\ Finish(t, "done")
      [] value = "null" -> Finish(t, LoginRaises("TypeError")) /\ UNCHANGED authVars
      [] OTHER -> Finish(t, "done") /\ UNCHANGED authVars

\* A login that fails leaves the session id alone.
\* Mutation first: it forgets the one it was to replace.
AuthForgotten == sid' = NoSid /\ loggedIn' = FALSE

AuthKept == UNCHANGED authVars

EndGetSid(t) ==
    /\ op[t] = "get_sid"
    /\ \E o \in Posted(t) :
          \/ o.kind = "return" /\ StoreSid(t, o.is)
          \/ o.kind = "raise" /\ Finish(t, LoginRaises(o.is)) /\ AuthKept
    /\ UNCHANGED <<sessionVars, op>>

-----------------------------------------------------------------------------
(* close(), cancellation, and what the application does besides. *)

\* close() empties the slot of an owned session before it awaits anything.
\* Mutation first: the slot keeps the session.
SlotKept == slot

SlotEmptied == IF owns THEN NoSession ELSE slot

\* What close() has to close: never a session the caller supplied.
\* Mutations first: a session in use is spared; the early return is missing.
ToCloseIfUnused ==
    owns /\ slot # NoSession /\ life[slot] = "open" /\ \A u \in Tasks : on[u] # slot

ToCloseAny == slot # NoSession /\ life[slot] = "open"

ToClose == owns /\ slot # NoSession /\ life[slot] = "open"

\* close() up to its await; the closing takes effect at once (aiohttp marks the
\* connector closed before it waits).
\* Bound: an owning transport is closed only while a session is left to open.
Close(t) ==
    /\ pc[t] = "idle"
    /\ owns => \E s \in Sessions : life[s] = "unborn"
    /\ op' = [op EXCEPT ![t] = "close"]
    /\ slot' = SlotEmptied
    /\ IF ToClose
       THEN /\ life' = [life EXCEPT ![slot] = "closed"]
            /\ pc' = [pc EXCEPT ![t] = "closing"]
            /\ out' = [out EXCEPT ![t] = "none"]
            /\ UNCHANGED <<on, held>>
       ELSE Finish(t, "done") /\ UNCHANGED life
    /\ UNCHANGED <<owns, authVars>>

CloseDone(t) ==
    /\ pc[t] = "closing"
    /\ Finish(t, "done")
    /\ UNCHANGED <<sessionVars, authVars, op>>

\* The task is cancelled at the await it is suspended in.
Cancel(t) ==
    /\ pc[t] # "idle"
    /\ Finish(t, "CancelledError")
    /\ UNCHANGED <<sessionVars, authVars, op>>

\* The setter of GLinet.sid.
SetSid ==
    /\ AppSetsSid
    /\ sid' \in Sids \cup {NoSid}
    /\ UNCHANGED <<sessionVars, loggedIn, taskVars>>

\* The caller closes the session it supplied.
CallerCloses ==
    /\ ~owns
    /\ life[slot] = "open"
    /\ life' = [life EXCEPT ![slot] = "gone"]
    /\ UNCHANGED <<owns, slot, authVars, taskVars>>

EndPost(t) == EndRequest(t) \/ EndReachable(t) \/ EndChallenge(t) \/ EndGetSid(t)

Next ==
    \/ \E t \in Tasks :
          \/ Request(t) \/ Reachable(t) \/ Login(t) \/ Close(t)
          \/ ResponseArrives(t) \/ HashDone(t) \/ CloseDone(t) \/ Cancel(t)
          \/ EndRequest(t) \/ EndReachable(t) \/ EndChallenge(t) \/ EndGetSid(t)
    \/ SetSid
    \/ CallerCloses

\* Every request has a total timeout, the hashing thread and the closing of a
\* session come to an end; nothing makes the router answer.
Fairness == \A t \in Tasks :
    WF_vars(EndPost(t)) /\ WF_vars(HashDone(t)) /\ WF_vars(CloseDone(t))

Spec == Init /\ [][Next]_vars
FairSpec == Spec /\ Fairness

-----------------------------------------------------------------------------
(* Properties. *)

OpenSessions == {s \in Sessions : life[s] = "open"}

\* However close() interleaves with calls that materialise a session, an open
\* owned session is always the one in the slot, where a later close() finds it,
\* and the slot never keeps a closed one (_transport.py:87-103).
NoOrphanSession ==
    owns => OpenSessions = {slot} \ {NoSession}

\* "Session is closed" is met only by who closed the session under the transport: a
\* transport that owns its session gives a call that starts, or a login that resumes
\* after hashing, while another task is inside close() a fresh one, and a supplied
\* session that refuses is one its caller has closed (_transport.py:75-85, 163).
ClosedSessionsAreTheCallers ==
    \A t \in Tasks : out[t] = "RuntimeError" =>
        ~owns /\ slot \in Sessions /\ life[slot] = "gone"

\* When close() is the last thing each task did, even if it was cancelled, no
\* owned session is left open, whatever was in flight when it was called.
ClosedInTheEnd ==
    owns /\ (\A t \in Tasks : op[t] = "close") => OpenSessions = {}

\* "No request path can leak a connection" (_transport.py:148): a response is
\* held by the calls that are reading it and by nobody else, after timeouts,
\* errors and cancellations too.
NoLeakedConnection == held = {t \in Tasks : pc[t] = "reading"}

\* Only a login that succeeds changes sid and logged_in, in the step that ends it, and
\* the application where it assigns sid: at no point of a login that fails, times out
\* or is cancelled midway, of a request or of a probe is what a previous or a
\* concurrent login established lost (_transport.py:265-285).
OnlySuccessChangesAuth ==
    [][\/ UNCHANGED authVars
       \/ AppSetsSid /\ UNCHANGED <<loggedIn, taskVars>>
       \/ \E t \in Tasks : /\ op[t] = "get_sid"
                           /\ pc[t] = "reading"
                           /\ pc'[t] = "idle"
                           /\ out'[t] = "done"]_vars

\* With a router that keeps to its envelope and answers with objects, and an
\* owned session, every call ends with a value, an APIClientError or its
\* cancellation, and router_reachable never raises (_transport.py:151, 202).
GoodRouter ==
    /\ \A r \in Replies :
          WellFormed(r) /\ (r.body.kind = "result" => r.body.result.value \in DictValues)
    /\ HashFailures \subseteq {"ValueError"}

CallsStayInTheHierarchy ==
    GoodRouter /\ owns =>
        \A t \in Tasks :
            /\ out[t] \in APIClientErrors
                  \cup {"none", "done", "true", "false", "CancelledError"}
            /\ op[t] = "reachable" => out[t] \notin APIClientErrors

\* Whatever the router answers, a timeout or a lost connection never reaches the
\* caller as such, nor does a failure of hashing or decoding out of login().
RawErrorsAreTranslated ==
    \A t \in Tasks :
        /\ out[t] \notin {"TimeoutError", "ClientError"}
        /\ op[t] \in {"challenge", "get_sid"} => out[t] # "ValueError"

\* The session lifecycle is the one SessionOwner promises, whatever the slot, the
\* login state and the calls in flight do.
Owner == INSTANCE SessionOwner WITH lent <- ~owns, life <- life
OwnerSpec == Owner!Spec

\* Every call returns: with a total timeout on each POST no task waits for ever,
\* though the router may never answer (_transport.py:43-50, 71-72).
EveryCallReturns == \A t \in Tasks : pc[t] # "idle" ~> pc[t] = "idle"
=============================================================================
