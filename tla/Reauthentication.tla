-------------------------- MODULE Reauthentication ---------------------------
(***************************************************************************)
(* A session that ends, the login that replaces it, and the refusal that   *)
(* must not be mistaken for it.  Tasks of one application share a client   *)
(* and change the NAT acceleration (network_acceleration_set).  As the     *)
(* exception classes tell it to (error_handling.py:34-52), the application *)
(* logs in and repeats a call that ends in an AuthenticationError; after a *)
(* FeatureConflictError it does not, but asks the getters that the         *)
(* docstring of network_acceleration_set names for the cause.              *)
(*                                                                         *)
(* Sending a request, its answer at the router and the return to the       *)
(* client are three moments: sid is read at the first, the router acts at  *)
(* the second, raise_for_status runs at the third.  login() is one request *)
(* here; its steps are in Transport.                                       *)
(***************************************************************************)
EXTENDS ErrorHandling, FiniteSets

CONSTANTS
    Tasks,      \* the tasks of the application
    Sids,       \* the session ids in circulation at a time
    NoSid,      \* None as session id
    Features,   \* the features in use that conflict with the acceleration
    NoReply,    \* the answer of a request the router has not answered
    MaxUpsets   \* bounds how often sessions end, sid is assigned, a feature switched

ConflictingFeatures == {"parental_control", "qos", "sqm", "dpi"}

\* What the client has received, see Message.
Replies == [outcome: Outcomes, sid: Sids \cup {NoSid}, shows: SUBSET Features]

ASSUME ReauthenticationAssumption ==
    /\ NoSid \notin Sids /\ Sids # {}
    /\ NoReply \notin Replies
    /\ Features \subseteq ConflictingFeatures
    /\ {-32000, -5, -1} \subseteq Codes
    /\ MaxUpsets \in Nat

VARIABLES
    sid,        \* the transport's session id
    live,       \* the sessions the router knows
    active,     \* the conflicting features that are switched on
    upsets,     \* what happened from outside so far
    pc,         \* the request each task is waiting for
    sent,       \* the session id in its payload
    reply,      \* the answer on its way back
    conflict,   \* the tasks whose call was refused over a conflict
    asked,      \* the getters that have answered since the conflict
    shown,      \* the features they reported
    blame,      \* the features that caused the refusal and stayed on since
    took,       \* how often the router has carried out the call
    out         \* how the last call ended

worldVars == <<live, active, upsets>>
callVars == <<conflict, asked, shown, blame, took>>
taskVars == <<pc, sent, reply, callVars, out>>
vars == <<sid, worldVars, taskVars>>

\* Session ids somebody holds, or is about to; and one that nobody does.
Known ==
    ({sid} \cup {sent[t] : t \in Tasks}
        \cup {reply[t].sid : t \in {u \in Tasks : reply[u] # NoReply}}) \ {NoSid}

Unknown == IF Sids \subseteq Known THEN {} ELSE {CHOOSE s \in Sids : s \notin Known}

\* What each getter tells of the conflicting features.
\* Mutation first: there is no getter for parental control, as in the releases
\* before it was added.
ShowsThree(getter) ==
    CASE getter = "network_acceleration" -> {"dpi", "qos"}
      [] getter = "sqm_config" -> {"sqm"}
      [] OTHER -> {}

Shows(getter) ==
    CASE getter = "network_acceleration" -> {"dpi", "qos"}
      [] getter = "sqm_config" -> {"sqm"}
      [] getter = "parental_control_config" -> {"parental_control"}

Getters == {"network_acceleration", "sqm_config", "parental_control_config"}

NextGetter(done) == CHOOSE getter \in Getters \ done : TRUE

Requests == {"read", "set", "login"} \cup Getters

\* Without a sid, or with one handed in that the router may or may not know.
Init ==
    /\ sid \in {NoSid, CHOOSE s \in Sids : TRUE}
    /\ live \in {{}, {sid} \ {NoSid}}
    /\ active \in SUBSET Features
    /\ upsets = 0
    /\ pc = [t \in Tasks |-> "idle"]
    /\ sent = [t \in Tasks |-> NoSid]
    /\ reply = [t \in Tasks |-> NoReply]
    /\ conflict = {}
    /\ asked = [t \in Tasks |-> {}]
    /\ shown = [t \in Tasks |-> {}]
    /\ blame = [t \in Tasks |-> {}]
    /\ took = [t \in Tasks |-> 0]
    /\ out = [t \in Tasks |-> "none"]

-----------------------------------------------------------------------------
(* The answers of the router (external). *)

Result(value) ==
    [ok |-> TRUE, body |-> [kind |-> "result",
        result |-> [value |-> value, err_code |-> 0, conflict |-> FALSE]]]

Error(code, message) ==
    [ok |-> TRUE, body |-> [kind |-> "error",
        error |-> [shape |-> "object", code |-> code, message |-> message]]]

\* A session id the router does not know; a password it does not accept.
NotLoggedIn == Error(-1, "plain")
AccessDenied == Error(-32000, "plain")

\* Reported in the envelope, or inside a result.
Conflict ==
    {Error(-1, "conflict"),
     [ok |-> TRUE, body |-> [kind |-> "result",
         result |-> [value |-> "other", err_code |-> -5, conflict |-> TRUE]]]}

\* An object that is no envelope.
Garbled == [ok |-> TRUE, body |-> [kind |-> "keyless"]]

\* A reply, kept as what raise_for_status makes of it, which depends on nothing else.
Message(response, grants, shows) ==
    [outcome |-> raise_for_status(response), sid |-> grants, shows |-> shows]

Plain(response) == Message(response, NoSid, {})

\* The login succeeds, or is refused; a new session is nobody's yet, and those
\* nobody holds any more are forgotten.
AnswerLogin(t) ==
    /\ \/ \E new \in Unknown :
             /\ reply' = [reply EXCEPT ![t] = Message(Result("sid"), new, {})]
             /\ live' = (live \cap Known) \cup {new}
       \/ /\ reply' = [reply EXCEPT ![t] = Plain(AccessDenied)]
          /\ UNCHANGED live
    /\ UNCHANGED <<blame, took>>

\* A change is refused while a conflicting feature is on.  The reply may be garbled
\* whether or not the router has done what it was asked.
AnswerSet(t) ==
    /\ IF active = {}
       THEN took' = [took EXCEPT ![t] = @ + 1] /\ UNCHANGED blame
       ELSE blame' = [blame EXCEPT ![t] = active] /\ UNCHANGED took
    /\ \E r \in (IF active = {} THEN {Result("other")} ELSE Conflict) \cup {Garbled} :
          reply' = [reply EXCEPT ![t] = Plain(r)]
    /\ UNCHANGED live

AnswerRead(t) ==
    /\ reply' = [reply EXCEPT ![t] =
          Message(Result("other"), NoSid,
                  IF pc[t] \in Getters THEN active \cap Shows(pc[t]) ELSE {})]
    /\ UNCHANGED <<live, blame, took>>

Refuse(t) ==
    /\ reply' = [reply EXCEPT ![t] = Plain(NotLoggedIn)]
    /\ UNCHANGED <<live, blame, took>>

Answer(t) ==
    /\ pc[t] # "idle" /\ reply[t] = NoReply
    /\ \/ pc[t] = "login" /\ AnswerLogin(t)
       \/ pc[t] # "login" /\ sent[t] \notin live /\ Refuse(t)
       \/ pc[t] = "set" /\ sent[t] \in live /\ AnswerSet(t)
       \/ pc[t] \in {"read"} \cup Getters /\ sent[t] \in live /\ AnswerRead(t)
    /\ UNCHANGED <<sid, active, upsets, pc, sent, conflict, asked, shown, out>>

-----------------------------------------------------------------------------
(* The client and the application. *)

\* A payload is built when its request is sent, with the sid of that moment.
Send(t, request) ==
    /\ pc' = [pc EXCEPT ![t] = request]
    /\ sent' = [sent EXCEPT ![t] = sid']
    /\ reply' = [reply EXCEPT ![t] = NoReply]
    /\ UNCHANGED out

Finish(t, end) ==
    /\ pc' = [pc EXCEPT ![t] = "idle"]
    /\ sent' = [sent EXCEPT ![t] = NoSid]
    /\ reply' = [reply EXCEPT ![t] = NoReply]
    /\ conflict' = conflict \ {t}
    /\ asked' = [asked EXCEPT ![t] = {}]
    /\ shown' = [shown EXCEPT ![t] = {}]
    /\ blame' = [blame EXCEPT ![t] = {}]
    /\ took' = [took EXCEPT ![t] = 0]
    /\ out' = [out EXCEPT ![t] = end]

\* network_acceleration_set, up to its first await.
Begin(t) ==
    /\ pc[t] = "idle"
    /\ pc' = [pc EXCEPT ![t] = "read"]
    /\ sent' = [sent EXCEPT ![t] = sid]
    /\ out' = [out EXCEPT ![t] = "none"]
    /\ UNCHANGED <<sid, worldVars, reply, callVars>>

Succeeds(t) ==
    pc[t] # "idle" /\ reply[t] # NoReply /\ reply[t].outcome.kind = "return"

Raises(t, exceptions) ==
    /\ pc[t] # "idle" /\ reply[t] # NoReply
    /\ reply[t].outcome.kind = "raise" /\ reply[t].outcome.is \in exceptions

\* The configuration was read, and is sent back with the change.
ReadDone(t) ==
    /\ pc[t] = "read" /\ Succeeds(t)
    /\ UNCHANGED sid
    /\ Send(t, "set")
    /\ UNCHANGED <<worldVars, callVars>>

SetDone(t) ==
    /\ pc[t] = "set" /\ Succeeds(t)
    /\ Finish(t, "done")
    /\ UNCHANGED <<sid, worldVars>>

\* The next thing to ask for, or the call itself again.
Resumed(t) == IF t \in conflict THEN NextGetter(asked[t]) ELSE "read"

\* login() stores the session id, and what was refused is repeated.
LoginDone(t) ==
    /\ pc[t] = "login" /\ Succeeds(t)
    /\ sid' = reply[t].sid
    /\ Send(t, Resumed(t))
    /\ UNCHANGED <<worldVars, callVars>>

\* An authentication error of anything but a login.
LoginNeeded(t) ==
    /\ pc[t] # "login" /\ Raises(t, AuthenticationErrors)
    /\ pc' = [pc EXCEPT ![t] = "login"]
    /\ reply' = [reply EXCEPT ![t] = NoReply]
    /\ UNCHANGED <<sid, worldVars, sent, callVars, out>>

\* "Retrying after a fresh login will not help": the cause is looked for instead.
ConflictMet(t) ==
    /\ pc[t] = "set" /\ Raises(t, {"FeatureConflictError"})
    /\ UNCHANGED sid
    /\ Send(t, NextGetter({}))
    /\ conflict' = conflict \cup {t}
    /\ UNCHANGED <<worldVars, asked, shown, blame, took>>

\* The getters are asked one by one; after the last the conflict is reported with its causes.
GetterDone(t) ==
    /\ pc[t] \in Getters /\ Succeeds(t)
    /\ UNCHANGED <<sid, worldVars>>
    /\ IF asked[t] \cup {pc[t]} = Getters
       THEN Finish(t, "FeatureConflictError")
       ELSE /\ asked' = [asked EXCEPT ![t] = @ \cup {pc[t]}]
            /\ shown' = [shown EXCEPT ![t] = @ \cup reply[t].shows]
            /\ Send(t, NextGetter(asked[t] \cup {pc[t]}))
            /\ UNCHANGED <<conflict, blame, took>>

\* The exceptions after which the application goes on.
Handled(t) ==
    CASE pc[t] = "login" -> {}
      [] pc[t] = "set" -> AuthenticationErrors \cup {"FeatureConflictError"}
      [] OTHER -> AuthenticationErrors

\* Everything else is the end of the call.
GivesUp(t) ==
    /\ Raises(t, Exceptions \ Handled(t))
    /\ Finish(t, reply[t].outcome.is)
    /\ UNCHANGED <<sid, worldVars>>

\* The request or its answer is lost, or takes too long.
Lost(t) ==
    /\ pc[t] # "idle"
    /\ Finish(t, "UnsuccessfulRequest")
    /\ UNCHANGED <<sid, worldVars>>

-----------------------------------------------------------------------------
(* What happens from outside. *)

Upset == upsets < MaxUpsets /\ upsets' = upsets + 1

\* A session times out, or is ended by a reboot; logged_in stays as it is, and
\* nothing here looks at it (_transport.py:296-298).
SessionEnds ==
    /\ Upset
    /\ \E s \in live : live' = live \ {s}
    /\ UNCHANGED <<sid, active, taskVars>>

\* The setter of GLinet.sid: None, an id that is or was in use, one from elsewhere.
SetSid ==
    /\ Upset
    /\ sid' \in {NoSid} \cup Known \cup Unknown
    /\ UNCHANGED <<live, active, taskVars>>

\* Somebody switches a conflicting feature on or off.
FeatureSwitched ==
    /\ Upset
    /\ \E f \in Features :
          active' = IF f \in active THEN active \ {f} ELSE active \cup {f}
    /\ blame' = [t \in Tasks |-> blame[t] \cap active']
    /\ UNCHANGED <<sid, live, pc, sent, reply, conflict, asked, shown, took, out>>

Resume(t) ==
    \/ ReadDone(t) \/ SetDone(t) \/ LoginDone(t) \/ GetterDone(t)
    \/ LoginNeeded(t) \/ ConflictMet(t) \/ GivesUp(t)

Next ==
    \/ \E t \in Tasks :
          \/ Begin(t) \/ Answer(t) \/ Lost(t)
          \/ ReadDone(t) \/ SetDone(t) \/ LoginDone(t) \/ GetterDone(t)
          \/ LoginNeeded(t) \/ ConflictMet(t) \/ GivesUp(t)
    \/ SessionEnds \/ SetSid \/ FeatureSwitched

Spec == Init /\ [][Next]_vars

\* Every request is answered or times out, and its task goes on from there; nothing
\* makes the router grant a login.
FairSpec == Spec /\ \A t \in Tasks : WF_vars(Answer(t) \/ Lost(t) \/ Resume(t))

-----------------------------------------------------------------------------
(* Properties. *)

TypeOK ==
    /\ sid \in Sids \cup {NoSid}
    /\ live \subseteq Sids /\ active \subseteq Features
    /\ upsets \in 0..MaxUpsets
    /\ pc \in [Tasks -> Requests \cup {"idle"}]
    /\ sent \in [Tasks -> Sids \cup {NoSid}]
    /\ reply \in [Tasks -> Replies \cup {NoReply}]
    /\ conflict \subseteq Tasks
    /\ asked \in [Tasks -> SUBSET Getters]
    /\ shown \in [Tasks -> SUBSET Features]
    /\ blame \in [Tasks -> SUBSET Features]
    /\ took \in [Tasks -> 0..1]
    /\ out \in [Tasks -> {"none", "done"} \cup APIClientErrors]

\* The application logs in again only after its session has ended: whatever is
\* refused, and whichever task replaced the session id meanwhile, the id that was
\* refused names no session (error_handling.py:80-82, 141-148).
LoginsReplaceEndedSessions ==
    \A t \in Tasks : pc[t] = "login" => sent[t] \notin live

\* How a call ends tells what became of the change, however often it was repeated
\* after a login: a success means that the router has carried it out, once, and an
\* error the router reported that it has not (services.py:89-123).
OutcomeTellsEffect ==
    [][\A t \in Tasks : pc[t] # "idle" /\ pc'[t] = "idle" =>
          /\ out'[t] = "done" => took[t] = 1
          /\ out'[t] \in NonZeroResponses => took[t] = 0]_vars

\* When a conflict is reported, each of its causes that has not been switched off
\* since was shown by a getter (services.py:100-107), though asking takes three
\* requests and a session may end in between.
ConflictsAreExplained ==
    [][\A t \in Tasks : pc[t] # "idle" /\ out'[t] = "FeatureConflictError" =>
          blame[t] \subseteq shown[t] \cup reply[t].shows]_vars

\* With sessions that end finitely often, every call of an application that logs in
\* again comes to an end: it does not loop on re-authentication
\* (error_handling.py:49-51, services.py:97-98).
CallsComeToAnEnd == \A t \in Tasks : pc[t] # "idle" ~> pc[t] = "idle"
=============================================================================
