------------------------------ MODULE Tailscale ------------------------------
(***************************************************************************)
(* glinet4/_routes/tailscale.py: the retry state machines that start and   *)
(* stop tailscale, the read-modify-write of its config, and the queries,   *)
(* called by concurrent tasks against one router whose tailscale daemon    *)
(* follows the config in its own time.                                     *)
(*                                                                         *)
(* A request is one atomic step at the router.  What the client computes   *)
(* from the reply touches nothing shared before its next request, so it is *)
(* part of the same step, and the sleeps are the gaps between steps.       *)
(***************************************************************************)
EXTENDS Naturals

CONSTANTS
    Tasks,      \* the tasks calling the routes
    MaxDepth,   \* the retry-depth guard, 10 in the code
    ExitNodes,  \* the exit_node_ip values of the tailnet
    NoExit,     \* "", no exit node
    NoConfig,   \* no config read yet
    Reported    \* the statuses this firmware reports for an enabled tailscale

\* "zero" is status 0, DISCONNECTED, or a dict without a "status" member, which counts
\* as 0 and is seen right after enabling (tests/test_glinet_unit.py:254, 343); "novel"
\* is a value TailscaleConnection does not have; the others are its values 1 to 4.
Statuses == {"zero", "login_required", "authorization_required", "connected",
             "connecting", "novel"}

ASSUME TailscaleAssumption ==
    /\ MaxDepth \in Nat
    /\ Reported \subseteq Statuses
    /\ NoExit \notin ExitNodes
    /\ NoConfig \notin [enabled: BOOLEAN, exit_node_ip: ExitNodes \cup {NoExit}]

VARIABLES
    config,     \* the router's tailscale config
    daemon,     \* what the router's tailscale daemon is doing
    op,         \* the call each task is in, or was in last
    target,     \* the exit node its tailscale_set_exit_node was given
    pc,         \* the request it makes next
    depth,      \* its recursion depth
    current,    \* the config it read before it writes it back
    attempts,   \* how often its call has sent set_config
    quiet,      \* whether its call has had the router to itself, see Begin
    told,       \* history: the statuses its call has been told
    out         \* how its last call ended

routerVars == <<config, daemon>>
taskVars == <<op, target, pc, depth, current, attempts, quiet, told, out>>
vars == <<routerVars, taskVars>>

Configs == [enabled: BOOLEAN, exit_node_ip: ExitNodes \cup {NoExit}]
Ops == {"none", "start", "stop", "set_exit_node", "state", "configured"}
Ends == {"none", "true", "false", "done", "state", "RetryExhausted",
         "UnexpectedResponse", "AssertionError", "ValueError", "RequestFailed",
         "TypeError"}

TypeOK ==
    /\ config \in Configs
    /\ daemon \in Reported \cup {"off"}
    /\ op \in [Tasks -> Ops]
    /\ target \in [Tasks -> ExitNodes \cup {NoExit}]
    /\ pc \in [Tasks -> {"idle", "status", "recheck", "get_config", "set_config"}]
    /\ depth \in [Tasks -> 0 .. MaxDepth]
    /\ current \in [Tasks -> Configs \cup {NoConfig}]
    /\ attempts \in [Tasks -> 0 .. MaxDepth + 2]
    /\ quiet \in [Tasks -> BOOLEAN]
    /\ told \in [Tasks -> SUBSET (Statuses \cup {"off"})]
    /\ out \in [Tasks -> Ends]

\* A daemon that is down: no status, or status 0.
Down == {"off"} \cup (Reported \cap {"zero"})

\* The daemon does what the config says.
Settled == IF config.enabled THEN daemon # "off" ELSE daemon \in Down

Init ==
    /\ config \in Configs
    /\ daemon \in Reported \cup {"off"}
    /\ Settled
    /\ op = [t \in Tasks |-> "none"]
    /\ target = [t \in Tasks |-> NoExit]
    /\ pc = [t \in Tasks |-> "idle"]
    /\ depth = [t \in Tasks |-> 0]
    /\ current = [t \in Tasks |-> NoConfig]
    /\ attempts = [t \in Tasks |-> 0]
    /\ quiet = [t \in Tasks |-> FALSE]
    /\ told = [t \in Tasks |-> {}]
    /\ out = [t \in Tasks |-> "none"]

-----------------------------------------------------------------------------
(* The calls.  get_status answers [] when the daemon is off, and otherwise a  *)
(* dict with its status.                                                     *)

LoginNeeded == {"login_required", "authorization_required"}

Finish(t, end) ==
    /\ pc' = [pc EXCEPT ![t] = "idle"]
    /\ out' = [out EXCEPT ![t] = end]
    /\ current' = [current EXCEPT ![t] = NoConfig]

Goto(t, request) ==
    /\ pc' = [pc EXCEPT ![t] = request]
    /\ UNCHANGED <<out, current>>

\* get_status has been answered to t with what the daemon is doing.
Told(t) ==
    /\ told' = [told EXCEPT ![t] = @ \cup {daemon}]
    /\ UNCHANGED <<routerVars, op, target, depth, attempts, quiet>>

\* A call begins.  It has the router to itself as long as no other task calls;
\* a call that begins while the daemon still lags behind the config, or while
\* another is in progress, never has.
Begin(t, call) ==
    /\ pc[t] = "idle"
    /\ op' = [op EXCEPT ![t] = call]
    /\ depth' = [depth EXCEPT ![t] = 0]
    /\ attempts' = [attempts EXCEPT ![t] = 0]
    /\ out' = [out EXCEPT ![t] = "none"]
    /\ quiet' = [u \in Tasks |->
                    u = t /\ Settled /\ \A v \in Tasks \ {t} : pc[v] = "idle"]
    /\ told' = [told EXCEPT ![t] = {}]
    /\ UNCHANGED routerVars

Call(t, call) ==
    /\ Begin(t, call)
    /\ pc' = [pc EXCEPT ![t] = "status"]
    /\ UNCHANGED <<target, current>>

\* tailscale_start(), tailscale_stop(), tailscale_connection_state() and
\* tailscale_configured() all begin by asking for the status.
tailscale_start(t) == Call(t, "start")
tailscale_stop(t) == Call(t, "stop")
tailscale_connection_state(t) == Call(t, "state")
tailscale_configured(t) == Call(t, "configured")

tailscale_set_exit_node(t) ==
    /\ Begin(t, "set_exit_node")
    /\ pc' = [pc EXCEPT ![t] = "get_config"]
    /\ \E node \in ExitNodes \cup {NoExit} : target' = [target EXCEPT ![t] = node]
    /\ UNCHANGED current

-----------------------------------------------------------------------------
(* The two workers. *)

\* Mutation: a daemon that is off is waited for instead of being enabled.
StartWaits(t) ==
    /\ op[t] = "start" /\ pc[t] = "status"
    /\ \/ daemon = "connected" /\ Finish(t, "true")
       \/ daemon \in {"off", "connecting"} /\ Goto(t, "recheck")
       \/ daemon \in LoginNeeded /\ Finish(t, "RetryExhausted")
       \/ daemon \in {"zero", "novel"} /\ Finish(t, "UnexpectedResponse")
    /\ Told(t)

\* _tailscale_start, from the status it reads.
StartReads(t) ==
    /\ op[t] = "start" /\ pc[t] = "status"
    /\ \/ daemon = "off" /\ Goto(t, "get_config")
       \/ daemon = "connected" /\ Finish(t, "true")
       \/ daemon = "connecting" /\ Goto(t, "recheck")
       \/ daemon \in LoginNeeded /\ Finish(t, "RetryExhausted")
       \/ daemon \in {"zero", "novel"} /\ Finish(t, "UnexpectedResponse")
    /\ Told(t)

\* Three seconds after it was found connecting.  Only a dict is expected.
StartRechecks(t) ==
    /\ pc[t] = "recheck"
    /\ \/ daemon = "off" /\ Finish(t, "AssertionError")
       \/ daemon = "connected" /\ Finish(t, "true")
       \/ daemon \notin {"off", "connected"} /\ Finish(t, "RetryExhausted")
    /\ Told(t)

\* Mutation: a device that is still connecting counts as stopped.
StopIgnoresConnecting(t) ==
    /\ op[t] = "stop" /\ pc[t] = "status"
    /\ \/ daemon = "connected" /\ Goto(t, "get_config")
       \/ daemon \in LoginNeeded /\ Finish(t, "RetryExhausted")
       \/ daemon \notin {"connected"} \cup LoginNeeded /\ Finish(t, "true")
    /\ Told(t)

\* _tailscale_stop, from the status it reads.
StopReads(t) ==
    /\ op[t] = "stop" /\ pc[t] = "status"
    /\ \/ daemon = "off" /\ Finish(t, "true")
       \/ daemon \in {"connected", "connecting"} /\ Goto(t, "get_config")
       \/ daemon \in LoginNeeded /\ Finish(t, "RetryExhausted")
       \/ daemon \in {"zero", "novel"} /\ Finish(t, "true")
    /\ Told(t)

-----------------------------------------------------------------------------
(* _tailscale_set_config: get_config, then set_config with the updates merged*)
(* into what was read; then the workers recurse behind the depth guard.      *)

GetConfig(t) ==
    /\ pc[t] = "get_config"
    /\ IF op[t] = "configured"
       THEN Finish(t, "true")
       ELSE /\ pc' = [pc EXCEPT ![t] = "set_config"]
            /\ current' = [current EXCEPT ![t] = config]
            /\ UNCHANGED out
    /\ UNCHANGED <<routerVars, op, target, depth, attempts, quiet, told>>

Merged(t, read) ==
    CASE op[t] = "start" -> [read EXCEPT !.enabled = TRUE]
      [] op[t] = "stop" -> [read EXCEPT !.enabled = FALSE]
      [] op[t] = "set_exit_node" -> [read EXCEPT !.exit_node_ip = target[t]]

\* Mutation: the updates replace the config instead of being merged into it.
WriteUpdatesOnly(t) ==
    /\ config' = Merged(t, [enabled |-> FALSE, exit_node_ip |-> NoExit])
    /\ attempts' = [attempts EXCEPT ![t] = IF @ < MaxDepth + 2 THEN @ + 1 ELSE @]
    /\ UNCHANGED <<daemon, op, target, quiet, told>>

\* The router takes the config.  Bound: attempts is not counted any further.
Applied(t) ==
    /\ config' = Merged(t, current[t])
    /\ attempts' = [attempts EXCEPT ![t] = IF @ < MaxDepth + 2 THEN @ + 1 ELSE @]
    /\ UNCHANGED <<daemon, op, target, quiet, told>>

\* Mutation: the depth is never passed on.
RetryForEver(t) ==
    /\ pc' = [pc EXCEPT ![t] = "status"]
    /\ current' = [current EXCEPT ![t] = NoConfig]
    /\ UNCHANGED <<out, depth>>

\* Mutation: the guard is one off.
RecurseOnceMore(t) ==
    IF depth[t] = MaxDepth + 1
    THEN Finish(t, "RetryExhausted") /\ UNCHANGED depth
    ELSE /\ pc' = [pc EXCEPT ![t] = "status"]
         /\ current' = [current EXCEPT ![t] = NoConfig]
         /\ depth' = [depth EXCEPT ![t] = @ + 1]
         /\ UNCHANGED out

\* Mutation: the guard is one off the other way.
RecurseOnceLess(t) ==
    IF depth[t] + 1 = MaxDepth
    THEN Finish(t, "RetryExhausted") /\ UNCHANGED depth
    ELSE /\ pc' = [pc EXCEPT ![t] = "status"]
         /\ current' = [current EXCEPT ![t] = NoConfig]
         /\ depth' = [depth EXCEPT ![t] = @ + 1]
         /\ UNCHANGED out

\* depth += 1 and the guard of the next level.
Recurse(t) ==
    IF depth[t] = MaxDepth
    THEN Finish(t, "RetryExhausted") /\ UNCHANGED depth
    ELSE /\ pc' = [pc EXCEPT ![t] = "status"]
         /\ current' = [current EXCEPT ![t] = NoConfig]
         /\ depth' = [depth EXCEPT ![t] = @ + 1]
         /\ UNCHANGED out

SetConfig(t) ==
    /\ pc[t] = "set_config"
    /\ Applied(t)
    /\ \/ op[t] = "set_exit_node" /\ Finish(t, "done") /\ UNCHANGED depth
       \/ op[t] \in {"start", "stop"} /\ Recurse(t)

-----------------------------------------------------------------------------
(* The queries, and requests that fail. *)

\* tailscale_connection_state: TailscaleConnection(status) is a ValueError for a
\* status it does not have.
StateReads(t) ==
    /\ op[t] = "state" /\ pc[t] = "status"
    /\ Finish(t, IF daemon = "novel" THEN "ValueError" ELSE "state")
    /\ Told(t)

\* tailscale_configured: any status but [] will do, else a config must be there.
ConfiguredReads(t) ==
    /\ op[t] = "configured" /\ pc[t] = "status"
    /\ IF daemon = "off" THEN Goto(t, "get_config") ELSE Finish(t, "true")
    /\ Told(t)

\* A request fails with an APIClientError, for which tailscale_configured answers
\* False at either of its requests, or with a builtin raise_for_status lets through
\* (TypeError stands for them), which nothing here catches.
Failed(t) ==
    \/ Finish(t, IF op[t] = "configured" THEN "false" ELSE "RequestFailed")
    \/ Finish(t, "TypeError")

RequestLost(t) ==
    /\ pc[t] # "idle"
    /\ Failed(t)
    /\ UNCHANGED <<routerVars, op, target, depth, attempts, quiet, told>>

\* The router took the config, but the client never learns.
ReplyLost(t) ==
    /\ pc[t] = "set_config"
    /\ Applied(t)
    /\ Failed(t)
    /\ UNCHANGED depth

-----------------------------------------------------------------------------
(* The daemon, on the router (external).  It follows the config in its own    *)
(* time: enabled it may have any status, disabled it goes down and stays so.  *)

DaemonMoves ==
    /\ daemon' \in IF config.enabled THEN Reported
                  ELSE IF daemon \in Down THEN Down ELSE Reported \cup {"off"}
    /\ UNCHANGED <<config, taskVars>>

Step(t) ==
    \/ StartReads(t) \/ StartRechecks(t) \/ StopReads(t)
    \/ GetConfig(t) \/ SetConfig(t) \/ StateReads(t) \/ ConfiguredReads(t)
    \/ RequestLost(t) \/ ReplyLost(t)

Next ==
    \/ \E t \in Tasks :
          \/ tailscale_start(t) \/ tailscale_stop(t) \/ tailscale_set_exit_node(t)
          \/ tailscale_connection_state(t) \/ tailscale_configured(t)
          \/ StartReads(t) \/ StartRechecks(t) \/ StopReads(t)
          \/ GetConfig(t) \/ SetConfig(t) \/ StateReads(t) \/ ConfiguredReads(t)
          \/ RequestLost(t) \/ ReplyLost(t)
    \/ DaemonMoves

\* Each request ends within its timeout; the daemon may never move.
Spec == Init /\ [][Next]_vars
FairSpec == Spec /\ \A t \in Tasks : WF_vars(Step(t))

-----------------------------------------------------------------------------
(* Properties. *)

\* A call of start or stop that had the router to itself, from a daemon that had
\* settled, and that answers True, leaves the config as it was asked to, whatever
\* the daemon did in between; a stop, unless it was told a status it takes for
\* stopped without looking further (tailscale.py:136-202).
QuietCallsDoWhatTheySay ==
    \A t \in Tasks : quiet[t] /\ out[t] = "true" =>
        /\ op[t] = "start" => config.enabled
        /\ op[t] = "stop" => ~config.enabled \/ told[t] \cap {"zero", "novel"} # {}

\* Such a call never trips over its assertion that a status is a dict, after the
\* three seconds of waiting either (tailscale.py:147-154).
QuietCallsNeverAssert ==
    \A t \in Tasks : quiet[t] => out[t] # "AssertionError"

\* Such a call changes its own member of the config and keeps the others, through
\* any number of retries (tailscale.py:51-59).
QuietWritesMerge ==
    [][\A t \in Tasks : quiet[t] /\ attempts'[t] > attempts[t] =>
            config' = Merged(t, config)]_vars

\* However start and stop calls pull against each other, and whatever the daemon
\* does, each writes the config exactly once per depth and never beyond the
\* guard (tailscale.py:138-146, 182-194).
AttemptsAreBounded ==
    \A t \in Tasks :
        /\ attempts[t] <= MaxDepth + 1
        /\ pc[t] # "idle" => attempts[t] = depth[t]

\* What each of the public functions can end with.
EndsOf(call) ==
    CASE call = "none" -> {"none"}
      [] call = "start" -> {"none", "true", "RetryExhausted", "UnexpectedResponse",
                            "AssertionError", "RequestFailed", "TypeError"}
      [] call = "stop" -> {"none", "true", "RetryExhausted", "RequestFailed", "TypeError"}
      [] call = "set_exit_node" -> {"none", "done", "RequestFailed", "TypeError"}
      [] call = "state" -> {"none", "state", "ValueError", "RequestFailed", "TypeError"}
      [] call = "configured" -> {"none", "true", "false", "TypeError"}

\* What t must have been told, or have done, for its call to end as it did.
HasReason(t) ==
    /\ out[t] \in EndsOf(op[t])
    /\ out[t] = "true" /\ op[t] = "start" => "connected" \in told[t]
    /\ out[t] = "true" /\ op[t] = "stop" => told[t] \cap {"off", "zero", "novel"} # {}
    /\ out[t] = "ValueError" => "novel" \in told[t]
    /\ out[t] = "UnexpectedResponse" => told[t] \cap {"zero", "novel"} # {}
    /\ out[t] = "AssertionError" => ~quiet[t] /\ {"off", "connecting"} \subseteq told[t]
    /\ out[t] = "RetryExhausted" =>
          \/ attempts[t] = MaxDepth + 1
          \/ told[t] \cap LoginNeeded # {}
          \/ op[t] = "start" /\ "connecting" \in told[t] /\ "connected" \notin told[t]

\* A start or stop gives up after MaxDepth + 1 writes only, one more than its message
\* counts (tailscale.py:138, 182), unless this very call was told that the device
\* wants a login (:162, :195) or, a start, that it is connecting and not that it has
\* connected (:149-160).  The assertion on the second status fails only for a start
\* that did not have the router to itself and was told connecting, then off (:154);
\* True, ValueError (:73) and UnexpectedResponse (:168) come from a status told.
CallsEndForAReason == \A t \in Tasks : HasReason(t)

\* Every call returns: the recursion is bounded and every request times out.
EveryCallReturns == \A t \in Tasks : pc[t] # "idle" ~> pc[t] = "idle"
=============================================================================
