--------------------------- MODULE TailscaleProofs ---------------------------
(***************************************************************************)
(* The safety properties of the tailscale workers, for any number of tasks,*)
(* any depth of the retry guard, and any statuses of the daemon.           *)
(***************************************************************************)
EXTENDS Tailscale, TLAPS

USE TailscaleAssumption

-----------------------------------------------------------------------------
(* Type correctness. *)

PCs == {"idle", "status", "recheck", "get_config", "set_config"}
Writers == {"start", "stop", "set_exit_node"}

\* A request is only made by the calls that make it, and a config only written
\* back after it was read.
CallOK(what, request, read) ==
    /\ request = "recheck" => what = "start"
    /\ request = "get_config" => what \in Writers \cup {"configured"}
    /\ request = "set_config" => what \in Writers /\ read \in Configs

CallInv == \A t \in Tasks : CallOK(op[t], pc[t], current[t])

TypeInv == TypeOK /\ CallInv

\* A call that ends keeps the types and CallInv.
LEMMA FinishKeepsTypes ==
    ASSUME TypeInv, NEW t \in Tasks, NEW end \in Ends, Finish(t, end), UNCHANGED op
    PROVE  /\ pc' \in [Tasks -> PCs]
           /\ out' \in [Tasks -> Ends]
           /\ current' \in [Tasks -> Configs \cup {NoConfig}]
           /\ CallInv'
  BY DEF TypeInv, TypeOK, Finish, PCs, CallInv, CallOK

\* So does one that goes on to a request it may make.
LEMMA GotoKeepsTypes ==
    ASSUME TypeInv, NEW t \in Tasks, NEW request \in PCs, Goto(t, request),
           UNCHANGED op, CallOK(op[t], request, current[t])
    PROVE  /\ pc' \in [Tasks -> PCs]
           /\ out' \in [Tasks -> Ends]
           /\ current' \in [Tasks -> Configs \cup {NoConfig}]
           /\ CallInv'
  BY DEF TypeInv, TypeOK, Goto, PCs, CallInv, CallOK

\* What a read makes of the status: the call ends, or goes on to a request.
LEMMA ReadSteps ==
    ASSUME TypeInv, NEW t \in Tasks,
           \/ StartReads(t) \/ StartRechecks(t) \/ StopReads(t)
           \/ StateReads(t) \/ ConfiguredReads(t) \/ RequestLost(t)
    PROVE  /\ UNCHANGED <<routerVars, op, target, depth, attempts, quiet>>
           /\ told' \in {told, [told EXCEPT ![t] = @ \cup {daemon}]}
           /\ told' \in [Tasks -> SUBSET (Statuses \cup {"off"})]
           /\ \A u \in Tasks \ {t} : told'[u] = told[u]
           /\ \/ \E end \in Ends : Finish(t, end)
              \/ \E request \in PCs \ {"set_config"} :
                    Goto(t, request) /\ CallOK(op[t], request, current[t])
  <1>1. /\ UNCHANGED <<routerVars, op, target, depth, attempts, quiet>>
        /\ told' \in {told, [told EXCEPT ![t] = @ \cup {daemon}]}
    BY DEF StartReads, StartRechecks, StopReads, StateReads, ConfiguredReads, RequestLost,
           Told
  <1>2. /\ told' \in [Tasks -> SUBSET (Statuses \cup {"off"})]
        /\ \A u \in Tasks \ {t} : told'[u] = told[u]
    <2>1. daemon \in Statuses \cup {"off"}
      BY DEF TypeInv, TypeOK
    <2> QED
      BY <1>1, <2>1 DEF TypeInv, TypeOK
  <1>3. CASE StartReads(t)
    BY <1>1, <1>2, <1>3 DEF StartReads, Ends, PCs, CallOK, Writers
  <1>4. CASE StopReads(t)
    BY <1>1, <1>2, <1>4 DEF StopReads, Ends, PCs, CallOK, Writers
  <1>5. CASE ConfiguredReads(t)
    BY <1>1, <1>2, <1>5 DEF ConfiguredReads, Ends, PCs, CallOK, Writers
  <1>6. CASE StartRechecks(t) \/ StateReads(t) \/ RequestLost(t)
    BY <1>1, <1>2, <1>6 DEF StartRechecks, StateReads, RequestLost, Failed, Ends
  <1> QED
    BY <1>3, <1>4, <1>5, <1>6

\* The config that is written is one, and the counter of attempts is bounded.
LEMMA AppliedType ==
    ASSUME TypeInv, NEW t \in Tasks, pc[t] = "set_config", Applied(t)
    PROVE  /\ config' = Merged(t, current[t]) /\ config' \in Configs
           /\ attempts' \in [Tasks -> 0 .. MaxDepth + 2]
           /\ UNCHANGED <<daemon, op, target, quiet, told>>
  <1>1. current[t] \in Configs /\ op[t] \in Writers
    BY DEF TypeInv, CallInv, CallOK
  <1>2. Merged(t, current[t]) \in Configs
    BY <1>1 DEF Merged, Writers, Configs, TypeInv, TypeOK
  <1>3. attempts' \in [Tasks -> 0 .. MaxDepth + 2]
    BY DEF Applied, TypeInv, TypeOK
  <1> QED
    BY <1>2, <1>3 DEF Applied

\* TypeInv is inductive.
LEMMA TypeInvariant == Spec => []TypeInv
  <1>1. Init => TypeInv
    <2> SUFFICES ASSUME Init
                 PROVE  TypeInv
      OBVIOUS
    <2>1. depth \in [Tasks -> 0 .. MaxDepth] /\ attempts \in [Tasks -> 0 .. MaxDepth + 2]
      BY DEF Init
    <2> QED
      BY <2>1 DEF Init, TypeInv, TypeOK, CallInv, CallOK, Ops, Ends
  <1>2. TypeInv /\ [Next]_vars => TypeInv'
    <2> SUFFICES ASSUME TypeInv, [Next]_vars
                 PROVE  TypeInv'
      OBVIOUS
    <2>1. ASSUME NEW t \in Tasks, NEW call \in Ops, NEW request \in {"status", "get_config"},
                 Begin(t, call), pc' = [pc EXCEPT ![t] = request],
                 request = "get_config" => call = "set_exit_node",
                 target' \in [Tasks -> ExitNodes \cup {NoExit}], UNCHANGED current
          PROVE  TypeInv'
      <3>1. /\ depth' \in [Tasks -> 0 .. MaxDepth]
            /\ attempts' \in [Tasks -> 0 .. MaxDepth + 2]
        BY <2>1 DEF Begin, TypeInv, TypeOK
      <3>2. /\ op' \in [Tasks -> Ops] /\ out' \in [Tasks -> Ends]
            /\ quiet' \in [Tasks -> BOOLEAN] /\ pc' \in [Tasks -> PCs]
            /\ told' \in [Tasks -> SUBSET (Statuses \cup {"off"})]
        BY <2>1 DEF Begin, TypeInv, TypeOK, Ends, PCs
      <3>3. TypeOK'
        BY <2>1, <3>1, <3>2 DEF Begin, TypeInv, TypeOK, routerVars, PCs
      <3>4. CallInv'
        BY <2>1 DEF Begin, TypeInv, TypeOK, CallInv, CallOK, Writers
      <3> QED
        BY <3>3, <3>4 DEF TypeInv
    <2>2. ASSUME NEW t \in Tasks,
                 \/ tailscale_start(t) \/ tailscale_stop(t)
                 \/ tailscale_connection_state(t) \/ tailscale_configured(t)
          PROVE  TypeInv'
      <3>1. PICK call \in Ops : Call(t, call)
        BY <2>2 DEF tailscale_start, tailscale_stop, tailscale_connection_state,
                    tailscale_configured, Ops
      <3> QED
        BY <2>1, <3>1 DEF Call, TypeInv, TypeOK
    <2>3. ASSUME NEW t \in Tasks, tailscale_set_exit_node(t)
          PROVE  TypeInv'
      <3>1. target' \in [Tasks -> ExitNodes \cup {NoExit}]
        BY <2>3 DEF tailscale_set_exit_node, TypeInv, TypeOK
      <3> QED
        BY <2>1, <2>3, <3>1 DEF tailscale_set_exit_node, Ops
    <2>4. ASSUME NEW t \in Tasks,
                 \/ StartReads(t) \/ StartRechecks(t) \/ StopReads(t)
                 \/ StateReads(t) \/ ConfiguredReads(t) \/ RequestLost(t)
          PROVE  TypeInv'
      <3>1. /\ UNCHANGED <<routerVars, op, target, depth, attempts, quiet>>
            /\ told' \in [Tasks -> SUBSET (Statuses \cup {"off"})]
        BY <2>4, ReadSteps
      <3>2. /\ pc' \in [Tasks -> PCs]
            /\ out' \in [Tasks -> Ends]
            /\ current' \in [Tasks -> Configs \cup {NoConfig}]
            /\ CallInv'
        BY <2>4, <3>1, ReadSteps, FinishKeepsTypes, GotoKeepsTypes
      <3> QED
        BY <3>1, <3>2 DEF TypeInv, TypeOK, routerVars, PCs
    <2>5. ASSUME NEW t \in Tasks, GetConfig(t)
          PROVE  TypeInv'
      <3>1. UNCHANGED <<routerVars, op, target, depth, attempts, quiet, told>>
        BY <2>5 DEF GetConfig
      <3>2. CASE op[t] = "configured"
        <4>1. Finish(t, "true") /\ "true" \in Ends
          BY <2>5, <3>2 DEF GetConfig, Ends
        <4> QED
          BY <3>1, <4>1, FinishKeepsTypes DEF TypeInv, TypeOK, routerVars, PCs
      <3>3. CASE op[t] # "configured"
        <4>1. /\ pc' = [pc EXCEPT ![t] = "set_config"]
              /\ current' = [current EXCEPT ![t] = config]
              /\ UNCHANGED out
          BY <2>5, <3>3 DEF GetConfig
        <4>2. op[t] \in Writers
          BY <2>5, <3>3 DEF GetConfig, TypeInv, CallInv, CallOK
        <4>3. TypeOK'
          BY <3>1, <4>1 DEF TypeInv, TypeOK, routerVars
        <4>4. CallInv'
          BY <3>1, <4>1, <4>2 DEF TypeInv, TypeOK, CallInv, CallOK
        <4> QED
          BY <4>3, <4>4 DEF TypeInv
      <3> QED
        BY <3>2, <3>3
    <2>6. ASSUME NEW t \in Tasks, SetConfig(t)
          PROVE  TypeInv'
      <3>1. /\ config' \in Configs
            /\ attempts' \in [Tasks -> 0 .. MaxDepth + 2]
            /\ UNCHANGED <<daemon, op, target, quiet, told>>
        BY <2>6, AppliedType DEF SetConfig
      <3>2. CASE \E end \in Ends : Finish(t, end) /\ UNCHANGED depth
        BY <3>1, <3>2, FinishKeepsTypes DEF TypeInv, TypeOK, PCs
      <3>3. CASE /\ depth[t] # MaxDepth
                 /\ pc' = [pc EXCEPT ![t] = "status"]
                 /\ current' = [current EXCEPT ![t] = NoConfig]
                 /\ depth' = [depth EXCEPT ![t] = @ + 1]
                 /\ UNCHANGED out
        <4>1. depth' \in [Tasks -> 0 .. MaxDepth]
          BY <3>3 DEF TypeInv, TypeOK
        <4>2. TypeOK'
          BY <3>1, <3>3, <4>1 DEF TypeInv, TypeOK
        <4>3. CallInv'
          BY <3>1, <3>3 DEF TypeInv, TypeOK, CallInv, CallOK
        <4> QED
          BY <4>2, <4>3 DEF TypeInv
      <3> QED
        BY <2>6, <3>2, <3>3 DEF SetConfig, Recurse, Ends
    <2>7. ASSUME NEW t \in Tasks, ReplyLost(t)
          PROVE  TypeInv'
      <3>1. /\ config' \in Configs
            /\ attempts' \in [Tasks -> 0 .. MaxDepth + 2]
            /\ UNCHANGED <<daemon, op, target, quiet, told, depth>>
        BY <2>7, AppliedType DEF ReplyLost
      <3>2. PICK end \in Ends : Finish(t, end)
        BY <2>7 DEF ReplyLost, Failed, Ends
      <3> QED
        BY <3>1, <3>2, FinishKeepsTypes DEF TypeInv, TypeOK, PCs
    <2>8. CASE DaemonMoves
      BY <2>8 DEF DaemonMoves, Down, taskVars, TypeInv, TypeOK, CallInv
    <2>9. CASE UNCHANGED vars
      BY <2>9 DEF vars, routerVars, taskVars, TypeInv, TypeOK, CallInv
    <2> QED
      BY <2>2, <2>3, <2>4, <2>5, <2>6, <2>7, <2>8, <2>9 DEF Next
  <1> QED
    BY <1>1, <1>2, PTL DEF Spec

\* Each variable stays in its type, whatever the tasks and the daemon do.
THEOREM TypeCorrect == Spec => []TypeOK
  BY TypeInvariant, PTL DEF TypeInv

-----------------------------------------------------------------------------
(* The retry guard. *)

\* An attempt more is an attempt that was counted.
LEMMA AppliedCounts ==
    ASSUME TypeInv, AttemptsAreBounded, NEW t \in Tasks, pc[t] = "set_config", Applied(t)
    PROVE  attempts' = [attempts EXCEPT ![t] = depth[t] + 1] /\ depth[t] \in 0 .. MaxDepth
  <1>1. attempts[t] = depth[t] /\ depth[t] \in 0 .. MaxDepth
    BY DEF AttemptsAreBounded, TypeInv, TypeOK
  <1>2. attempts[t] < MaxDepth + 2
    BY <1>1
  <1> QED
    BY <1>1, <1>2 DEF Applied

\* However many tasks start and stop tailscale at once, and whatever the daemon
\* does, each writes the config once per depth and never beyond the guard.
THEOREM RetriesAreBounded == Spec => []AttemptsAreBounded
  <1>1. Init => AttemptsAreBounded
    <2> SUFFICES ASSUME Init, NEW t \in Tasks
                 PROVE  attempts[t] <= MaxDepth + 1 /\ pc[t] = "idle"
      BY DEF AttemptsAreBounded
    <2>1. attempts[t] = 0 /\ pc[t] = "idle"
      BY DEF Init
    <2> QED
      BY <2>1
  <1>2. TypeInv /\ AttemptsAreBounded /\ [Next]_vars => AttemptsAreBounded'
    <2> SUFFICES ASSUME TypeInv, AttemptsAreBounded, [Next]_vars
                 PROVE  AttemptsAreBounded'
      OBVIOUS
    <2>1. ASSUME NEW t \in Tasks,
                 \/ tailscale_start(t) \/ tailscale_stop(t) \/ tailscale_set_exit_node(t)
                 \/ tailscale_connection_state(t) \/ tailscale_configured(t)
          PROVE  AttemptsAreBounded'
      <3>1. \E request \in PCs : pc' = [pc EXCEPT ![t] = request]
        BY <2>1 DEF tailscale_start, tailscale_stop, tailscale_connection_state,
                    tailscale_configured, tailscale_set_exit_node, Call, PCs
      <3>2. /\ depth' = [depth EXCEPT ![t] = 0]
            /\ attempts' = [attempts EXCEPT ![t] = 0]
        BY <2>1 DEF tailscale_start, tailscale_stop, tailscale_connection_state,
                    tailscale_configured, tailscale_set_exit_node, Call, Begin
      <3> QED
        BY <3>1, <3>2 DEF AttemptsAreBounded, TypeInv, TypeOK
    <2>2. ASSUME NEW t \in Tasks,
                 \/ StartReads(t) \/ StartRechecks(t) \/ StopReads(t)
                 \/ StateReads(t) \/ ConfiguredReads(t) \/ RequestLost(t) \/ GetConfig(t)
          PROVE  AttemptsAreBounded'
      <3>1. pc[t] # "idle" /\ UNCHANGED <<depth, attempts>>
        BY <2>2 DEF StartReads, StartRechecks, StopReads, StateReads, ConfiguredReads,
                    RequestLost, GetConfig, Told
      <3>2. \E request \in PCs : pc' = [pc EXCEPT ![t] = request]
        BY <2>2, ReadSteps DEF GetConfig, Finish, Goto, PCs
      <3> QED
        BY <3>1, <3>2 DEF AttemptsAreBounded, TypeInv, TypeOK
    <2>3. ASSUME NEW t \in Tasks, SetConfig(t) \/ ReplyLost(t)
          PROVE  AttemptsAreBounded'
      <3>1. /\ attempts' = [attempts EXCEPT ![t] = depth[t] + 1]
            /\ depth[t] \in 0 .. MaxDepth
        BY <2>3, AppliedCounts DEF SetConfig, ReplyLost
      <3>2. \/ pc' = [pc EXCEPT ![t] = "idle"] /\ UNCHANGED depth
            \/ /\ pc' = [pc EXCEPT ![t] = "status"]
               /\ depth' = [depth EXCEPT ![t] = @ + 1]
        BY <2>3 DEF SetConfig, ReplyLost, Recurse, Finish, Failed
      <3> QED
        BY <3>1, <3>2 DEF AttemptsAreBounded, TypeInv, TypeOK
    <2>4. CASE DaemonMoves \/ UNCHANGED vars
      BY <2>4 DEF DaemonMoves, vars, taskVars, AttemptsAreBounded
    <2> QED
      BY <2>1, <2>2, <2>3, <2>4 DEF Next
  <1> QED
    BY <1>1, <1>2, TypeInvariant, PTL DEF Spec

-----------------------------------------------------------------------------
(* Calls that have the router to themselves. *)

\* Such a call writes back the present config.  A start of this kind sees the daemon
\* up only when the config has it enabled.  A stop never sees an enabled daemon off,
\* and leaves one that is down for good, if it was told a status it understands.
Undisturbed(t) ==
    /\ \A v \in Tasks \ {t} : pc[v] = "idle"
    /\ pc[t] = "set_config" => current[t] = config
    /\ op[t] = "start" =>
        /\ pc[t] # "idle" /\ daemon \notin Down => config.enabled
        /\ pc[t] = "recheck" => daemon # "off" /\ config.enabled
        /\ out[t] = "true" => config.enabled
    /\ op[t] = "stop" =>
        /\ pc[t] # "idle" /\ config.enabled => daemon # "off"
        /\ out[t] = "true" =>
              /\ pc[t] = "idle"
              /\ told[t] \cap {"zero", "novel"} = {} => ~config.enabled /\ daemon \in Down
    /\ out[t] # "AssertionError"

QuietInv == \A t \in Tasks : quiet[t] => Undisturbed(t)

\* While a call is quiet, no other task is in one.
LEMMA QuietIsAlone ==
    ASSUME QuietInv, NEW t \in Tasks, NEW u \in Tasks, quiet[u], pc[t] # "idle"
    PROVE  u = t /\ Undisturbed(t)
  BY DEF QuietInv, Undisturbed

\* A step that begins a call leaves no other quiet.
LEMMA BeginKeepsQuiet ==
    ASSUME TypeInv, QuietInv, NEW t \in Tasks, NEW call \in Ops,
           NEW request \in {"status", "get_config"},
           Begin(t, call), pc' = [pc EXCEPT ![t] = request], UNCHANGED current
    PROVE  QuietInv'
  <1> SUFFICES ASSUME NEW u \in Tasks, quiet'[u]
               PROVE  Undisturbed(u)'
    BY DEF QuietInv
  <1>1. u = t /\ Settled /\ \A v \in Tasks \ {t} : pc[v] = "idle"
    BY DEF Begin
  <1>2. /\ pc'[t] = request /\ op'[t] = call /\ out'[t] = "none"
        /\ \A v \in Tasks \ {t} : pc'[v] = "idle"
        /\ UNCHANGED <<config, daemon>>
    BY <1>1 DEF Begin, TypeInv, TypeOK, routerVars
  <1>3. IF config.enabled THEN daemon # "off" ELSE daemon \in Down
    BY <1>1 DEF Settled
  <1> QED
    BY <1>1, <1>2, <1>3 DEF Undisturbed, Down

\* Nor does a read of the status end a quiet call, or send it on, against what it
\* was asked to do.
LEMMA ReadKeepsQuiet ==
    ASSUME TypeInv, QuietInv, NEW t \in Tasks,
           \/ StartReads(t) \/ StartRechecks(t) \/ StopReads(t)
           \/ StateReads(t) \/ ConfiguredReads(t) \/ RequestLost(t)
    PROVE  QuietInv'
  <1> SUFFICES ASSUME NEW u \in Tasks, quiet'[u]
               PROVE  Undisturbed(u)'
    BY DEF QuietInv
  <1>1. UNCHANGED <<config, daemon, op, quiet>>
    BY ReadSteps DEF routerVars
  <1>2. pc[t] # "idle"
    BY DEF StartReads, StartRechecks, StopReads, StateReads, ConfiguredReads, RequestLost
  <1>3. u = t /\ Undisturbed(t)
    BY <1>1, <1>2, QuietIsAlone
  <1>4. \A v \in Tasks \ {t} : pc'[v] = "idle"
    BY <1>3, ReadSteps DEF Finish, Goto, Undisturbed, TypeInv, TypeOK
  <1>5. pc'[t] # "set_config"
    BY ReadSteps DEF Finish, Goto, TypeInv, TypeOK
  <1>6. CASE StartReads(t)
    <2>1. \/ daemon = "connected" /\ pc'[t] = "idle" /\ out'[t] = "true"
          \/ pc'[t] = "idle" /\ out'[t] \in {"RetryExhausted", "UnexpectedResponse"}
          \/ pc'[t] = "get_config" /\ UNCHANGED out
          \/ daemon = "connecting" /\ pc'[t] = "recheck" /\ UNCHANGED out
      BY <1>6 DEF StartReads, Finish, Goto, TypeInv, TypeOK
    <2> QED
      BY <1>1, <1>2, <1>3, <1>4, <1>5, <1>6, <2>1 DEF StartReads, Undisturbed, Down
  <1>7. CASE StartRechecks(t)
    <2>1. op[t] = "start" /\ pc[t] = "recheck"
      BY <1>7 DEF StartRechecks, TypeInv, CallInv, CallOK
    <2>2. /\ pc'[t] = "idle"
          /\ \/ daemon = "off"
             \/ daemon = "connected" /\ out'[t] = "true"
             \/ out'[t] = "RetryExhausted"
      BY <1>7 DEF StartRechecks, Finish, TypeInv, TypeOK
    <2> QED
      BY <1>1, <1>2, <1>3, <1>4, <1>5, <2>1, <2>2 DEF Undisturbed
  <1>8. CASE StopReads(t)
    <2>1. \/ /\ daemon \in {"off", "zero", "novel"}
             /\ pc'[t] = "idle" /\ out'[t] = "true"
          \/ pc'[t] = "idle" /\ out'[t] = "RetryExhausted"
          \/ pc'[t] = "get_config" /\ UNCHANGED out
      BY <1>8 DEF StopReads, Finish, Goto, TypeInv, TypeOK
    <2>2. op[t] = "stop" /\ pc[t] = "status" /\ daemon \in told'[t]
      BY <1>8 DEF StopReads, Told, TypeInv, TypeOK
    <2> QED
      BY <1>1, <1>2, <1>3, <1>4, <1>5, <2>1, <2>2 DEF Undisturbed, Down
  <1>9. CASE StateReads(t) \/ ConfiguredReads(t)
    <2>1. op[t] \notin {"start", "stop"}
      BY <1>9 DEF StateReads, ConfiguredReads
    <2>2. out'[t] # "AssertionError"
      BY <1>3, <1>9 DEF StateReads, ConfiguredReads, Finish, Goto, TypeInv, TypeOK, Undisturbed
    <2> QED
      BY <1>1, <1>3, <1>4, <1>5, <2>1, <2>2 DEF Undisturbed
  <1>10. CASE RequestLost(t)
    <2>1. pc'[t] = "idle" /\ out'[t] # "AssertionError" /\ out'[t] # "true"
      BY <1>10 DEF RequestLost, Failed, Finish, TypeInv, TypeOK
    <2> QED
      BY <1>1, <1>3, <1>4, <1>5, <2>1 DEF Undisturbed
  <1> QED
    BY <1>6, <1>7, <1>8, <1>9, <1>10

\* A quiet call carries the present config from the read to the write.
LEMMA GetKeepsQuiet ==
    ASSUME TypeInv, QuietInv, NEW t \in Tasks, GetConfig(t)
    PROVE  QuietInv'
  <1> SUFFICES ASSUME NEW u \in Tasks, quiet'[u]
               PROVE  Undisturbed(u)'
    BY DEF QuietInv
  <1>1. UNCHANGED <<config, daemon, op, quiet>> /\ pc[t] = "get_config"
    BY DEF GetConfig, routerVars
  <1>2. u = t /\ Undisturbed(t)
    BY <1>1, QuietIsAlone
  <1>3. CASE op[t] = "configured"
    <2>1. /\ pc'[t] = "idle" /\ out'[t] = "true"
          /\ \A v \in Tasks \ {t} : pc'[v] = pc[v]
      BY <1>3 DEF GetConfig, Finish, TypeInv, TypeOK
    <2> QED
      BY <1>1, <1>2, <1>3, <2>1 DEF Undisturbed
  <1>4. CASE op[t] # "configured"
    <2>1. /\ pc'[t] = "set_config" /\ current'[t] = config /\ UNCHANGED out
          /\ \A v \in Tasks \ {t} : pc'[v] = pc[v]
      BY <1>4 DEF GetConfig, TypeInv, TypeOK
    <2> QED
      BY <1>1, <1>2, <2>1 DEF Undisturbed
  <1> QED
    BY <1>3, <1>4

\* After a start has written, the config has tailscale enabled, after a stop not.
LEMMA WriteKeepsQuiet ==
    ASSUME TypeInv, QuietInv, NEW t \in Tasks, SetConfig(t) \/ ReplyLost(t)
    PROVE  QuietInv'
  <1> SUFFICES ASSUME NEW u \in Tasks, quiet'[u]
               PROVE  Undisturbed(u)'
    BY DEF QuietInv
  <1>1. pc[t] = "set_config" /\ Applied(t)
    BY DEF SetConfig, ReplyLost
  <1>2. config' = Merged(t, current[t]) /\ UNCHANGED <<daemon, op, quiet>>
    BY <1>1 DEF Applied
  <1>3. u = t /\ Undisturbed(t)
    BY <1>1, <1>2, QuietIsAlone
  <1>4. current[t] \in Configs
    BY <1>1 DEF TypeInv, CallInv, CallOK
  <1>5. /\ op[t] = "start" => config'.enabled
        /\ op[t] = "stop" => ~config'.enabled
    BY <1>2, <1>4 DEF Merged, Configs
  <1>6. /\ pc'[t] \in {"idle", "status"}
        /\ \A v \in Tasks \ {t} : pc'[v] = pc[v]
    BY DEF SetConfig, ReplyLost, Recurse, Finish, Failed, TypeInv, TypeOK
  <1>7. out'[t] # "AssertionError" /\ (out'[t] = "true" => out[t] = "true")
    BY <1>3 DEF SetConfig, ReplyLost, Recurse, Finish, Failed, TypeInv, TypeOK, Undisturbed
  <1> QED
    BY <1>1, <1>2, <1>3, <1>5, <1>6, <1>7 DEF Undisturbed

\* The daemon follows the config: it does not come up while disabled, and does not go
\* off while enabled.
LEMMA DaemonKeepsQuiet ==
    ASSUME TypeInv, QuietInv, DaemonMoves
    PROVE  QuietInv'
  <1> SUFFICES ASSUME NEW u \in Tasks, quiet'[u]
               PROVE  Undisturbed(u)'
    BY DEF QuietInv
  <1>1. UNCHANGED <<config, op, pc, current, quiet, told, out>>
    BY DEF DaemonMoves, taskVars
  <1>2. Undisturbed(u)
    BY <1>1 DEF QuietInv
  <1>3. /\ config.enabled => daemon' # "off"
        /\ ~config.enabled /\ daemon \in Down => daemon' \in Down
    BY DEF DaemonMoves, Statuses
  <1>4. pc[u] = "recheck" => op[u] = "start"
    BY DEF TypeInv, CallInv, CallOK
  <1> QED
    BY <1>1, <1>2, <1>3, <1>4 DEF Undisturbed, Down

\* QuietInv is inductive, relative to TypeInv.
LEMMA QuietInvariant == Spec => []QuietInv
  <1>1. Init => QuietInv
    BY DEF Init, QuietInv
  <1>2. TypeInv /\ QuietInv /\ [Next]_vars => QuietInv'
    <2> SUFFICES ASSUME TypeInv, QuietInv, [Next]_vars
                 PROVE  QuietInv'
      OBVIOUS
    <2>1. ASSUME NEW t \in Tasks,
                 \/ tailscale_start(t) \/ tailscale_stop(t) \/ tailscale_set_exit_node(t)
                 \/ tailscale_connection_state(t) \/ tailscale_configured(t)
          PROVE  QuietInv'
      <3>1. PICK call \in Ops, request \in {"status", "get_config"} :
                /\ Begin(t, call)
                /\ pc' = [pc EXCEPT ![t] = request]
                /\ UNCHANGED current
        BY <2>1 DEF tailscale_start, tailscale_stop, tailscale_connection_state,
                    tailscale_configured, tailscale_set_exit_node, Call, Ops
      <3> QED
        BY <3>1, BeginKeepsQuiet
    <2>2. CASE UNCHANGED vars
      BY <2>2 DEF vars, routerVars, taskVars, QuietInv, Undisturbed
    <2> QED
      BY <2>1, <2>2, ReadKeepsQuiet, GetKeepsQuiet, WriteKeepsQuiet, DaemonKeepsQuiet
         DEF Next
  <1> QED
    BY <1>1, <1>2, TypeInvariant, PTL DEF Spec

\* An undisturbed start or stop that answers True has done what it says, whatever
\* the daemon does meanwhile, unless the stop was told a status it takes for stopped.
THEOREM QuietTrueIsTrue == Spec => []QuietCallsDoWhatTheySay
  <1>1. QuietInv => QuietCallsDoWhatTheySay
    BY DEF QuietInv, Undisturbed, QuietCallsDoWhatTheySay
  <1> QED
    BY <1>1, QuietInvariant, PTL

\* "Retrying until disconnected" (tailscale.py:171) is true of an undisturbed stop
\* that answers True and was told neither status 0 nor one the client does not know:
\* the daemon is down, and stays down until somebody calls again.
THEOREM QuietStopsLast ==
    Spec => [](\A t \in Tasks :
                  /\ quiet[t] /\ op[t] = "stop" /\ out[t] = "true"
                  /\ told[t] \cap {"zero", "novel"} = {}
                  => ~config.enabled /\ daemon \in Down)
  <1>1. QuietInv => \A t \in Tasks :
                       /\ quiet[t] /\ op[t] = "stop" /\ out[t] = "true"
                       /\ told[t] \cap {"zero", "novel"} = {}
                       => ~config.enabled /\ daemon \in Down
    BY DEF QuietInv, Undisturbed
  <1> QED
    BY <1>1, QuietInvariant, PTL

\* An undisturbed call never trips over the assertion that a status is a dict.
THEOREM QuietNeverAsserts == Spec => []QuietCallsNeverAssert
  <1>1. QuietInv => QuietCallsNeverAssert
    BY DEF QuietInv, Undisturbed, QuietCallsNeverAssert
  <1> QED
    BY <1>1, QuietInvariant, PTL

\* An undisturbed call keeps the members of the config it was not asked to change.
THEOREM QuietMerges == Spec => QuietWritesMerge
  <1>1. TypeInv /\ QuietInv /\ [Next]_vars =>
            [\A t \in Tasks : quiet[t] /\ attempts'[t] > attempts[t] =>
                config' = Merged(t, config)]_vars
    <2> SUFFICES ASSUME TypeInv, QuietInv, Next,
                        NEW t \in Tasks, quiet[t], attempts'[t] > attempts[t]
                 PROVE  config' = Merged(t, config)
      BY DEF vars
    <2>1. ASSUME NEW u \in Tasks,
                 \/ tailscale_start(u) \/ tailscale_stop(u) \/ tailscale_set_exit_node(u)
                 \/ tailscale_connection_state(u) \/ tailscale_configured(u)
          PROVE  FALSE
      <3>1. attempts' = [attempts EXCEPT ![u] = 0]
        BY <2>1 DEF tailscale_start, tailscale_stop, tailscale_connection_state,
                    tailscale_configured, tailscale_set_exit_node, Call, Begin
      <3> QED
        BY <3>1 DEF TypeInv, TypeOK
    <2>2. ASSUME NEW u \in Tasks,
                 \/ StartReads(u) \/ StartRechecks(u) \/ StopReads(u)
                 \/ StateReads(u) \/ ConfiguredReads(u) \/ RequestLost(u) \/ GetConfig(u)
          PROVE  FALSE
      <3>1. UNCHANGED attempts
        BY <2>2 DEF StartReads, StartRechecks, StopReads, StateReads, ConfiguredReads,
                    RequestLost, GetConfig, Told
      <3> QED
        BY <3>1 DEF TypeInv, TypeOK
    <2>3. ASSUME NEW u \in Tasks, SetConfig(u) \/ ReplyLost(u)
          PROVE  config' = Merged(t, config)
      <3>1. pc[u] = "set_config" /\ config' = Merged(u, current[u])
        BY <2>3 DEF SetConfig, ReplyLost, Applied
      <3>2. t = u /\ current[u] = config
        BY <3>1, QuietIsAlone DEF Undisturbed
      <3> QED
        BY <3>1, <3>2
    <2>4. ASSUME DaemonMoves
          PROVE  FALSE
      <3>1. UNCHANGED attempts
        BY <2>4 DEF DaemonMoves, taskVars
      <3> QED
        BY <3>1 DEF TypeInv, TypeOK
    <2> QED
      BY <2>1, <2>2, <2>3, <2>4 DEF Next
  <1> QED
    BY <1>1, TypeInvariant, QuietInvariant, PTL DEF Spec, QuietWritesMerge
-----------------------------------------------------------------------------
(* Calls are finite: the safety part of EveryCallReturns. *)

\* How many requests a call makes yet at most: up to three on each level of the
\* recursion, and none once it has returned.
OnLevel(t) ==
    CASE pc[t] = "idle" -> 0
      [] pc[t] = "status" -> 3
      [] pc[t] = "get_config" -> 2
      [] pc[t] \in {"recheck", "set_config"} -> 1

RequestsLeft(t) ==
    IF pc[t] = "idle" THEN 0 ELSE 3 * (MaxDepth - depth[t]) + OnLevel(t)

LEMMA RequestsLeftTable ==
    ASSUME NEW t \in Tasks
    PROVE  /\ pc[t] = "idle" => RequestsLeft(t) = 0
           /\ pc[t] = "status" => RequestsLeft(t) = 3 * (MaxDepth - depth[t]) + 3
           /\ pc[t] = "get_config" => RequestsLeft(t) = 3 * (MaxDepth - depth[t]) + 2
           /\ pc[t] \in {"recheck", "set_config"}
                 => RequestsLeft(t) = 3 * (MaxDepth - depth[t]) + 1
           /\ pc'[t] = "idle" => RequestsLeft(t)' = 0
           /\ pc'[t] = "status" => RequestsLeft(t)' = 3 * (MaxDepth - depth'[t]) + 3
           /\ pc'[t] = "get_config" => RequestsLeft(t)' = 3 * (MaxDepth - depth'[t]) + 2
           /\ pc'[t] \in {"recheck", "set_config"}
                 => RequestsLeft(t)' = 3 * (MaxDepth - depth'[t]) + 1
  BY DEF RequestsLeft, OnLevel

\* A request that ends its call leaves none to make.
LEMMA FinishGetsNearer ==
    ASSUME TypeInv, NEW t \in Tasks, pc[t] # "idle", NEW end, Finish(t, end)
    PROVE  RequestsLeft(t)' < RequestsLeft(t)
  <1>1. RequestsLeft(t)' = 0
    BY RequestsLeftTable DEF Finish, TypeInv, TypeOK
  <1>2. depth[t] \in 0 .. MaxDepth /\ pc[t] \in PCs
    BY DEF TypeInv, TypeOK, PCs
  <1>3. MaxDepth - depth[t] \in Nat
    BY <1>2
  <1>4. RequestsLeft(t) > 0
    BY <1>2, <1>3, RequestsLeftTable DEF PCs
  <1> QED
    BY <1>1, <1>4

\* Every request that is answered, fails or is lost brings the call it belongs to
\* nearer to its end.
LEMMA StepsGetNearer ==
    ASSUME TypeInv, NEW t \in Tasks, Step(t)
    PROVE  RequestsLeft(t)' < RequestsLeft(t)
  <1>1. pc[t] \in PCs \ {"idle"} /\ depth[t] \in 0 .. MaxDepth
    BY DEF Step, StartReads, StartRechecks, StopReads, GetConfig, SetConfig, StateReads,
           ConfiguredReads, RequestLost, ReplyLost, TypeInv, TypeOK, PCs
  <1>2. ASSUME NEW end, Finish(t, end)
        PROVE  RequestsLeft(t)' < RequestsLeft(t)
    BY <1>1, <1>2, FinishGetsNearer
  <1>3. ASSUME pc[t] = "status", NEW request \in {"recheck", "get_config"},
               Goto(t, request), UNCHANGED depth
        PROVE  RequestsLeft(t)' < RequestsLeft(t)
    <2>1. pc'[t] = request /\ depth'[t] = depth[t]
      BY <1>3 DEF Goto, TypeInv, TypeOK
    <2> QED
      BY <1>1, <1>3, <2>1, RequestsLeftTable
  <1>4. CASE StartReads(t)
    BY <1>2, <1>3, <1>4 DEF StartReads, Told
  <1>5. CASE StartRechecks(t)
    BY <1>2, <1>5 DEF StartRechecks, Told
  <1>6. CASE StopReads(t)
    BY <1>2, <1>3, <1>6 DEF StopReads, Told
  <1>7. CASE GetConfig(t)
    <2>1. CASE pc' = [pc EXCEPT ![t] = "set_config"]
      <3>1. pc[t] = "get_config" /\ pc'[t] = "set_config" /\ depth'[t] = depth[t]
        BY <1>7, <2>1 DEF GetConfig, TypeInv, TypeOK
      <3> QED
        BY <1>1, <3>1, RequestsLeftTable
    <2> QED
      BY <1>2, <1>7, <2>1 DEF GetConfig
  <1>8. CASE SetConfig(t)
    <2>1. CASE /\ pc' = [pc EXCEPT ![t] = "status"]
               /\ depth' = [depth EXCEPT ![t] = @ + 1]
      <3>1. pc[t] = "set_config" /\ pc'[t] = "status" /\ depth'[t] = depth[t] + 1
        BY <1>8, <2>1 DEF SetConfig, TypeInv, TypeOK
      <3> QED
        BY <1>1, <3>1, RequestsLeftTable
    <2> QED
      BY <1>2, <1>8, <2>1 DEF SetConfig, Recurse
  <1>9. CASE StateReads(t) \/ RequestLost(t) \/ ReplyLost(t)
    BY <1>2, <1>9 DEF StateReads, RequestLost, ReplyLost, Failed
  <1>10. CASE ConfiguredReads(t)
    BY <1>2, <1>3, <1>10 DEF ConfiguredReads, Told
  <1> QED
    BY <1>4, <1>5, <1>6, <1>7, <1>8, <1>9, <1>10 DEF Step

\* Whatever the other tasks write, whatever the daemon does and whichever requests
\* are lost, a call only ever gets nearer to its end, from which it is never more
\* than 3 * (MaxDepth + 1) requests away (tailscale.py:138-168, 182-202): it has no
\* need of anybody's good will to end.  With the fairness of FairSpec, that every
\* request is answered or times out, this is why EveryCallReturns.
CallsGetNearerToTheirEnd ==
    [][\A t \in Tasks : pc[t] # "idle" =>
          \/ RequestsLeft(t)' < RequestsLeft(t)
          \/ UNCHANGED <<pc[t], depth[t], op[t], current[t], attempts[t], out[t]>>]_vars

THEOREM CallsAreShort ==
    Spec => /\ [](\A t \in Tasks : RequestsLeft(t) \in 0 .. 3 * (MaxDepth + 1))
            /\ CallsGetNearerToTheirEnd
  <1>1. ASSUME TypeInv, NEW t \in Tasks
        PROVE  RequestsLeft(t) \in 0 .. 3 * (MaxDepth + 1)
    <2>1. pc[t] \in PCs /\ depth[t] \in 0 .. MaxDepth
      BY <1>1 DEF TypeInv, TypeOK, PCs
    <2> DEFINE levels == MaxDepth - depth[t]
    <2>2. levels \in Nat /\ levels <= MaxDepth
      BY <2>1
    <2>3. 3 * levels \in Nat /\ 3 * levels + 3 <= 3 * (MaxDepth + 1)
      <3> HIDE DEF levels
      <3> QED
        BY <2>2
    <2> QED
      BY <2>1, <2>3, RequestsLeftTable DEF PCs
  <1>2. ASSUME TypeInv, Next, NEW t \in Tasks, pc[t] # "idle"
        PROVE  \/ RequestsLeft(t)' < RequestsLeft(t)
               \/ UNCHANGED <<pc[t], depth[t], op[t], current[t], attempts[t], out[t]>>
    <2>1. ASSUME NEW u \in Tasks,
                 \/ tailscale_start(u) \/ tailscale_stop(u) \/ tailscale_set_exit_node(u)
                 \/ tailscale_connection_state(u) \/ tailscale_configured(u)
          PROVE  UNCHANGED <<pc[t], depth[t], op[t], current[t], attempts[t], out[t]>>
      <3>1. u # t
        BY <1>2, <2>1 DEF tailscale_start, tailscale_stop, tailscale_connection_state,
                    tailscale_configured, tailscale_set_exit_node, Call, Begin
      <3> QED
        BY <1>2, <2>1, <3>1
        DEF tailscale_start, tailscale_stop, tailscale_connection_state, tailscale_configured,
            tailscale_set_exit_node, Call, Begin, TypeInv, TypeOK
    <2>2. ASSUME NEW u \in Tasks \ {t}, Step(u)
          PROVE  UNCHANGED <<pc[t], depth[t], op[t], current[t], attempts[t], out[t]>>
      <3>1. CASE \/ StartReads(u) \/ StartRechecks(u) \/ StopReads(u)
                 \/ StateReads(u) \/ ConfiguredReads(u) \/ RequestLost(u)
        BY <1>2, <2>2, <3>1, ReadSteps DEF Finish, Goto, TypeInv, TypeOK
      <3>2. CASE GetConfig(u)
        BY <1>2, <2>2, <3>2 DEF GetConfig, Finish, TypeInv, TypeOK
      <3>3. CASE SetConfig(u) \/ ReplyLost(u)
        BY <1>2, <2>2, <3>3
        DEF SetConfig, ReplyLost, Applied, Recurse, Failed, Finish, TypeInv, TypeOK
      <3> QED
        BY <2>2, <3>1, <3>2, <3>3 DEF Step
    <2>3. CASE Step(t)
      BY <1>2, <2>3, StepsGetNearer
    <2>4. CASE DaemonMoves
      BY <2>4 DEF DaemonMoves, taskVars
    <2> QED
      BY <1>2, <2>1, <2>2, <2>3, <2>4 DEF Next, Step
  <1>3. TypeInv /\ [Next]_vars =>
           [\A t \in Tasks : pc[t] # "idle" =>
              \/ RequestsLeft(t)' < RequestsLeft(t)
              \/ UNCHANGED <<pc[t], depth[t], op[t], current[t], attempts[t], out[t]>>]_vars
    BY <1>2
  <1>4. TypeInv => \A t \in Tasks : RequestsLeft(t) \in 0 .. 3 * (MaxDepth + 1)
    BY <1>1
  <1> QED
    BY <1>3, <1>4, TypeInvariant, PTL DEF Spec, CallsGetNearerToTheirEnd
-----------------------------------------------------------------------------
(* How calls end. *)

\* While a call is under way it has not ended, a start that waits was told that the
\* device is connecting, and one under way was never told that it is connected.
EndInv ==
    \A t \in Tasks :
        /\ HasReason(t)
        /\ pc[t] # "idle" => out[t] = "none" /\ op[t] # "none"
        /\ pc[t] = "recheck" => "connecting" \in told[t]
        /\ pc[t] # "idle" /\ op[t] = "start" => "connected" \notin told[t]

LEMMA EndsOfTable ==
    /\ EndsOf("none") = {"none"}
    /\ EndsOf("start") = {"none", "true", "RetryExhausted", "UnexpectedResponse",
                          "AssertionError", "RequestFailed", "TypeError"}
    /\ EndsOf("stop") = {"none", "true", "RetryExhausted", "RequestFailed", "TypeError"}
    /\ EndsOf("set_exit_node") = {"none", "done", "RequestFailed", "TypeError"}
    /\ EndsOf("state") = {"none", "state", "ValueError", "RequestFailed", "TypeError"}
    /\ EndsOf("configured") = {"none", "true", "false", "TypeError"}
  BY DEF EndsOf

\* A call that has not ended needs no reason.
LEMMA NoneHasReason ==
    ASSUME NEW t \in Tasks, op[t] \in Ops, out[t] = "none"
    PROVE  HasReason(t)
  BY EndsOfTable DEF HasReason, Ops

\* What the steps of the calls leave to the other calls.
OthersKeep(t) ==
    \A u \in Tasks \ {t} : attempts'[u] = attempts[u] /\ told'[u] = told[u]

\* A step that ends a call for a reason keeps EndInv.
LEMMA FinishForAReason ==
    ASSUME TypeInv, EndInv, NEW t \in Tasks, NEW end, Finish(t, end),
           UNCHANGED <<op, quiet>>, OthersKeep(t), HasReason(t)'
    PROVE  EndInv'
  <1>1. ASSUME NEW u \in Tasks \ {t}
        PROVE  /\ HasReason(u)'
               /\ pc'[u] = pc[u] /\ out'[u] = out[u] /\ told'[u] = told[u]
    <2>1. /\ pc'[u] = pc[u] /\ out'[u] = out[u]
          /\ attempts'[u] = attempts[u] /\ told'[u] = told[u]
      BY DEF Finish, OthersKeep, TypeInv, TypeOK
    <2> QED
      BY <2>1 DEF EndInv, HasReason
  <1>2. pc'[t] = "idle"
    BY DEF Finish, TypeInv, TypeOK
  <1> QED
    BY <1>1, <1>2 DEF EndInv

\* A step that takes a call on to its next request keeps EndInv.
LEMMA GoingOnNeedsNone ==
    ASSUME TypeInv, EndInv, NEW t \in Tasks, pc[t] # "idle", NEW request \in PCs,
           request = "recheck" => "connecting" \in told'[t],
           op[t] = "start" => "connected" \notin told'[t],
           pc' = [pc EXCEPT ![t] = request], UNCHANGED <<op, quiet, out>>, OthersKeep(t)
    PROVE  EndInv'
  <1>1. out[t] = "none" /\ op[t] \in Ops
    BY DEF EndInv, TypeInv, TypeOK
  <1>2. HasReason(t)'
    BY <1>1, EndsOfTable DEF HasReason, Ops
  <1>3. ASSUME NEW u \in Tasks \ {t}
        PROVE  HasReason(u)' /\ pc'[u] = pc[u] /\ told'[u] = told[u]
    BY DEF EndInv, HasReason, OthersKeep, TypeInv, TypeOK
  <1>4. pc'[t] = request
    BY DEF TypeInv, TypeOK
  <1> QED
    BY <1>1, <1>2, <1>3, <1>4 DEF EndInv

LEMMA EndInvariant == Spec => []EndInv
  <1>1. Init => EndInv
    <2> SUFFICES ASSUME Init, NEW t \in Tasks
                 PROVE  /\ HasReason(t)
                        /\ pc[t] = "idle"
      BY DEF EndInv
    <2>1. op[t] = "none" /\ out[t] = "none" /\ pc[t] = "idle"
      BY DEF Init
    <2> QED
      BY <2>1, EndsOfTable DEF HasReason
  <1>2. TypeInv /\ TypeInv' /\ QuietInv /\ AttemptsAreBounded /\ EndInv /\ [Next]_vars
           => EndInv'
    <2> SUFFICES ASSUME TypeInv, TypeInv', QuietInv, AttemptsAreBounded, EndInv, [Next]_vars
                 PROVE  EndInv'
      OBVIOUS
    <2>1. ASSUME NEW t \in Tasks,
                 \/ tailscale_start(t) \/ tailscale_stop(t) \/ tailscale_set_exit_node(t)
                 \/ tailscale_connection_state(t) \/ tailscale_configured(t)
          PROVE  EndInv'
      <3>1. PICK call \in Ops \ {"none"}, request \in {"status", "get_config"} :
                Begin(t, call) /\ pc' = [pc EXCEPT ![t] = request]
        BY <2>1 DEF tailscale_start, tailscale_stop, tailscale_connection_state,
                    tailscale_configured, tailscale_set_exit_node, Call, Ops
      <3>2. /\ pc'[t] = request /\ op'[t] = call /\ out'[t] = "none" /\ told'[t] = {}
            /\ \A u \in Tasks \ {t} : /\ pc'[u] = pc[u] /\ op'[u] = op[u]
                                      /\ out'[u] = out[u] /\ attempts'[u] = attempts[u]
                                      /\ told'[u] = told[u] /\ ~quiet'[u]
        BY <3>1 DEF Begin, TypeInv, TypeOK
      <3>3. HasReason(t)'
        BY <3>2, EndsOfTable DEF HasReason, Ops
      <3>4. \A u \in Tasks \ {t} : HasReason(u)'
        BY <3>2 DEF EndInv, HasReason
      <3> QED
        BY <3>2, <3>3, <3>4 DEF EndInv
    <2>2. ASSUME NEW t \in Tasks,
                 \/ StartReads(t) \/ StartRechecks(t) \/ StopReads(t)
                 \/ StateReads(t) \/ ConfiguredReads(t) \/ RequestLost(t) \/ GetConfig(t)
          PROVE  /\ UNCHANGED <<op, quiet>> /\ UNCHANGED attempts
                 /\ OthersKeep(t)
                 /\ \A end : Finish(t, end) => pc'[t] = "idle" /\ out'[t] = end
      <3>1. \A u \in Tasks \ {t} : told'[u] = told[u]
        BY <2>2, ReadSteps DEF GetConfig
      <3>2. UNCHANGED <<op, quiet>> /\ UNCHANGED attempts
        BY <2>2 DEF StartReads, StartRechecks, StopReads, StateReads, ConfiguredReads,
                    RequestLost, GetConfig, Told
      <3> QED
        BY <3>1, <3>2 DEF OthersKeep, Finish, TypeInv, TypeOK
    \* What the call has been told after a read of the status.
    <2>3. ASSUME NEW t \in Tasks,
                 \/ StartReads(t) \/ StartRechecks(t) \/ StopReads(t)
                 \/ StateReads(t) \/ ConfiguredReads(t)
          PROVE  told'[t] = told[t] \cup {daemon}
      BY <2>3 DEF StartReads, StartRechecks, StopReads, StateReads, ConfiguredReads, Told,
                  TypeInv, TypeOK
    <2>4. ASSUME NEW t \in Tasks, StartReads(t)
          PROVE  EndInv'
      <3>1. /\ op[t] = "start" /\ pc[t] = "status" /\ "connected" \notin told[t]
            /\ told'[t] = told[t] \cup {daemon}
        BY <2>3, <2>4 DEF StartReads, EndInv
      <3>2. CASE \/ daemon = "off" /\ Goto(t, "get_config")
                 \/ daemon = "connecting" /\ Goto(t, "recheck")
        BY <2>2, <2>4, <3>1, <3>2, GoingOnNeedsNone DEF Goto, PCs
      <3>3. CASE \/ daemon = "connected" /\ Finish(t, "true")
                 \/ daemon \in LoginNeeded /\ Finish(t, "RetryExhausted")
                 \/ daemon \in {"zero", "novel"} /\ Finish(t, "UnexpectedResponse")
        <4>1. HasReason(t)'
          BY <2>2, <2>4, <3>1, <3>3, EndsOfTable DEF HasReason, LoginNeeded
        <4> QED
          BY <2>2, <2>4, <3>3, <4>1, FinishForAReason
      <3> QED
        BY <2>4, <3>2, <3>3 DEF StartReads
    <2>5. ASSUME NEW t \in Tasks, StartRechecks(t)
          PROVE  EndInv'
      <3>1. /\ op[t] = "start" /\ pc[t] = "recheck"
            /\ "connecting" \in told[t] /\ "connected" \notin told[t]
            /\ told'[t] = told[t] \cup {daemon}
        BY <2>3, <2>5 DEF StartRechecks, EndInv, TypeInv, CallInv, CallOK
      <3>2. daemon = "off" => ~quiet[t]
        BY <3>1 DEF QuietInv, Undisturbed
      <3>3. \/ daemon = "off" /\ Finish(t, "AssertionError")
            \/ daemon = "connected" /\ Finish(t, "true")
            \/ daemon # "connected" /\ Finish(t, "RetryExhausted")
        BY <2>5 DEF StartRechecks
      <3>4. HasReason(t)'
        BY <2>2, <2>5, <3>1, <3>2, <3>3, EndsOfTable DEF HasReason
      <3> QED
        BY <2>2, <2>5, <3>3, <3>4, FinishForAReason
    <2>6. ASSUME NEW t \in Tasks, StopReads(t)
          PROVE  EndInv'
      <3>1. op[t] = "stop" /\ pc[t] = "status" /\ told'[t] = told[t] \cup {daemon}
        BY <2>3, <2>6 DEF StopReads
      <3>2. CASE Goto(t, "get_config")
        BY <2>2, <2>6, <3>1, <3>2, GoingOnNeedsNone DEF Goto, PCs
      <3>3. CASE \/ daemon \in {"off", "zero", "novel"} /\ Finish(t, "true")
                 \/ daemon \in LoginNeeded /\ Finish(t, "RetryExhausted")
        <4>1. HasReason(t)'
          BY <2>2, <2>6, <3>1, <3>3, EndsOfTable DEF HasReason, LoginNeeded
        <4> QED
          BY <2>2, <2>6, <3>3, <4>1, FinishForAReason
      <3> QED
        BY <2>6, <3>2, <3>3 DEF StopReads
    <2>7. ASSUME NEW t \in Tasks, StateReads(t)
          PROVE  EndInv'
      <3>1. op[t] = "state" /\ told'[t] = told[t] \cup {daemon}
        BY <2>3, <2>7 DEF StateReads
      <3>2. PICK end \in {"state", "ValueError"} :
               Finish(t, end) /\ (end = "ValueError" => daemon = "novel")
        BY <2>7 DEF StateReads
      <3>3. HasReason(t)'
        BY <2>2, <2>7, <3>1, <3>2, EndsOfTable DEF HasReason
      <3> QED
        BY <2>2, <2>7, <3>2, <3>3, FinishForAReason
    <2>8. ASSUME NEW t \in Tasks, ConfiguredReads(t)
          PROVE  EndInv'
      <3>1. op[t] = "configured" /\ pc[t] = "status"
        BY <2>8 DEF ConfiguredReads
      <3>2. CASE Goto(t, "get_config")
        BY <2>2, <2>8, <3>1, <3>2, GoingOnNeedsNone DEF Goto, PCs
      <3>3. CASE Finish(t, "true")
        <4>1. HasReason(t)'
          BY <2>2, <2>8, <3>1, <3>3, EndsOfTable DEF HasReason
        <4> QED
          BY <2>2, <2>8, <3>3, <4>1, FinishForAReason
      <3> QED
        BY <2>8, <3>2, <3>3 DEF ConfiguredReads
    <2>9. ASSUME NEW t \in Tasks, GetConfig(t)
          PROVE  EndInv'
      <3>1. CASE op[t] = "configured"
        <4>1. Finish(t, "true")
          BY <2>9, <3>1 DEF GetConfig
        <4>2. HasReason(t)'
          BY <2>2, <2>9, <3>1, <4>1, EndsOfTable DEF HasReason
        <4> QED
          BY <2>2, <2>9, <4>1, <4>2, FinishForAReason
      <3>2. CASE op[t] # "configured"
        <4>1. /\ pc[t] # "idle" /\ pc' = [pc EXCEPT ![t] = "set_config"]
              /\ UNCHANGED <<out, told>>
          BY <2>9, <3>2 DEF GetConfig
        <4>2. op[t] = "start" => "connected" \notin told'[t]
          BY <4>1 DEF EndInv
        <4> QED
          BY <2>2, <2>9, <4>1, <4>2, GoingOnNeedsNone DEF PCs
      <3> QED
        BY <3>1, <3>2
    \* A request that fails: each call but tailscale_configured says so.
    <2>10. ASSUME NEW t \in Tasks, pc[t] # "idle", Failed(t), UNCHANGED <<op, quiet>>,
                  OthersKeep(t)
           PROVE  EndInv'
      <3>1. op[t] \in Ops \ {"none"}
        BY <2>10 DEF TypeInv, TypeOK, EndInv
      <3>2. PICK end \in {IF op[t] = "configured" THEN "false" ELSE "RequestFailed",
                          "TypeError"} : Finish(t, end)
        BY <2>10 DEF Failed
      <3>3. HasReason(t)'
        <4>1. out'[t] = end
          BY <3>2 DEF Finish, TypeInv, TypeOK
        <4> QED
          BY <2>10, <3>1, <3>2, <4>1, EndsOfTable DEF HasReason, Ops
      <3> QED
        BY <2>10, <3>2, <3>3, FinishForAReason
    <2>11. ASSUME NEW t \in Tasks, RequestLost(t)
           PROVE  EndInv'
      BY <2>2, <2>10, <2>11 DEF RequestLost
    <2>12. ASSUME NEW t \in Tasks, SetConfig(t) \/ ReplyLost(t)
           PROVE  /\ pc[t] = "set_config" /\ UNCHANGED <<op, quiet, told>>
                  /\ attempts'[t] = depth[t] + 1
                  /\ OthersKeep(t)
      <3>1. pc[t] = "set_config" /\ Applied(t)
        BY <2>12 DEF SetConfig, ReplyLost
      <3>2. attempts' = [attempts EXCEPT ![t] = depth[t] + 1]
        BY <3>1, AppliedCounts
      <3> QED
        BY <3>1, <3>2 DEF Applied, OthersKeep, TypeInv, TypeOK
    <2>13. ASSUME NEW t \in Tasks, SetConfig(t)
           PROVE  EndInv'
      <3>1. CASE op[t] = "set_exit_node" /\ Finish(t, "done")
        <4>1. out'[t] = "done"
          BY <3>1 DEF Finish, TypeInv, TypeOK
        <4>2. HasReason(t)'
          BY <2>12, <2>13, <3>1, <4>1, EndsOfTable DEF HasReason
        <4> QED
          BY <2>12, <2>13, <3>1, <4>2, FinishForAReason
      <3>2. CASE /\ op[t] \in {"start", "stop"} /\ depth[t] = MaxDepth
                 /\ Finish(t, "RetryExhausted")
        <4>1. out'[t] = "RetryExhausted" /\ attempts'[t] = MaxDepth + 1
          BY <2>12, <2>13, <3>2 DEF Finish, TypeInv, TypeOK
        <4>2. HasReason(t)'
          BY <2>12, <2>13, <3>2, <4>1, EndsOfTable DEF HasReason
        <4> QED
          BY <2>12, <2>13, <3>2, <4>2, FinishForAReason
      <3>3. CASE pc' = [pc EXCEPT ![t] = "status"] /\ UNCHANGED out
        <4>1. op[t] = "start" => "connected" \notin told'[t]
          BY <2>12, <2>13 DEF EndInv
        <4> QED
          BY <2>12, <2>13, <3>3, <4>1, GoingOnNeedsNone DEF PCs
      <3> QED
        BY <2>13, <3>1, <3>2, <3>3 DEF SetConfig, Recurse
    <2>14. ASSUME NEW t \in Tasks, ReplyLost(t)
           PROVE  EndInv'
      BY <2>10, <2>12, <2>14 DEF ReplyLost
    <2>15. CASE DaemonMoves \/ UNCHANGED vars
      BY <2>15 DEF DaemonMoves, vars, taskVars, EndInv, HasReason
    <2> QED
      BY <2>1, <2>4, <2>5, <2>6, <2>7, <2>8, <2>9, <2>11, <2>13, <2>14, <2>15 DEF Next
  <1> QED
    BY <1>1, <1>2, TypeInvariant, QuietInvariant, RetriesAreBounded, PTL DEF Spec

\* No call of any number of tasks ends in an error of its own, or in True, without
\* having been told what the code gives as the reason, whatever the daemon does: a
\* start or stop that gives up has written MaxDepth + 1 times, was told that the device
\* wants a login, or, a start, that it is connecting and never that it has connected.
THEOREM EndsHaveTheirReasons == Spec => []CallsEndForAReason
  <1>1. EndInv => CallsEndForAReason
    BY DEF EndInv, CallsEndForAReason
  <1> QED
    BY <1>1, EndInvariant, PTL
=============================================================================
