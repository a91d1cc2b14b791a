---------------------------- MODULE RouterConfig -----------------------------
(***************************************************************************)
(* The setters of the routes.  Six ask the router before they tell it:     *)
(*   led_set_enabled, network_acceleration_set   _routes/services.py       *)
(*   firewall_set_wan_access, firewall_set_dmz   _routes/firewall.py       *)
(*   wifi_iface_set_enabled                      _routes/wifi.py           *)
(*   client_set_blocked                          _routes/clients.py        *)
(* and five make one request:                                              *)
(*   flow_stats_set_enabled, flow_stats_clear    _routes/services.py       *)
(*   fan_set_threshold, fan_self_test            _routes/fan.py            *)
(*   router_reboot                               _routes/system.py         *)
(* Concurrent tasks call them, and other clients of the router, its web    *)
(* interface say, may change the same configuration.                       *)
(*                                                                         *)
(* A request is one atomic step at the router; what the code does with the *)
(* reply before its next request is part of the same step.  A write whose  *)
(* caller has timed out may be carried out later.                          *)
(***************************************************************************)
EXTENDS Settings, FiniteSets

CONSTANTS
    MaxLate,        \* bounds the writes under way after their call has ended
    Groups,         \* bounds the parts of the configuration in use together
    NothingSeen     \* nothing read yet

VARIABLES
    inUse,      \* the parts of the configuration in use, one of Groups
    alone,      \* the application makes one call at a time, no other client
                \* changes anything and no write outlives its call
    router,     \* the router's configuration
    late,       \* the writes the router has yet to carry out
    call,       \* the call each task is in
    pc,         \* the request it makes next
    seen,       \* the part of the configuration it has read
    out         \* how its last call ended

taskVars == <<call, pc, seen, out>>
vars == <<inUse, alone, router, late, taskVars>>

Atomic == INSTANCE AtomicConfig WITH shared <- ~alone, asked <- call

Failures == Refusals \cup {"RequestFailed"}

ASSUME ConfigAssumption ==
    /\ Groups \subseteq SUBSET AllParts
    /\ MaxLate \in Nat
    /\ Temperatures \subseteq Int /\ Temperatures \cap 70..90 # {}
    /\ NoHost \notin Hosts /\ EmptyHost \notin Hosts \cup {NoHost}
    /\ NoActype \notin Actypes \cup {DefaultActype}
    /\ "rest" \notin Toggles
    /\ NoCall \notin Calls

\* firewall_set_dmz has no look at the target there is when it is given "".
NamesNoTarget(c) == c.part = "dmz" /\ c.enabled /\ c.dest_ip = EmptyHost

\* What is turned down before the router is contacted.
\* Mutation first: the range of fan_set_threshold without its ends.
DeclinesEnds(c) ==
    \/ c.part = "fan" /\ c.temperature \notin 71..89
    \/ NamesNoTarget(c)

Declines(c) ==
    \/ c.part = "fan" /\ c.temperature \notin 70..90
    \/ NamesNoTarget(c)

\* firewall_set_dmz reads the configuration when the target is None only.
Reads(c) ==
    \/ c.part \in {"led", "wan", "accel", "wifi", "acl"}
    \/ c.part = "dmz" /\ c.enabled /\ c.dest_ip = NoHost

\* What a route keeps of its reply until it writes: the dict it merges into, or
\* the one member it sends back.
Kept(c, read) ==
    CASE c.part \in {"led", "wan"} -> read
      [] c.part = "dmz" -> [dmz_ip |-> read.dmz_ip]
      [] c.part = "accel" -> [actype |-> read.actype]
      [] c.part = "acl" -> [mode |-> read.mode]
      [] OTHER -> NothingSeen

\* A write a task may be about to make.
IsWrite(w) ==
    /\ w.call \in Calls /\ ~Declines(w.call)
    /\ IF Reads(w.call) THEN \E config \in Configs[w.call.part] : w.seen = Kept(w.call, config)
       ELSE w.seen = NothingSeen

Carried(t) == [call |-> call[t], seen |-> seen[t]]

\* A configuration with an enabled DMZ that has no target, or with a threshold the
\* fan does not have, is not one of Routers.
TypeOK ==
    /\ inUse \in Groups
    /\ alone \in BOOLEAN
    /\ router \in Routers
    /\ \A w \in late : IsWrite(w)
    /\ call \in [Tasks -> Calls \cup {NoCall}]
    /\ pc \in [Tasks -> {"idle", "read", "write"}]
    /\ DOMAIN seen = Tasks
    /\ \A t \in Tasks :
          CASE pc[t] = "idle" -> call[t] = NoCall /\ seen[t] = NothingSeen
            [] pc[t] = "read" -> Reads(call[t]) /\ seen[t] = NothingSeen
            [] pc[t] = "write" -> IsWrite(Carried(t))
    /\ out \in [Tasks -> {"none", "done"} \cup Failures]

\* A part that is not in use is the same in every behaviour, and stays so.
Configured(part, parts) ==
    IF part \in parts THEN Configs[part]
    ELSE {CHOOSE config \in Configs[part] : TRUE}

RoutersUsing(parts) ==
    [led: Configured("led", parts), wan: Configured("wan", parts),
     dmz: Configured("dmz", parts), accel: Configured("accel", parts),
     wifi: Configured("wifi", parts), acl: Configured("acl", parts),
     fan: Configured("fan", parts), test: Configured("test", parts),
     flow: Configured("flow", parts), stats: Configured("stats", parts),
     power: Configured("power", parts)]

Init ==
    /\ inUse \in Groups
    /\ alone \in BOOLEAN
    /\ router \in RoutersUsing(inUse)
    /\ late = {}
    /\ call = [t \in Tasks |-> NoCall]
    /\ pc = [t \in Tasks |-> "idle"]
    /\ seen = [t \in Tasks |-> NothingSeen]
    /\ out = [t \in Tasks |-> "none"]

-----------------------------------------------------------------------------
(* What the routes make of what they read. *)

\* What a route raises after its read, before it writes anything.
\* Mutation first: nothing.
NeverRefused(c, read) == "none"

Refused(c, read) ==
    CASE c.part = "dmz" /\ read.dmz_ip = NoHost -> "ValueError"
      [] c.part = "wifi" /\ c.iface \notin DOMAIN read.res -> "UnexpectedResponse"
      [] OTHER -> "none"

\* current | {"led_enable": enabled}.
LedPayload(c, read) == [read EXCEPT !.led_enable = c.enabled]

\* The toggles that were passed override what was read.
\* Mutation first: a toggle that was not passed is off.
WanPayloadOff(c, read) ==
    [k \in DOMAIN read |->
        IF k \in DOMAIN c.toggles THEN c.toggles[k]
        ELSE IF k \in Toggles THEN FALSE ELSE read[k]]

WanPayload(c, read) ==
    [k \in DOMAIN read |-> IF k \in DOMAIN c.toggles THEN c.toggles[k] ELSE read[k]]

\* {"enabled": False} alone, or with the target given or read.
DmzPayload(c, read) ==
    IF c.enabled
    THEN [enabled |-> TRUE, dest_ip |-> IF Reads(c) THEN read.dmz_ip ELSE c.dest_ip]
    ELSE [enabled |-> FALSE]

\* current.get("actype", 1).  Mutation first: what was read is not looked at.
AccelPayloadDefault(c, read) == [enable |-> c.enabled, actype |-> DefaultActype]

AccelPayload(c, read) ==
    [enable |-> c.enabled,
     actype |-> IF read.actype = NoActype THEN DefaultActype ELSE read.actype]

FlowPayload(c) ==
    [enable |-> c.enabled, type |-> c.stat_type, time |-> c.period]

WifiPayload(c) == [enabled |-> c.enabled, iface_name |-> c.iface]

\* Listed means allowed in the whitelist, denied in the blacklist.
\* Mutation first: the operation is not inverted for the whitelist.
AclPayloadAlike(c, read) ==
    [mode |-> IF read.mode = "unsaid" THEN "black" ELSE read.mode,
     operate |-> IF c.blocked THEN "add" ELSE "del", mac |-> c.mac]

AclPayload(c, read) ==
    LET mode == IF read.mode = "unsaid" THEN "black" ELSE read.mode
    IN  [mode |-> mode,
         operate |-> IF c.blocked # (mode = "white") THEN "add" ELSE "del",
         mac |-> c.mac]

-----------------------------------------------------------------------------
(* What the router makes of a write (external). *)

Rejected(c) ==
    CASE c.part = "accel" /\ router.accel.conflict -> "FeatureConflictError"
      [] c.part = "wifi" /\ c.iface \notin DOMAIN router.wifi.res -> "NonZeroResponse"
      [] OTHER -> "none"

Listed(list, payload) ==
    IF payload.operate = "add" THEN list \cup {payload.mac} ELSE list \ {payload.mac}

\* The other parts of the configuration stay as they are.
Applied(c, read) ==
    CASE c.part = "led" -> [router EXCEPT !.led = LedPayload(c, read)]
      [] c.part = "wan" -> [router EXCEPT !.wan = WanPayload(c, read)]
      [] c.part = "dmz" ->
            LET payload == DmzPayload(c, read)
            IN  [router EXCEPT !.dmz =
                    [enabled |-> payload.enabled,
                     dmz_ip |-> IF payload.enabled THEN payload.dest_ip ELSE @.dmz_ip]]
      [] c.part = "accel" ->
            LET payload == AccelPayload(c, read)
            IN  [router EXCEPT !.accel.enable = payload.enable,
                               !.accel.actype = payload.actype]
      [] c.part = "wifi" ->
            LET payload == WifiPayload(c)
            IN  [router EXCEPT !.wifi.res[payload.iface_name] = payload.enabled]
      [] c.part = "acl" ->
            LET payload == AclPayload(c, read)
            IN  IF payload.mode = "white"
                THEN [router EXCEPT !.acl.white = Listed(@, payload)]
                ELSE [router EXCEPT !.acl.black = Listed(@, payload)]
      [] c.part = "fan" -> [router EXCEPT !.fan.temperature = c.temperature]
      [] c.part = "test" -> [router EXCEPT !.test.test = TRUE]
      [] c.part = "flow" -> [router EXCEPT !.flow = FlowPayload(c)]
      [] c.part = "stats" -> [router EXCEPT !.stats.collected = FALSE]
      [] c.part = "power" -> [router EXCEPT !.power.rebooting = TRUE]

-----------------------------------------------------------------------------
(* The calls. *)

Quiescent == \A t \in Tasks : pc[t] = "idle"

Finish(t, end) ==
    /\ call' = [call EXCEPT ![t] = NoCall]
    /\ pc' = [pc EXCEPT ![t] = "idle"]
    /\ seen' = [seen EXCEPT ![t] = NothingSeen]
    /\ out' = [out EXCEPT ![t] = end]

Begin(t, c) ==
    /\ pc[t] = "idle"
    /\ c.part \in inUse
    /\ alone => Quiescent
    /\ IF Declines(c) THEN Finish(t, "ValueError")
       ELSE /\ call' = [call EXCEPT ![t] = c]
            /\ pc' = [pc EXCEPT ![t] = IF Reads(c) THEN "read" ELSE "write"]
            /\ out' = [out EXCEPT ![t] = "none"]
            /\ UNCHANGED seen
    /\ UNCHANGED <<inUse, alone, router, late>>

Read(t) ==
    LET read == router[call[t].part]
    IN  /\ pc[t] = "read"
        /\ IF Refused(call[t], read) # "none"
           THEN Finish(t, Refused(call[t], read))
           ELSE /\ seen' = [seen EXCEPT ![t] = Kept(call[t], read)]
                /\ pc' = [pc EXCEPT ![t] = "write"]
                /\ UNCHANGED <<call, out>>
        /\ UNCHANGED <<inUse, alone, router, late>>

Write(t) ==
    /\ pc[t] = "write"
    /\ IF Rejected(call[t]) # "none"
       THEN Finish(t, Rejected(call[t])) /\ UNCHANGED router
       ELSE router' = Applied(call[t], seen[t]) /\ Finish(t, "done")
    /\ UNCHANGED <<inUse, alone, late>>

\* A request does not reach the router, or fails there.
\* Mutation first: the error is swallowed.
RequestLostSwallowed(t) ==
    /\ pc[t] # "idle"
    /\ Finish(t, "done")
    /\ UNCHANGED <<inUse, alone, router, late>>

RequestLost(t) ==
    /\ pc[t] # "idle"
    /\ Finish(t, "RequestFailed")
    /\ UNCHANGED <<inUse, alone, router, late>>

\* The router takes a write, but the client never learns.
ReplyLost(t) ==
    /\ pc[t] = "write"
    /\ Rejected(call[t]) = "none"
    /\ router' = Applied(call[t], seen[t])
    /\ Finish(t, "RequestFailed")
    /\ UNCHANGED <<inUse, alone, late>>

\* The request times out while the router is still busy with it.
TimesOut(t) ==
    /\ pc[t] = "write"
    /\ ~alone /\ Cardinality(late) < MaxLate
    /\ late' = late \cup {Carried(t)}
    /\ Finish(t, "RequestFailed")
    /\ UNCHANGED <<inUse, alone, router>>

\* Nobody is waiting for the answer any more.
Lands(w) ==
    /\ late' = late \ {w}
    /\ router' = IF Rejected(w.call) = "none" THEN Applied(w.call, w.seen) ELSE router
    /\ UNCHANGED <<inUse, alone, taskVars>>

\* A reboot drops what the router was busy with (external).
Reboots ==
    /\ router.power.rebooting
    /\ router' = [router EXCEPT !.power.rebooting = FALSE, !.test.test = FALSE]
    /\ late' = {}
    /\ UNCHANGED <<inUse, alone, taskVars>>

\* A self-test ends after its duration, the statistics fill (external).
Settles ==
    /\ router' \in {[router EXCEPT !.test.test = FALSE]} \cup
                     IF "stats" \in inUse THEN {[router EXCEPT !.stats.collected = TRUE]} ELSE {}
    /\ UNCHANGED <<inUse, alone, late, taskVars>>

\* Another client writes one part (external).
Elsewhere ==
    /\ ~alone
    /\ \E part \in inUse : \E config \in Configs[part] :
          router' = [router EXCEPT ![part] = config]
    /\ UNCHANGED <<inUse, alone, late, taskVars>>

Next ==
    \/ \E t \in Tasks :
          \/ \E c \in Calls : Begin(t, c)
          \/ Read(t) \/ Write(t) \/ RequestLost(t) \/ ReplyLost(t) \/ TimesOut(t)
    \/ \E w \in late : Lands(w)
    \/ Reboots \/ Settles \/ Elsewhere

Spec == Init /\ [][Next]_vars

-----------------------------------------------------------------------------
(* Properties. *)

\* With one call at a time every setter is atomic, though most take two requests
\* and any of them may fail, on any configuration: a call that returns has done
\* what it was asked, all of it and at that moment; one that ends in a lost request
\* has done all of that or nothing; one that is refused nothing.  On a router that
\* others change too, what a call does stays within its part of the configuration,
\* and a refused one still does nothing.
AtomicSpec == Atomic!Spec

\* How much of what a route read may change under it without harm: nothing of an
\* LED or WAN access dict, the target of the DMZ if it was read, the acceleration
\* type, the mode of the access list; wifi interfaces are not looked at again.
Undisturbed(w) == Reads(w.call) => w.seen = Kept(w.call, router[w.call.part])

\* However calls of several tasks, other clients and writes that land after their
\* caller has timed out interleave, a write that was not disturbed in that sense
\* does what its caller asked and nothing else: two clients blocked, or two
\* interfaces switched, at the same time both are, a DMZ switched off keeps the
\* target another task just gave it.  A write that lands late is held to the same:
\* it may block again a client that was let in meanwhile, but touches no other.
UndisturbedWritesKeepTheirPromise ==
    [][/\ \A t \in Tasks :
             /\ pc[t] = "write" /\ pc'[t] = "idle"
             /\ out'[t] = "done" \/ router' # router
             /\ Undisturbed(Carried(t))
             => Done(call[t], router, router')
       /\ \A w \in late :
             Lands(w) /\ router' # router /\ Undisturbed(w)
             => Done(w.call, router, router')]_vars

\* A call that is refused, by the route or by the router, could not have been
\* carried out at that moment: an exception other than for a lost request never
\* stands for a change that was possible, at either end of the accepted range
\* (fan.py:59) as little as on a configuration that changed between read and
\* write.  The one exception is a DMZ to be enabled with "" for a target
\* (firewall.py:65-71, and DmzRefusalsTellTheTruth).
Possible(c) ==
    \E config \in Configs[c.part] :
        Done(c, router, [router EXCEPT ![c.part] = config])

RefusalsAreJustified ==
    [][\A t \in Tasks :
          /\ /\ pc[t] # "idle" /\ pc'[t] = "idle"
             /\ out'[t] \in Failures \ {"RequestFailed"}
             => ~Possible(call[t]) /\ router' = router
          /\ pc[t] = "idle" /\ pc'[t] = "idle" /\ out'[t] = "ValueError"
             => \A c \in Calls : Begin(t, c) => NamesNoTarget(c) \/ ~Possible(c)]_vars

\* firewall.py:69-70: "enabling the DMZ requires a destination IP, but none was given
\* and the router reports no current dmz_ip".  Lines 65-67 ask the router for None
\* alone, so with "" the error is raised whatever the router would report.
DmzRefusalsTellTheTruth ==
    [][\A t \in Tasks, c \in Calls :
          /\ c.part = "dmz" /\ (call[t] = c \/ Begin(t, c))
          /\ pc'[t] = "idle" /\ out'[t] = "ValueError"
          => router.dmz.dmz_ip = NoHost]_vars
=============================================================================
