------------------------- MODULE RouterConfigProofs --------------------------
(***************************************************************************)
(* The setters, for any number of tasks and of writes that land late, any  *)
(* configuration and any parts of it in use together.                      *)
(***************************************************************************)
EXTENDS RouterConfig, TLAPS

(* The calls, by the part of the configuration they are about. *)

LEMMA CallTypes ==
    ASSUME NEW c \in Calls
    PROVE  /\ c.part \in AllParts
           /\ c.part = "led" => c \in [part: {"led"}, enabled: BOOLEAN]
           /\ c.part = "wan" => c \in [part: {"wan"},
                  toggles: UNION {[names -> BOOLEAN] : names \in SUBSET Toggles}]
           /\ c.part = "dmz" => c \in [part: {"dmz"}, enabled: BOOLEAN,
                  dest_ip: Hosts \cup {NoHost, EmptyHost}]
           /\ c.part = "accel" => c \in [part: {"accel"}, enabled: BOOLEAN]
           /\ c.part = "wifi" => c \in [part: {"wifi"}, iface: Ifaces, enabled: BOOLEAN]
           /\ c.part = "acl" => c \in [part: {"acl"}, mac: Macs, blocked: BOOLEAN]
           /\ c.part = "fan" => c \in [part: {"fan"}, temperature: Temperatures]
           /\ c.part = "flow" => c \in [part: {"flow"}, enabled: BOOLEAN,
                  stat_type: {"app", "other"}, period: {"day", "other"}]
  BY DEF Calls, AllParts

\* A write on its way, its target included: the route has looked at it.
WriteInv(w) ==
    /\ IsWrite(w)
    /\ w.call.part = "dmz" /\ Reads(w.call) => w.seen.dmz_ip # NoHost

\* What a write does even if all that was read before it has changed since: it leaves
\* the other parts alone and sets the members it was asked to, and those of the calls
\* that send back nothing they have read exactly so.  It takes an unchanged mode of
\* the access list to have the client denied or let in, but no other client is
\* affected by a changed one.  Of the members that a call was not asked about nothing
\* is said: they are what can fall back.
Asked(c, read, old, new) ==
    /\ \A part \in AllParts \ {c.part} : new[part] = old[part]
    /\ c.part = "led" => new.led.led_enable = c.enabled
    /\ c.part = "wan" => \A k \in DOMAIN c.toggles : new.wan[k] = c.toggles[k]
    /\ c.part = "dmz" => /\ new.dmz.enabled = c.enabled
                         /\ c.enabled /\ c.dest_ip \in Hosts => new.dmz.dmz_ip = c.dest_ip
    /\ c.part = "accel" => /\ new.accel.enable = c.enabled
                           /\ new.accel.conflict = old.accel.conflict
    /\ c.part = "acl" =>
          /\ new.acl.mode = old.acl.mode
          /\ \A mac \in Macs \ {c.mac} : mac \in Denied(new.acl) <=> mac \in Denied(old.acl)
          /\ (read.mode = "white" <=> old.acl.mode = "white")
                => (c.mac \in Denied(new.acl) <=> c.blocked)
    /\ c.part \in {"wifi", "fan", "test", "flow", "stats", "power"} => Done(c, old, new)

\* What a write leaves behind is done if nothing it relies on has changed, and what
\* was asked for, on a configuration the router can have, in any case.
Promise(c, read) ==
    /\ Applied(c, read) \in Routers
    /\ (Reads(c) => read = Kept(c, router[c.part])) => Done(c, router, Applied(c, read))
    /\ Asked(c, read, router, Applied(c, read))

LEMMA LedPromise ==
    ASSUME router \in Routers, NEW c \in Calls, c.part = "led", NEW read,
           WriteInv([call |-> c, seen |-> read])
    PROVE  Promise(c, read)
  <1>1. read \in LedConfigs
    BY DEF WriteInv, IsWrite, Reads, Kept, Configs
  <1>2. Applied(c, read) = [router EXCEPT !.led = LedPayload(c, read)]
    BY DEF Applied
  <1>3. LedPayload(c, read) \in LedConfigs
    BY <1>1, CallTypes DEF LedPayload, LedConfigs
  <1>4. Applied(c, read) \in Routers
    BY <1>2, <1>3 DEF Routers
  <1>5. ASSUME read = router.led PROVE Done(c, router, Applied(c, read))
    BY <1>2, <1>5 DEF Done, LedDone, LedPayload, Routers, AllParts
  <1>6. Kept(c, router[c.part]) = router.led /\ Reads(c)
    BY DEF Kept, Reads
  <1>7. Asked(c, read, router, Applied(c, read))
    BY <1>1, <1>2 DEF Asked, LedPayload, LedConfigs, Routers, AllParts
  <1> QED
    BY <1>4, <1>5, <1>6, <1>7 DEF Promise

LEMMA WanPromise ==
    ASSUME router \in Routers, NEW c \in Calls, c.part = "wan", NEW read,
           WriteInv([call |-> c, seen |-> read])
    PROVE  Promise(c, read)
  <1>1. read \in WanConfigs
    BY DEF WriteInv, IsWrite, Reads, Kept, Configs
  <1>2. Applied(c, read) = [router EXCEPT !.wan = WanPayload(c, read)]
    BY DEF Applied
  <1>3. WanPayload(c, read) \in WanConfigs
    BY <1>1, CallTypes DEF WanPayload, WanConfigs
  <1>4. Applied(c, read) \in Routers
    BY <1>2, <1>3 DEF Routers
  <1>5. ASSUME read = router.wan PROVE Done(c, router, Applied(c, read))
    BY <1>2, <1>5 DEF Done, WanDone, WanPayload, Routers, AllParts
  <1>6. Kept(c, router[c.part]) = router.wan /\ Reads(c)
    BY DEF Kept, Reads
  <1>7. Asked(c, read, router, Applied(c, read))
    <2>1. DOMAIN c.toggles \subseteq DOMAIN read
      BY <1>1, CallTypes DEF WanConfigs
    <2> QED
      BY <1>2, <2>1 DEF Asked, WanPayload, Routers, AllParts
  <1> QED
    BY <1>4, <1>5, <1>6, <1>7 DEF Promise

LEMMA DmzPromise ==
    ASSUME router \in Routers, NEW c \in Calls, c.part = "dmz", NEW read,
           WriteInv([call |-> c, seen |-> read])
    PROVE  Promise(c, read)
  <1>0. /\ router.dmz \in DmzConfigs /\ c.enabled \in BOOLEAN
        /\ c.enabled => c.dest_ip \in Hosts \cup {NoHost}
    <2>1. ~NamesNoTarget(c)
      BY DEF WriteInv, IsWrite, Declines
    <2> QED
      BY <2>1, CallTypes DEF Routers, NamesNoTarget
  <1>1. Reads(c) => read.dmz_ip \in Hosts
    <2>1. SUFFICES ASSUME Reads(c) PROVE read.dmz_ip \in Hosts
      OBVIOUS
    <2>2. PICK config \in DmzConfigs : read = Kept(c, config)
      BY <2>1 DEF WriteInv, IsWrite, Configs
    <2>3. read.dmz_ip = config.dmz_ip /\ config.dmz_ip \in Hosts \cup {NoHost}
      BY <2>2 DEF Kept, DmzConfigs
    <2> QED
      BY <2>1, <2>3 DEF WriteInv
  <1> DEFINE target == IF ~c.enabled THEN router.dmz.dmz_ip
                       ELSE IF Reads(c) THEN read.dmz_ip ELSE c.dest_ip
  <1>2. Applied(c, read) = [router EXCEPT !.dmz = [enabled |-> c.enabled, dmz_ip |-> target]]
    BY <1>0 DEF Applied, DmzPayload, Routers
  <1>3. target \in Hosts \cup {NoHost} /\ (c.enabled => target # NoHost)
    BY <1>0, <1>1, ConfigAssumption DEF DmzConfigs, Reads
  <1> HIDE DEF target
  <1>4. Applied(c, read) \in Routers
    BY <1>0, <1>2, <1>3 DEF Routers, DmzConfigs
  <1>5. ASSUME Reads(c) => read = Kept(c, router[c.part]) PROVE Done(c, router, Applied(c, read))
    <2>1. target = IF c.enabled /\ c.dest_ip \in Hosts THEN c.dest_ip ELSE router.dmz.dmz_ip
      BY <1>0, <1>5, ConfigAssumption DEF target, Reads, Kept
    <2> QED
      BY <1>2, <1>3, <2>1 DEF Done, DmzDone, Routers, AllParts
  <1>6. Asked(c, read, router, Applied(c, read))
    <2>1. c.enabled /\ c.dest_ip \in Hosts => target = c.dest_ip
      BY ConfigAssumption DEF target, Reads
    <2> QED
      BY <1>2, <2>1 DEF Asked, Routers, AllParts
  <1> QED
    BY <1>4, <1>5, <1>6 DEF Promise

LEMMA AccelPromise ==
    ASSUME router \in Routers, NEW c \in Calls, c.part = "accel", NEW read,
           WriteInv([call |-> c, seen |-> read]), Rejected(c) = "none"
    PROVE  Promise(c, read)
  <1>0. router.accel \in AccelConfigs /\ c.enabled \in BOOLEAN /\ ~router.accel.conflict
    BY CallTypes DEF Routers, Rejected
  <1>1. read.actype \in Actypes \cup {DefaultActype, NoActype}
    <2>1. PICK config \in AccelConfigs : read = Kept(c, config)
      BY DEF WriteInv, IsWrite, Reads, Configs
    <2> QED
      BY <2>1 DEF Kept, AccelConfigs
  <1> DEFINE actype == IF read.actype = NoActype THEN DefaultActype ELSE read.actype
  <1>2. Applied(c, read) =
           [router EXCEPT !.accel = [enable |-> c.enabled, actype |-> actype, conflict |-> FALSE]]
    <2>1. Applied(c, read) =
             [router EXCEPT !.accel.enable = c.enabled, !.accel.actype = actype]
      BY DEF Applied, AccelPayload
    <2> HIDE DEF actype
    <2> QED
      BY <1>0, <2>1 DEF Routers, AccelConfigs
  <1>3. actype \in Actypes \cup {DefaultActype, NoActype}
    BY <1>1
  <1> HIDE DEF actype
  <1>4. Applied(c, read) \in Routers
    <2>1. [enable |-> c.enabled, actype |-> actype, conflict |-> FALSE] \in AccelConfigs
      BY <1>0, <1>3 DEF AccelConfigs
    <2> QED
      BY <1>2, <2>1 DEF Routers
  <1>5. ASSUME read = Kept(c, router[c.part]) PROVE Done(c, router, Applied(c, read))
    <2>1. read.actype = router.accel.actype
      BY <1>5 DEF Kept
    <2>2. AccelDone(c, router.accel, [enable |-> c.enabled, actype |-> actype, conflict |-> FALSE])
      BY <1>0, <2>1 DEF AccelDone, AccelConfigs, actype
    <2> QED
      BY <1>2, <2>2 DEF Done, Routers, AllParts
  <1>6. Reads(c)
    BY DEF Reads
  <1>7. Asked(c, read, router, Applied(c, read))
    <2>1. router.accel.conflict = FALSE
      BY <1>0 DEF AccelConfigs
    <2>2. Applied(c, read).accel = [enable |-> c.enabled, actype |-> actype, conflict |-> FALSE]
      BY <1>2 DEF Routers
    <2>3. \A part \in AllParts \ {"accel"} : Applied(c, read)[part] = router[part]
      BY <1>2 DEF Routers, AllParts
    <2> DEFINE accel == [enable |-> c.enabled, actype |-> actype, conflict |-> FALSE]
    <2>4. accel.enable = c.enabled /\ accel.conflict = FALSE
      OBVIOUS
    <2> HIDE DEF accel
    <2>5. Applied(c, read).accel = accel
      BY <2>2 DEF accel
    <2> QED
      BY <2>1, <2>3, <2>4, <2>5 DEF Asked
  <1> QED
    BY <1>4, <1>5, <1>6, <1>7 DEF Promise

LEMMA WifiPromise ==
    ASSUME router \in Routers, NEW c \in Calls, c.part = "wifi", NEW read,
           Rejected(c) = "none"
    PROVE  Promise(c, read)
  <1>0. router.wifi \in WifiConfigs /\ c.enabled \in BOOLEAN /\ c.iface \in DOMAIN router.wifi.res
    BY CallTypes DEF Routers, Rejected
  <1>1. PICK names \in SUBSET Ifaces : router.wifi.res \in [names -> BOOLEAN]
    BY <1>0 DEF WifiConfigs
  <1> DEFINE res == [router.wifi.res EXCEPT ![c.iface] = c.enabled]
  <1>2. Applied(c, read) = [router EXCEPT !.wifi = [router.wifi EXCEPT !.res = res]]
    BY <1>0 DEF Applied, WifiPayload, Routers, WifiConfigs
  <1>3. res \in [names -> BOOLEAN]
    BY <1>0, <1>1
  <1>4. Applied(c, read) \in Routers
    BY <1>0, <1>2, <1>3 DEF Routers, WifiConfigs
  <1>5. Done(c, router, Applied(c, read))
    BY <1>0, <1>2 DEF Done, WifiDone, Routers, AllParts, WifiConfigs
  <1> QED
    BY <1>4, <1>5 DEF Promise, Asked, Done

LEMMA AclPromise ==
    ASSUME router \in Routers, NEW c \in Calls, c.part = "acl", NEW read,
           WriteInv([call |-> c, seen |-> read])
    PROVE  Promise(c, read)
  <1>0. router.acl \in AclConfigs /\ c.mac \in Macs /\ c.blocked \in BOOLEAN
    BY CallTypes DEF Routers
  <1>1. read.mode \in {"black", "white", "unsaid"}
    <2>1. PICK config \in AclConfigs : read = Kept(c, config)
      BY DEF WriteInv, IsWrite, Reads, Configs
    <2> QED
      BY <2>1 DEF Kept, AclConfigs
  <1> DEFINE Edited(list, add) == IF add THEN list \cup {c.mac} ELSE list \ {c.mac}
             acl == IF read.mode = "white"
                    THEN [router.acl EXCEPT !.white = Edited(@, ~c.blocked)]
                    ELSE [router.acl EXCEPT !.black = Edited(@, c.blocked)]
  <1>2. Applied(c, read) = [router EXCEPT !.acl = acl]
    BY <1>0, <1>1 DEF Applied, AclPayload, Listed, Routers, AclConfigs
  <1>3. acl \in AclConfigs
    BY <1>0 DEF AclConfigs
  <1> HIDE DEF acl
  <1>4. Applied(c, read) \in Routers
    BY <1>2, <1>3 DEF Routers
  <1>5. ASSUME read = Kept(c, router[c.part]) PROVE Done(c, router, Applied(c, read))
    <2>1. read.mode = router.acl.mode
      BY <1>5 DEF Kept
    <2>2. AclDone(c, router.acl, acl)
      BY <1>0, <1>1, <2>1 DEF AclDone, Denied, AclConfigs, acl
    <2> QED
      BY <1>2, <2>2 DEF Done, Routers, AllParts
  <1>6. Reads(c)
    BY DEF Reads
  <1>7. Asked(c, read, router, Applied(c, read))
    <2>1. /\ acl.mode = router.acl.mode
          /\ \A mac \in Macs \ {c.mac} : mac \in Denied(acl) <=> mac \in Denied(router.acl)
      BY <1>0 DEF Denied, AclConfigs, acl
    <2>2. (read.mode = "white" <=> router.acl.mode = "white")
             => (c.mac \in Denied(acl) <=> c.blocked)
      BY <1>0 DEF Denied, AclConfigs, acl
    <2> QED
      BY <1>2, <2>1, <2>2 DEF Asked, Routers, AllParts
  <1> QED
    BY <1>4, <1>5, <1>6, <1>7 DEF Promise

LEMMA SinglePromise ==
    ASSUME router \in Routers, NEW c \in Calls, ~Declines(c), NEW read,
           c.part \in {"fan", "test", "flow", "stats", "power"}
    PROVE  Promise(c, read)
  <1>0. Done(c, router, Applied(c, read)) => Asked(c, read, router, Applied(c, read))
    BY DEF Asked, Done
  <1>1. CASE c.part = "fan"
    <2>1. Applied(c, read) = [router EXCEPT !.fan.temperature = c.temperature]
      BY <1>1 DEF Applied
    <2>2. c.temperature \in Temperatures \cap 70..90
      BY <1>1, CallTypes DEF Declines
    <2> QED
      BY <1>0, <1>1, <2>1, <2>2 DEF Promise, Done, Routers, AllParts, FanConfigs
  <1>2. CASE c.part = "test"
    <2>1. Applied(c, read) = [router EXCEPT !.test.test = TRUE]
      BY <1>2 DEF Applied
    <2> QED
      BY <1>0, <1>2, <2>1 DEF Promise, Done, Routers, AllParts, TestConfigs
  <1>3. CASE c.part = "flow"
    <2>1. Applied(c, read) = [router EXCEPT !.flow = FlowPayload(c)]
      BY <1>3 DEF Applied
    <2>2. FlowPayload(c) \in FlowConfigs
      BY <1>3, CallTypes DEF FlowPayload, FlowConfigs
    <2> QED
      BY <1>0, <1>3, <2>1, <2>2 DEF Promise, Done, FlowDone, FlowPayload, Routers, AllParts
  <1>4. CASE c.part = "stats"
    <2>1. Applied(c, read) = [router EXCEPT !.stats.collected = FALSE]
      BY <1>4 DEF Applied
    <2> QED
      BY <1>0, <1>4, <2>1 DEF Promise, Done, Routers, AllParts, StatsConfigs
  <1>5. CASE c.part = "power"
    <2>1. Applied(c, read) = [router EXCEPT !.power = [rebooting |-> TRUE]]
      <3>1. Applied(c, read) = [router EXCEPT !.power.rebooting = TRUE]
        BY <1>5 DEF Applied
      <3>2. router.power \in PowerConfigs
        BY DEF Routers
      <3> QED
        BY <3>1, <3>2 DEF PowerConfigs, Routers
    <2>2. Applied(c, read) \in Routers
      <3>1. [rebooting |-> TRUE] \in PowerConfigs
        BY DEF PowerConfigs
      <3> QED
        BY <2>1, <3>1 DEF Routers
    <2>3. Done(c, router, Applied(c, read))
      BY <1>5, <2>1 DEF Done, Routers, AllParts
    <2> QED
      BY <1>0, <2>2, <2>3 DEF Promise
  <1> QED
    BY <1>1, <1>2, <1>3, <1>4, <1>5

\* Every write keeps its promise.
LEMMA WritesKeepTheirPromise ==
    ASSUME router \in Routers, NEW w, WriteInv(w), Rejected(w.call) = "none"
    PROVE  /\ Applied(w.call, w.seen) \in Routers
           /\ Undisturbed(w) => Done(w.call, router, Applied(w.call, w.seen))
           /\ Asked(w.call, w.seen, router, Applied(w.call, w.seen))
  <1> DEFINE c == w.call
             v == [call |-> w.call, seen |-> w.seen]
  <1>1. c \in Calls /\ ~Declines(c)
    BY DEF WriteInv, IsWrite
  <1>2. WriteInv(v)
    BY DEF WriteInv, IsWrite
  <1>3. Promise(c, w.seen)
    BY <1>1, <1>2, CallTypes, LedPromise, WanPromise, DmzPromise, AccelPromise, WifiPromise,
       AclPromise, SinglePromise
    DEF AllParts
  <1> QED
    BY <1>3 DEF Promise, Undisturbed

-----------------------------------------------------------------------------
(* The inductive invariant. *)

\* Every write on its way, waited for or not, is one the router can carry out; and
\* a call that is alone has seen what is still there.
ConfigInv ==
    /\ TypeOK
    /\ \A w \in late : WriteInv(w)
    /\ \A t \in Tasks : pc[t] = "read" => call[t] \in Calls
    /\ \A t \in Tasks : pc[t] = "write" => WriteInv(Carried(t))
    /\ alone =>
          /\ late = {}
          /\ \A t, u \in Tasks : pc[t] # "idle" /\ pc[u] # "idle" => t = u
          /\ \A t \in Tasks : pc[t] = "write" => Undisturbed(Carried(t))

\* There is a configuration of each part.
LEMMA PartsExist ==
    ASSUME NEW part \in AllParts
    PROVE  Configs[part] # {}
  <1>1. [led_enable |-> TRUE, rest |-> TRUE] \in LedConfigs
    BY DEF LedConfigs
  <1>2. [k \in Toggles \cup {"rest"} |-> TRUE] \in WanConfigs
    BY DEF WanConfigs
  <1>3. [enabled |-> FALSE, dmz_ip |-> NoHost] \in DmzConfigs
    BY DEF DmzConfigs
  <1>4. [enable |-> TRUE, actype |-> DefaultActype, conflict |-> FALSE] \in AccelConfigs
    BY DEF AccelConfigs
  <1>5. [res |-> [name \in {} |-> TRUE]] \in WifiConfigs
    <2>1. [name \in {} |-> TRUE] \in [{} -> BOOLEAN] /\ {} \in SUBSET Ifaces
      OBVIOUS
    <2> QED
      BY <2>1 DEF WifiConfigs
  <1>6. [mode |-> "black", black |-> {}, white |-> {}] \in AclConfigs
    BY DEF AclConfigs
  <1>7. PICK temperature \in Temperatures \cap 70..90 : TRUE
    BY ConfigAssumption
  <1>8. [temperature |-> temperature] \in FanConfigs
    BY DEF FanConfigs
  <1>9. [test |-> TRUE] \in TestConfigs /\ [collected |-> TRUE] \in StatsConfigs
        /\ [rebooting |-> TRUE] \in PowerConfigs
    BY DEF TestConfigs, StatsConfigs, PowerConfigs
  <1>10. [enable |-> TRUE, type |-> "app", time |-> "day"] \in FlowConfigs
    BY DEF FlowConfigs
  <1> QED
    BY <1>1, <1>2, <1>3, <1>4, <1>5, <1>6, <1>8, <1>9, <1>10 DEF AllParts, Configs

LEMMA InitInv == Init => ConfigInv
  <1> SUFFICES ASSUME Init PROVE ConfigInv
    OBVIOUS
  <1>1. ASSUME NEW part \in AllParts PROVE Configured(part, inUse) \subseteq Configs[part]
    BY PartsExist DEF Configured
  <1>2. router \in Routers
    <2>1. router \in RoutersUsing(inUse)
      BY DEF Init
    <2>2. /\ router.led \in Configs["led"] /\ router.wan \in Configs["wan"]
          /\ router.dmz \in Configs["dmz"] /\ router.accel \in Configs["accel"]
          /\ router.wifi \in Configs["wifi"] /\ router.acl \in Configs["acl"]
          /\ router.fan \in Configs["fan"] /\ router.test \in Configs["test"]
          /\ router.flow \in Configs["flow"] /\ router.stats \in Configs["stats"]
          /\ router.power \in Configs["power"]
      BY <1>1, <2>1 DEF RoutersUsing, AllParts
    <2> QED
      BY <2>1, <2>2 DEF RoutersUsing, Routers, Configs
  <1>3. TypeOK
    BY <1>2 DEF Init, TypeOK
  <1> QED
    BY <1>3 DEF Init, ConfigInv

\* What each kind of step changes, and what the write of a task leaves to it.
LEMMA FinishInv ==
    ASSUME ConfigInv, NEW t \in Tasks, NEW end \in {"none", "done"} \cup Failures,
           Finish(t, end), router' \in Routers, UNCHANGED <<inUse, alone>>,
           late' = late \/ (pc[t] = "write" /\ late' = late \cup {Carried(t)}),
           alone => late' = {}, router' = router \/ pc[t] # "idle"
    PROVE  ConfigInv'
  <1> USE DEF ConfigInv, TypeOK, Finish
  <1>1. /\ pc'[t] = "idle" /\ call'[t] = NoCall /\ seen'[t] = NothingSeen
        /\ \A u \in Tasks \ {t} : pc'[u] = pc[u] /\ call'[u] = call[u] /\ seen'[u] = seen[u]
        /\ DOMAIN seen' = Tasks
    OBVIOUS
  <1>2. \A u \in Tasks \ {t} : Carried(u)' = Carried(u)
    BY <1>1 DEF Carried
  <1>3. TypeOK'
    <2>1. \A w \in late' : IsWrite(w)'
      BY DEF WriteInv, IsWrite
    <2>2. ASSUME NEW u \in Tasks
          PROVE  CASE pc'[u] = "idle" -> call'[u] = NoCall /\ seen'[u] = NothingSeen
                   [] pc'[u] = "read" -> Reads(call'[u]) /\ seen'[u] = NothingSeen
                   [] pc'[u] = "write" -> IsWrite(Carried(u)')
      BY <1>1, <1>2
    <2> QED
      BY <2>1, <2>2
  <1>4. /\ \A w \in late' : WriteInv(w)
        /\ \A u \in Tasks : pc'[u] = "write" => WriteInv(Carried(u)')
    BY <1>1, <1>2
  <1>5. alone' =>
          /\ late' = {}
          /\ \A v, u \in Tasks : pc'[v] # "idle" /\ pc'[u] # "idle" => v = u
          /\ \A u \in Tasks : pc'[u] = "write" => Undisturbed(Carried(u))'
    BY <1>1, <1>2 DEF Undisturbed
  <1> QED
    BY <1>3, <1>4, <1>5

\* A call that ends without having changed anything.
LEMMA GaveUpInv ==
    ASSUME ConfigInv, NEW t \in Tasks, NEW end \in Failures,
           Finish(t, end), UNCHANGED <<inUse, alone, router, late>>
    PROVE  ConfigInv'
  <1>1. router' \in Routers
    BY DEF ConfigInv, TypeOK
  <1>2. alone => late' = {}
    BY DEF ConfigInv
  <1>3. end \in {"none", "done"} \cup Failures
    OBVIOUS
  <1>4. router' = router /\ UNCHANGED <<inUse, alone>> /\ late' = late
    OBVIOUS
  <1> QED
    BY <1>1, <1>2, <1>3, <1>4, FinishInv

\* The router changes, and nothing else, while every call that is alone stays so.
LEMMA RouterInv ==
    ASSUME ConfigInv, router' \in Routers, UNCHANGED <<inUse, alone, taskVars>>,
           late' \subseteq late,
           alone => \A part \in AllParts \ {"test", "stats", "power"} :
                        router'[part] = router[part]
    PROVE  ConfigInv'
  <1> USE DEF ConfigInv, taskVars
  <1>1. \A t \in Tasks : Carried(t)' = Carried(t)
    BY DEF Carried
  <1>2. TypeOK'
    <2>1. \A w \in late' : IsWrite(w)
      BY DEF WriteInv
    <2>2. /\ inUse' \in Groups /\ alone' \in BOOLEAN /\ router' \in Routers
          /\ call' \in [Tasks -> Calls \cup {NoCall}]
          /\ pc' \in [Tasks -> {"idle", "read", "write"}]
          /\ DOMAIN seen' = Tasks
          /\ out' \in [Tasks -> {"none", "done"} \cup Failures]
      BY DEF TypeOK
    <2>3. /\ TypeOK /\ pc' = pc /\ call' = call /\ seen' = seen
      OBVIOUS
    <2>4. \A t \in Tasks :
             CASE pc'[t] = "idle" -> call'[t] = NoCall /\ seen'[t] = NothingSeen
               [] pc'[t] = "read" -> Reads(call'[t]) /\ seen'[t] = NothingSeen
               [] pc'[t] = "write" -> IsWrite(Carried(t)')
      <3> HIDE DEF ConfigInv
      <3> QED
        BY <1>1, <2>3 DEF TypeOK
    <2> HIDE DEF ConfigInv
    <2> QED
      BY <2>1, <2>2, <2>4 DEF TypeOK
  <1>3. ASSUME alone, NEW t \in Tasks, pc[t] = "write" PROVE Undisturbed(Carried(t))'
    <2>1. Carried(t).call \in Calls /\ Undisturbed(Carried(t))
      BY <1>3 DEF WriteInv, IsWrite
    <2>2. Undisturbed(Carried(t)) /\ router \in Routers
      BY <1>3 DEF TypeOK
    <2>3. Carried(t)' = Carried(t)
      BY <1>1
    <2> DEFINE w == Carried(t)
    <2>4. /\ Reads(w.call) => w.call.part \in AllParts \ {"test", "stats", "power"}
          /\ Reads(w.call) => w.seen = Kept(w.call, router[w.call.part])
      BY <2>2 DEF Reads, AllParts, Undisturbed
    <2>5. Reads(w.call) => w.seen = Kept(w.call, router'[w.call.part])
      BY <1>3, <2>4
    <2> QED
      BY <2>3, <2>5 DEF Undisturbed
  <1> QED
    BY <1>1, <1>2, <1>3

LEMMA BeginInv ==
    ASSUME ConfigInv, NEW t \in Tasks, NEW c \in Calls, Begin(t, c)
    PROVE  ConfigInv'
  <1>0. /\ TypeOK /\ router \in Routers
        /\ alone => late = {}
        /\ \A w \in late : WriteInv(w)
        /\ \A u \in Tasks : pc[u] = "read" => call[u] \in Calls
        /\ \A u \in Tasks : pc[u] = "write" => WriteInv(Carried(u))
        /\ alone => \A v, u \in Tasks : pc[v] # "idle" /\ pc[u] # "idle" => v = u
        /\ alone => \A u \in Tasks : pc[u] = "write" => Undisturbed(Carried(u))
        /\ pc \in [Tasks -> {"idle", "read", "write"}] /\ call \in [Tasks -> Calls \cup {NoCall}]
        /\ \A u \in Tasks :
              CASE pc[u] = "idle" -> call[u] = NoCall /\ seen[u] = NothingSeen
                [] pc[u] = "read" -> Reads(call[u]) /\ seen[u] = NothingSeen
                [] pc[u] = "write" -> IsWrite(Carried(u))
    BY DEF ConfigInv, TypeOK
  <1>1. CASE Declines(c)
    <2>1. Finish(t, "ValueError") /\ UNCHANGED <<inUse, alone, router, late>>
      BY <1>1 DEF Begin
    <2> QED
      BY <2>1, GaveUpInv DEF Failures, Refusals
  <1>2. CASE ~Declines(c)
    <2>1. /\ pc[t] = "idle"
          /\ alone => Quiescent
          /\ call' = [call EXCEPT ![t] = c]
          /\ pc' = [pc EXCEPT ![t] = IF Reads(c) THEN "read" ELSE "write"]
          /\ out' = [out EXCEPT ![t] = "none"]
          /\ UNCHANGED <<inUse, alone, router, late, seen>>
      BY <1>2 DEF Begin
    <2>2. /\ call'[t] = c /\ pc'[t] = (IF Reads(c) THEN "read" ELSE "write")
          /\ seen'[t] = NothingSeen
          /\ \A u \in Tasks \ {t} : pc'[u] = pc[u] /\ call'[u] = call[u] /\ seen'[u] = seen[u]
      BY <1>0, <2>1 DEF TypeOK
    <2>3. \A u \in Tasks \ {t} : Carried(u)' = Carried(u)
      BY <2>2 DEF Carried
    <2>4. pc'[t] = "write" => WriteInv(Carried(t)') /\ ~Reads(c)
      BY <1>2, <2>2 DEF WriteInv, IsWrite, Carried
    <2>5. TypeOK'
      <3>1. ASSUME NEW u \in Tasks
            PROVE  CASE pc'[u] = "idle" -> call'[u] = NoCall /\ seen'[u] = NothingSeen
                     [] pc'[u] = "read" -> Reads(call'[u]) /\ seen'[u] = NothingSeen
                     [] pc'[u] = "write" -> IsWrite(Carried(u)')
        BY <1>0, <2>2, <2>3, <2>4 DEF WriteInv
      <3> QED
        BY <1>0, <2>1, <3>1 DEF TypeOK
    <2>6. \A u \in Tasks : pc'[u] = "write" => WriteInv(Carried(u)')
      BY <1>0, <2>2, <2>3, <2>4
    <2>7. alone' =>
            /\ \A v, u \in Tasks : pc'[v] # "idle" /\ pc'[u] # "idle" => v = u
            /\ \A u \in Tasks : pc'[u] = "write" => Undisturbed(Carried(u))'
      BY <1>0, <2>1, <2>2, <2>4 DEF Quiescent, Undisturbed, Carried
    <2> QED
      <3>1. \A u \in Tasks : pc'[u] = "read" => call'[u] \in Calls
        BY <1>0, <2>2
      <3> QED
        BY <1>0, <2>1, <2>5, <2>6, <2>7, <3>1 DEF ConfigInv, WriteInv, IsWrite
  <1> QED
    BY <1>1, <1>2

LEMMA ReadInv ==
    ASSUME ConfigInv, NEW t \in Tasks, Read(t)
    PROVE  ConfigInv'
  <1>0. /\ TypeOK /\ router \in Routers
        /\ alone => late = {}
        /\ \A w \in late : WriteInv(w)
        /\ \A u \in Tasks : pc[u] = "read" => call[u] \in Calls
        /\ \A u \in Tasks : pc[u] = "write" => WriteInv(Carried(u))
        /\ alone => \A v, u \in Tasks : pc[v] # "idle" /\ pc[u] # "idle" => v = u
        /\ alone => \A u \in Tasks : pc[u] = "write" => Undisturbed(Carried(u))
        /\ pc \in [Tasks -> {"idle", "read", "write"}] /\ call \in [Tasks -> Calls \cup {NoCall}]
        /\ \A u \in Tasks :
              CASE pc[u] = "idle" -> call[u] = NoCall /\ seen[u] = NothingSeen
                [] pc[u] = "read" -> Reads(call[u]) /\ seen[u] = NothingSeen
                [] pc[u] = "write" -> IsWrite(Carried(u))
    BY DEF ConfigInv, TypeOK
  <1> DEFINE read == router[call[t].part]
  <1>1. CASE Refused(call[t], read) # "none"
    <2>1. Finish(t, Refused(call[t], read)) /\ UNCHANGED <<inUse, alone, router, late>>
      BY <1>1 DEF Read
    <2>2. Refused(call[t], read) \in Failures
      BY <1>1 DEF Refused, Failures, Refusals
    <2> QED
      BY <2>1, <2>2, GaveUpInv
  <1>2. CASE Refused(call[t], read) = "none"
    <2>1. /\ pc[t] = "read"
          /\ seen' = [seen EXCEPT ![t] = Kept(call[t], read)]
          /\ pc' = [pc EXCEPT ![t] = "write"]
          /\ UNCHANGED <<call, out, inUse, alone, router, late>>
      BY <1>2 DEF Read
    <2>2. /\ call'[t] = call[t] /\ pc'[t] = "write" /\ seen'[t] = Kept(call[t], read)
          /\ \A u \in Tasks \ {t} : pc'[u] = pc[u] /\ call'[u] = call[u] /\ seen'[u] = seen[u]
      BY <1>0, <2>1 DEF TypeOK
    <2>3. \A u \in Tasks \ {t} : Carried(u)' = Carried(u)
      BY <2>2 DEF Carried
    <2>4. Reads(call[t]) /\ call[t] \in Calls
      BY <1>0, <2>1
    <2>5. read \in Configs[call[t].part]
      BY <1>0, <2>4 DEF Reads, Routers, Configs
    <2>6. WriteInv(Carried(t)') /\ Undisturbed(Carried(t))'
      <3>1. Carried(t)' = [call |-> call[t], seen |-> Kept(call[t], read)]
        BY <2>2 DEF Carried
      <3>2. ~Declines(call[t])
        BY <2>4, ConfigAssumption DEF Reads, Declines, NamesNoTarget
      <3>3. call[t].part = "dmz" => Kept(call[t], read).dmz_ip # NoHost
        BY <1>2 DEF Kept, Refused
      <3> QED
        BY <1>0, <2>1, <2>4, <2>5, <3>1, <3>2, <3>3 DEF WriteInv, IsWrite, Undisturbed
    <2>7. TypeOK'
      <3>1. ASSUME NEW u \in Tasks
            PROVE  CASE pc'[u] = "idle" -> call'[u] = NoCall /\ seen'[u] = NothingSeen
                     [] pc'[u] = "read" -> Reads(call'[u]) /\ seen'[u] = NothingSeen
                     [] pc'[u] = "write" -> IsWrite(Carried(u)')
        BY <1>0, <2>2, <2>3, <2>6 DEF WriteInv
      <3> QED
        BY <1>0, <2>1, <3>1 DEF TypeOK
    <2>8. alone' =>
            /\ \A v, u \in Tasks : pc'[v] # "idle" /\ pc'[u] # "idle" => v = u
            /\ \A u \in Tasks : pc'[u] = "write" => Undisturbed(Carried(u))'
      BY <1>0, <2>1, <2>2, <2>3, <2>6
    <2> QED
      <3>1. \A u \in Tasks : pc'[u] = "write" => WriteInv(Carried(u)')
        BY <1>0, <2>2, <2>3, <2>6
      <3>2. \A u \in Tasks : pc'[u] = "read" => call'[u] \in Calls
        BY <1>0, <2>2
      <3> QED
        BY <1>0, <2>1, <2>7, <2>8, <3>1, <3>2 DEF ConfigInv, WriteInv, IsWrite
  <1> QED
    BY <1>1, <1>2

\* A write that is carried out leaves a configuration the router can have.
LEMMA CarriedOut ==
    ASSUME ConfigInv, NEW t \in Tasks, pc[t] = "write", Rejected(call[t]) = "none"
    PROVE  /\ Applied(call[t], seen[t]) \in Routers
           /\ Undisturbed(Carried(t)) => Done(call[t], router, Applied(call[t], seen[t]))
           /\ Asked(call[t], seen[t], router, Applied(call[t], seen[t]))
           /\ call[t] \in Calls
  <1>1. Carried(t).call = call[t] /\ Carried(t).seen = seen[t]
    BY DEF Carried
  <1>2. WriteInv(Carried(t)) /\ router \in Routers /\ call[t] \in Calls
    BY <1>1 DEF ConfigInv, TypeOK, WriteInv, IsWrite
  <1> QED
    BY <1>1, <1>2, WritesKeepTheirPromise

LEMMA StepInv ==
    ASSUME ConfigInv, [Next]_vars
    PROVE  ConfigInv'
  <1>0. /\ router \in Routers /\ inUse \subseteq AllParts
        /\ alone => late = {}
    BY ConfigAssumption DEF ConfigInv, TypeOK
  <1>1. ASSUME NEW t \in Tasks, Write(t) PROVE ConfigInv'
    <2>1. CASE Rejected(call[t]) # "none"
      <3>1. Finish(t, Rejected(call[t])) /\ UNCHANGED <<router, inUse, alone, late>>
        BY <1>1, <2>1 DEF Write
      <3>2. Rejected(call[t]) \in Failures
        BY <2>1 DEF Rejected, Failures, Refusals
      <3> QED
        BY <3>1, <3>2, GaveUpInv
    <2>2. CASE Rejected(call[t]) = "none"
      <3>1. /\ pc[t] = "write" /\ router' = Applied(call[t], seen[t])
            /\ Finish(t, "done") /\ UNCHANGED <<inUse, alone>> /\ late' = late
        BY <1>1, <2>2 DEF Write
      <3>2. router' \in Routers /\ pc[t] # "idle"
        BY <2>2, <3>1, CarriedOut
      <3>3. alone => late' = {}
        BY <1>0, <3>1
      <3> QED
        BY <3>1, <3>2, <3>3, FinishInv
    <2> QED
      BY <2>1, <2>2
  <1>2. ASSUME NEW t \in Tasks, RequestLost(t) PROVE ConfigInv'
    BY <1>2, GaveUpInv DEF RequestLost, Failures, Refusals
  <1>3. ASSUME NEW t \in Tasks, ReplyLost(t) PROVE ConfigInv'
    <2>1. /\ pc[t] = "write" /\ router' = Applied(call[t], seen[t])
          /\ Rejected(call[t]) = "none"
          /\ Finish(t, "RequestFailed") /\ UNCHANGED <<inUse, alone>> /\ late' = late
      BY <1>3 DEF ReplyLost
    <2>2. router' \in Routers /\ pc[t] # "idle" /\ "RequestFailed" \in Failures
      BY <2>1, CarriedOut DEF Failures, Refusals
    <2>3. alone => late' = {}
      BY <1>0, <2>1
    <2> QED
      BY <2>1, <2>2, <2>3, FinishInv
  <1>4. ASSUME NEW t \in Tasks, TimesOut(t) PROVE ConfigInv'
    BY <1>0, <1>4, FinishInv DEF TimesOut, Failures, Refusals
  <1>5. ASSUME NEW w \in late, Lands(w) PROVE ConfigInv'
    <2>1. ~alone /\ WriteInv(w)
      BY <1>5 DEF ConfigInv
    <2>2. router' \in Routers
      BY <1>0, <1>5, <2>1, WritesKeepTheirPromise DEF Lands
    <2> QED
      BY <1>5, <2>1, <2>2, RouterInv DEF Lands
  <1>6. CASE Reboots
    <2>1. /\ router' \in Routers
          /\ \A part \in AllParts \ {"test", "stats", "power"} : router'[part] = router[part]
      BY <1>0, <1>6 DEF Reboots, Routers, TestConfigs, PowerConfigs, AllParts
    <2> QED
      BY <1>6, <2>1, RouterInv DEF Reboots
  <1>7. CASE Settles
    <2>1. /\ router' \in Routers
          /\ \A part \in AllParts \ {"test", "stats", "power"} : router'[part] = router[part]
      <3>1. CASE router' = [router EXCEPT !.test.test = FALSE]
        BY <1>0, <3>1 DEF Routers, TestConfigs, AllParts
      <3>2. CASE router' = [router EXCEPT !.stats.collected = TRUE]
        BY <1>0, <3>2 DEF Routers, StatsConfigs, AllParts
      <3> QED
        BY <1>7, <3>1, <3>2 DEF Settles
    <2> QED
      BY <1>7, <2>1, RouterInv DEF Settles
  <1>8. CASE Elsewhere
    <2>1. PICK part \in AllParts : \E config \in Configs[part] :
             router' = [router EXCEPT ![part] = config]
      BY <1>0, <1>8 DEF Elsewhere
    <2>2. PICK config \in Configs[part] : router' = [router EXCEPT ![part] = config]
      BY <2>1
    <2>3. router' \in Routers
      BY <1>0, <2>2 DEF AllParts, Configs, Routers
    <2> QED
      BY <1>8, <2>3, RouterInv DEF Elsewhere
  <1>9. CASE UNCHANGED vars
    BY <1>0, <1>9, RouterInv DEF vars
  <1> QED
    BY <1>1, <1>2, <1>3, <1>4, <1>5, <1>6, <1>7, <1>8, <1>9, BeginInv, ReadInv DEF Next

-----------------------------------------------------------------------------
(* The properties. *)

\* Types: the router never has an enabled DMZ without a target or a threshold out
\* of range, and what is on its way to it would not give it one.
THEOREM TypeCorrect == Spec => []TypeOK
  <1>1. ConfigInv => TypeOK
    BY DEF ConfigInv
  <1> QED
    BY InitInv, StepInv, <1>1, PTL DEF Spec

\* The abstract specification has the same routers and calls, and the same promise.
LEMMA SameSettings == Atomic!Routers = Routers /\ Atomic!Calls = Calls
  <1>1. Atomic!Routers = Routers
    BY DEF Atomic!Routers, Routers, Atomic!LedConfigs, LedConfigs, Atomic!WanConfigs, WanConfigs,
           Atomic!DmzConfigs, DmzConfigs, Atomic!AccelConfigs, AccelConfigs,
           Atomic!WifiConfigs, WifiConfigs, Atomic!AclConfigs, AclConfigs,
           Atomic!FanConfigs, FanConfigs, Atomic!TestConfigs, TestConfigs,
           Atomic!FlowConfigs, FlowConfigs, Atomic!StatsConfigs, StatsConfigs,
           Atomic!PowerConfigs, PowerConfigs
  <1>2. Atomic!Calls = Calls
    BY DEF Atomic!Calls, Calls
  <1> QED
    BY <1>1, <1>2

LEMMA SamePromise ==
    ASSUME NEW c, NEW old, NEW new, Done(c, old, new)
    PROVE  Atomic!Done(c, old, new)
  BY DEF Atomic!Done, Done, Atomic!AllParts, AllParts, Atomic!LedDone, LedDone,
         Atomic!WanDone, WanDone, Atomic!DmzDone, DmzDone, Atomic!AccelDone, AccelDone,
         Atomic!WifiDone, WifiDone, Atomic!AclDone, AclDone, Atomic!Denied, Denied,
         Atomic!FlowDone, FlowDone

\* Whether a task is in a call, as the abstract specification sees it.
LEMMA InACall ==
    ASSUME ConfigInv, NEW t \in Tasks
    PROVE  /\ pc[t] = "idle" => call[t] = NoCall
           /\ pc[t] # "idle" => call[t] \in Calls /\ call[t] # NoCall
           /\ pc[t] \in {"idle", "read", "write"}
           /\ call = [u \in Tasks |-> call[u]]
  <1>1. /\ pc[t] \in {"idle", "read", "write"} /\ call = [u \in Tasks |-> call[u]]
        /\ pc[t] = "idle" => call[t] = NoCall
    BY DEF ConfigInv, TypeOK
  <1>2. pc[t] \in {"read", "write"} => call[t] \in Calls
    BY DEF ConfigInv, WriteInv, IsWrite, Carried
  <1> QED
    BY <1>1, <1>2, ConfigAssumption

\* The end of a call is one of the abstract specification.
LEMMA Ends ==
    ASSUME ConfigInv, NEW t \in Tasks, NEW end, Finish(t, end), pc[t] # "idle"
    PROVE  Atomic!End(t, end)
  BY InACall DEF Finish, Atomic!End

\* A write that is carried out does what was asked unless others have been at the
\* same configuration, and stays within its part even then.
LEMMA CarriesOut ==
    ASSUME ConfigInv, NEW t \in Tasks, pc[t] = "write", Rejected(call[t]) = "none",
           router' = Applied(call[t], seen[t])
    PROVE  Atomic!CarryOut(call[t])
  <1>1. Undisturbed(Carried(t)) => Done(call[t], router, router')
    BY CarriedOut
  <1>2. alone => Undisturbed(Carried(t))
    BY DEF ConfigInv
  <1>3. \A part \in AllParts \ {call[t].part} : router'[part] = router[part]
    BY CarriedOut DEF Asked
  <1>4. Atomic!AllParts = AllParts
    BY DEF Atomic!AllParts, AllParts
  <1> QED
    BY <1>1, <1>2, <1>3, <1>4, SamePromise DEF Atomic!CarryOut

\* With one call at a time every setter is atomic: it does what it was asked at the
\* moment it returns; if its request is lost it has done that or nothing, and if it
\* is refused nothing.  Among others it changes its part of the configuration only.
THEOREM SettersAreAtomic == Spec => AtomicSpec
  <1>1. Init => Atomic!Init
    <2> SUFFICES ASSUME Init PROVE Atomic!Init
      OBVIOUS
    <2>1. router \in Routers
      BY InitInv DEF ConfigInv, TypeOK
    <2> QED
      BY <2>1, SameSettings DEF Init, Atomic!Init
  <1>2. ASSUME ConfigInv, ConfigInv', [Next]_vars
        PROVE  [Atomic!Next]_<<router, ~alone, call, out>>
    <2>0. alone' = alone
      BY <1>2
      DEF Next, Begin, Read, Write, RequestLost, ReplyLost, TimesOut, Lands, Reboots, Settles,
          Elsewhere, vars
    <2>1. ASSUME NEW t \in Tasks, NEW c \in Calls, Begin(t, c)
          PROVE  Atomic!Decline(t) \/ Atomic!Begin(t, c)
      <3>1. pc[t] = "idle" /\ call[t] = NoCall /\ router' = router
        BY <1>2, <2>1, InACall DEF Begin
      <3>2. CASE Declines(c)
        <4>1. out' = [out EXCEPT ![t] = "ValueError"] /\ call' = [call EXCEPT ![t] = NoCall]
          BY <2>1, <3>2 DEF Begin, Finish
        <4>2. call' = call
          BY <1>2, <3>1, <4>1, InACall
        <4> QED
          BY <3>1, <4>1, <4>2 DEF Atomic!Decline
      <3>3. CASE ~Declines(c)
        BY <2>1, <3>1, <3>3 DEF Begin, Atomic!Begin
      <3> QED
        BY <3>2, <3>3
    <2>2. ASSUME NEW t \in Tasks, Read(t)
          PROVE  Atomic!Refuse(t) \/ UNCHANGED <<router, alone, call, out>>
      <3>1. CASE Refused(call[t], router[call[t].part]) # "none"
        <4>1. Refused(call[t], router[call[t].part]) \in Atomic!Refusals
          BY <3>1 DEF Refused, Atomic!Refusals
        <4>2. /\ Finish(t, Refused(call[t], router[call[t].part])) /\ pc[t] # "idle"
              /\ router' = router
          BY <2>2, <3>1 DEF Read
        <4> QED
          BY <1>2, <4>1, <4>2, Ends DEF Atomic!Refuse
      <3>2. CASE Refused(call[t], router[call[t].part]) = "none"
        BY <2>2, <3>2 DEF Read
      <3> QED
        BY <3>1, <3>2
    <2>3. ASSUME NEW t \in Tasks, Write(t) PROVE Atomic!Refuse(t) \/ Atomic!Succeed(t)
      <3>1. CASE Rejected(call[t]) # "none"
        <4>1. Rejected(call[t]) \in Atomic!Refusals
          BY <3>1 DEF Rejected, Atomic!Refusals
        <4>2. Finish(t, Rejected(call[t])) /\ pc[t] # "idle" /\ router' = router
          BY <2>3, <3>1 DEF Write
        <4> QED
          BY <1>2, <4>1, <4>2, Ends DEF Atomic!Refuse
      <3>2. CASE Rejected(call[t]) = "none"
        <4>1. /\ pc[t] = "write" /\ router' = Applied(call[t], seen[t])
              /\ Finish(t, "done")
          BY <2>3, <3>2 DEF Write
        <4>2. Atomic!End(t, "done")
          BY <1>2, <4>1, Ends
        <4> QED
          BY <1>2, <3>2, <4>1, <4>2, CarriesOut DEF Atomic!Succeed
      <3> QED
        BY <3>1, <3>2
    <2>4. ASSUME NEW t \in Tasks, RequestLost(t) \/ TimesOut(t) PROVE Atomic!Fail(t)
      <3>1. Finish(t, "RequestFailed") /\ pc[t] # "idle" /\ router' = router
        BY <2>4 DEF RequestLost, TimesOut
      <3> QED
        BY <1>2, <3>1, Ends DEF Atomic!Fail
    <2>5. ASSUME NEW t \in Tasks, ReplyLost(t) PROVE Atomic!Fail(t)
      <3>1. /\ pc[t] = "write" /\ Rejected(call[t]) = "none"
            /\ router' = Applied(call[t], seen[t]) /\ Finish(t, "RequestFailed")
        BY <2>5 DEF ReplyLost
      <3>2. Atomic!End(t, "RequestFailed")
        BY <1>2, <3>1, Ends
      <3> QED
        BY <1>2, <3>1, <3>2, CarriesOut DEF Atomic!Fail
    <2>6. ASSUME (\E w \in late : Lands(w)) \/ Reboots \/ Settles \/ Elsewhere
          PROVE  Atomic!Otherwise
      <3>1. call' = call /\ out' = out
        BY <2>6 DEF Lands, Reboots, Settles, Elsewhere, taskVars
      <3>2. CASE Reboots \/ Settles
        <4>1. Atomic!Settles(router, router')
          BY <3>2 DEF Reboots, Settles, Atomic!Settles
        <4> QED
          BY <3>1, <4>1 DEF Atomic!Otherwise
      <3>3. CASE (\E w \in late : Lands(w)) \/ Elsewhere
        <4>1. ~alone
          BY <1>2, <3>3 DEF Elsewhere, ConfigInv
        <4>2. router' \in Atomic!Routers
          BY <1>2, SameSettings DEF ConfigInv, TypeOK
        <4> QED
          BY <3>1, <4>1, <4>2 DEF Atomic!Otherwise
      <3> QED
        BY <2>6, <3>2, <3>3
    <2>7. UNCHANGED vars => UNCHANGED <<router, alone, call, out>>
      BY DEF vars, taskVars
    <2>8. \/ UNCHANGED <<router, alone, call, out>>
          \/ Atomic!Otherwise
          \/ \E t \in Tasks :
                \/ Atomic!Decline(t) \/ Atomic!Succeed(t) \/ Atomic!Fail(t) \/ Atomic!Refuse(t)
                \/ \E c \in Calls : Atomic!Begin(t, c)
      BY <1>2, <2>1, <2>2, <2>3, <2>4, <2>5, <2>6, <2>7 DEF Next
    <2> QED
      BY <2>0, <2>8, SameSettings DEF Atomic!Next
  <1> QED
    BY InitInv, StepInv, <1>1, <1>2, PTL DEF Spec, AtomicSpec, Atomic!Spec

\* A call that ends in "done", or with the router changed, has just written.
LEMMA WritesAreApplied ==
    ASSUME ConfigInv, [Next]_vars, NEW t \in Tasks, pc[t] = "write", pc'[t] = "idle",
           out'[t] = "done" \/ router' # router
    PROVE  Rejected(call[t]) = "none" /\ router' = Applied(call[t], seen[t])
  <1>1. ASSUME NEW u \in Tasks, u # t, NEW end, Finish(u, end)
        PROVE  pc'[t] = pc[t]
    BY <1>1 DEF Finish, ConfigInv, TypeOK
  <1>2. ASSUME NEW u \in Tasks,
               (\E c \in Calls : Begin(u, c)) \/ Read(u) \/ Write(u) \/ RequestLost(u)
               \/ ReplyLost(u) \/ TimesOut(u)
        PROVE  u = t
    BY <1>1, <1>2
    DEF Begin, Read, Write, RequestLost, ReplyLost, TimesOut, ConfigInv, TypeOK
  <1>3. Write(t) \/ RequestLost(t) \/ ReplyLost(t) \/ TimesOut(t)
    BY <1>2 DEF Next, Begin, Read, Lands, Reboots, Settles, Elsewhere, taskVars, vars
  <1>4. CASE Write(t)
    BY <1>4 DEF Write, Finish, Rejected, ConfigInv, TypeOK
  <1>5. CASE ReplyLost(t)
    BY <1>5 DEF ReplyLost
  <1>6. CASE RequestLost(t) \/ TimesOut(t)
    BY <1>6 DEF RequestLost, TimesOut, Finish, ConfigInv, TypeOK
  <1> QED
    BY <1>3, <1>4, <1>5, <1>6

\* A write that lands late and changes the router is one it can carry out.
LEMMA LateWritesAreApplied ==
    ASSUME ConfigInv, NEW w \in late, Lands(w), router' # router
    PROVE  /\ Rejected(w.call) = "none" /\ router' = Applied(w.call, w.seen)
           /\ WriteInv(w) /\ router \in Routers
  BY DEF Lands, ConfigInv, TypeOK

\* However calls, other clients and late writes interleave, a write that was not
\* disturbed does what its caller asked and nothing else.
THEOREM UndisturbedWritesDo == Spec => UndisturbedWritesKeepTheirPromise
  <1>1. ASSUME ConfigInv, [Next]_vars
        PROVE  /\ \A t \in Tasks :
                     /\ pc[t] = "write" /\ pc'[t] = "idle"
                     /\ out'[t] = "done" \/ router' # router
                     /\ Undisturbed(Carried(t))
                     => Done(call[t], router, router')
               /\ \A w \in late :
                     Lands(w) /\ router' # router /\ Undisturbed(w)
                     => Done(w.call, router, router')
    <2>1. ASSUME NEW t \in Tasks, pc[t] = "write", pc'[t] = "idle",
                 out'[t] = "done" \/ router' # router, Undisturbed(Carried(t))
          PROVE  Done(call[t], router, router')
      BY <1>1, <2>1, WritesAreApplied, CarriedOut
    <2>2. ASSUME NEW w \in late, Lands(w), router' # router, Undisturbed(w)
          PROVE  Done(w.call, router, router')
      BY <1>1, <2>2, LateWritesAreApplied, WritesKeepTheirPromise
    <2> QED
      BY <2>1, <2>2
  <1>2. ConfigInv /\ [Next]_vars =>
          [/\ \A t \in Tasks :
                 /\ pc[t] = "write" /\ pc'[t] = "idle"
                 /\ out'[t] = "done" \/ router' # router
                 /\ Undisturbed(Carried(t))
                 => Done(call[t], router, router')
           /\ \A w \in late :
                 Lands(w) /\ router' # router /\ Undisturbed(w)
                 => Done(w.call, router, router')]_vars
    BY <1>1
  <1> QED
    BY InitInv, StepInv, <1>2, PTL DEF Spec, UndisturbedWritesKeepTheirPromise

\* Whatever has changed under a route between its read and its write, and however
\* late the write lands, it does what was asked for and stays within its part.
DisturbedWritesDoWhatWasAsked ==
    [][/\ \A t \in Tasks :
             /\ pc[t] = "write" /\ pc'[t] = "idle"
             /\ out'[t] = "done" \/ router' # router
             => Asked(call[t], seen[t], router, router')
       /\ \A w \in late :
             Lands(w) /\ router' # router => Asked(w.call, w.seen, router, router')]_vars

\* The worst that an interleaving of any calls, other clients and late writes can do
\* to a read-modify-write (services.py:110, 206, firewall.py:66, 91, clients.py:50):
\* a member nobody asked about falls back to what it was when it was read, or a
\* client is entered in the list of a mode that is not the present one any more.
THEOREM HarmIsConfined == Spec => DisturbedWritesDoWhatWasAsked
  <1>1. ASSUME ConfigInv, [Next]_vars
        PROVE  /\ \A t \in Tasks :
                     /\ pc[t] = "write" /\ pc'[t] = "idle"
                     /\ out'[t] = "done" \/ router' # router
                     => Asked(call[t], seen[t], router, router')
               /\ \A w \in late :
                     Lands(w) /\ router' # router
                     => Asked(w.call, w.seen, router, router')
    <2>1. ASSUME NEW t \in Tasks, pc[t] = "write", pc'[t] = "idle",
                 out'[t] = "done" \/ router' # router
          PROVE  Asked(call[t], seen[t], router, router')
      BY <1>1, <2>1, WritesAreApplied, CarriedOut
    <2>2. ASSUME NEW w \in late, Lands(w), router' # router
          PROVE  Asked(w.call, w.seen, router, router')
      BY <1>1, <2>2, LateWritesAreApplied, WritesKeepTheirPromise
    <2> QED
      BY <2>1, <2>2
  <1>2. ConfigInv /\ [Next]_vars =>
          [/\ \A t \in Tasks :
                 /\ pc[t] = "write" /\ pc'[t] = "idle"
                 /\ out'[t] = "done" \/ router' # router
                 => Asked(call[t], seen[t], router, router')
           /\ \A w \in late :
                 Lands(w) /\ router' # router
                 => Asked(w.call, w.seen, router, router')]_vars
    BY <1>1
  <1> QED
    BY InitInv, StepInv, <1>2, PTL DEF Spec, DisturbedWritesDoWhatWasAsked

\* What a route or the router refuses could not have been done.
LEMMA RefusedIsImpossible ==
    ASSUME router \in Routers, NEW c \in Calls, ~NamesNoTarget(c),
           \/ Declines(c)
           \/ Reads(c) /\ Refused(c, router[c.part]) # "none"
           \/ Rejected(c) # "none"
    PROVE  ~Possible(c)
  <1> SUFFICES ASSUME NEW config \in Configs[c.part],
                      Done(c, router, [router EXCEPT ![c.part] = config])
               PROVE  FALSE
    BY DEF Possible
  <1>1. c.part \in {"fan", "dmz", "wifi", "accel"}
    BY DEF Declines, Refused, Rejected
  <1>2. CASE c.part = "fan"
    BY <1>2 DEF Declines, Refused, Rejected, Done
  <1>3. CASE c.part = "dmz"
    <2>1. router.dmz.dmz_ip = NoHost /\ c.enabled /\ c.dest_ip = NoHost
      BY <1>3 DEF Declines, Refused, Rejected, Reads
    <2>2. DmzDone(c, router.dmz, config)
      BY <1>3 DEF Done, Routers
    <2> QED
      BY <2>1, <2>2, ConfigAssumption DEF DmzDone
  <1>4. CASE c.part = "wifi"
    BY <1>4 DEF Declines, Refused, Rejected, Done, WifiDone
  <1>5. CASE c.part = "accel"
    BY <1>5 DEF Declines, Refused, Rejected, Done, AccelDone
  <1> QED
    BY <1>1, <1>2, <1>3, <1>4, <1>5

\* An exception other than for a lost request never stands for a change that was
\* possible, but for a DMZ to be enabled with "" for a target (firewall.py:65-71).
THEOREM RefusalsJustified == Spec => RefusalsAreJustified
  <1>1. ASSUME ConfigInv, [Next]_vars, NEW t \in Tasks
        PROVE  /\ /\ pc[t] # "idle" /\ pc'[t] = "idle"
                  /\ out'[t] \in Failures \ {"RequestFailed"}
                  => ~Possible(call[t]) /\ router' = router
               /\ pc[t] = "idle" /\ pc'[t] = "idle" /\ out'[t] = "ValueError"
                  => \A c \in Calls : Begin(t, c) => NamesNoTarget(c) \/ ~Possible(c)
    <2>0. router \in Routers /\ pc \in [Tasks -> {"idle", "read", "write"}]
          /\ out \in [Tasks -> {"none", "done"} \cup Failures]
      BY <1>1 DEF ConfigInv, TypeOK
    <2>1. ASSUME pc[t] # "idle", pc'[t] = "idle", out'[t] \in Failures \ {"RequestFailed"}
          PROVE  ~Possible(call[t]) /\ router' = router
      <3>1. ASSUME NEW u \in Tasks, u # t, NEW end, Finish(u, end)
            PROVE  pc'[t] = pc[t]
        BY <2>0, <3>1 DEF Finish
      <3>2. ASSUME NEW u \in Tasks,
                   (\E c \in Calls : Begin(u, c)) \/ Read(u) \/ Write(u) \/ RequestLost(u)
                   \/ ReplyLost(u) \/ TimesOut(u)
            PROVE  u = t
        BY <2>0, <2>1, <3>1, <3>2
        DEF Begin, Read, Write, RequestLost, ReplyLost, TimesOut
      <3>3. Read(t) \/ Write(t) \/ RequestLost(t) \/ ReplyLost(t) \/ TimesOut(t)
        BY <1>1, <2>1, <3>2
        DEF Next, Begin, Lands, Reboots, Settles, Elsewhere, taskVars, vars
      <3>4. CASE Read(t)
        <4>1. Refused(call[t], router[call[t].part]) # "none" /\ router' = router
          BY <2>0, <2>1, <3>4 DEF Read
        <4>2. pc[t] = "read" /\ Reads(call[t]) /\ call[t] \in Calls /\ ~NamesNoTarget(call[t])
          BY <1>1, <3>4, ConfigAssumption DEF Read, ConfigInv, TypeOK, Reads, NamesNoTarget
        <4> QED
          BY <2>0, <4>1, <4>2, RefusedIsImpossible
      <3>5. CASE Write(t)
        <4>1. Rejected(call[t]) # "none" /\ router' = router
          BY <1>1, <2>0, <2>1, <3>5 DEF Write, Finish, Failures, Refusals
        <4>2. call[t] \in Calls /\ ~NamesNoTarget(call[t])
          BY <1>1, <3>5 DEF Write, ConfigInv, WriteInv, IsWrite, Carried, Declines
        <4> QED
          BY <2>0, <4>1, <4>2, RefusedIsImpossible
      <3>6. CASE RequestLost(t) \/ ReplyLost(t) \/ TimesOut(t)
        BY <2>0, <2>1, <3>6 DEF RequestLost, ReplyLost, TimesOut, Finish
      <3> QED
        BY <3>3, <3>4, <3>5, <3>6
    <2>2. ASSUME NEW c \in Calls, Begin(t, c), out'[t] = "ValueError", ~NamesNoTarget(c)
          PROVE  ~Possible(c)
      <3>1. Declines(c)
        BY <2>0, <2>2 DEF Begin
      <3> QED
        BY <2>0, <2>2, <3>1, RefusedIsImpossible
    <2> QED
      BY <2>1, <2>2
  <1>2. ConfigInv /\ [Next]_vars =>
          [\A t \in Tasks :
              /\ /\ pc[t] # "idle" /\ pc'[t] = "idle"
                 /\ out'[t] \in Failures \ {"RequestFailed"}
                 => ~Possible(call[t]) /\ router' = router
              /\ pc[t] = "idle" /\ pc'[t] = "idle" /\ out'[t] = "ValueError"
                 => \A c \in Calls : Begin(t, c) => NamesNoTarget(c) \/ ~Possible(c)]_vars
    BY <1>1
  <1> QED
    BY InitInv, StepInv, <1>2, PTL DEF Spec, RefusalsAreJustified
=============================================================================
