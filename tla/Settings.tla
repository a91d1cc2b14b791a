------------------------------ MODULE Settings -------------------------------
(***************************************************************************)
(* The part of a router's configuration that glinet4/_routes can change,   *)
(* the calls that change it, and what each call is to do (its docstring):  *)
(* the members it was asked to change, and no others.                      *)
(***************************************************************************)
EXTENDS Integers

CONSTANTS
    Toggles,    \* the services firewall_set_wan_access can expose
    Hosts,      \* DMZ targets
    NoHost,     \* no target: the call says None, the router says nothing or ""
    EmptyHost,  \* a call says ""
    Actypes,    \* acceleration types other than the default
    DefaultActype,  \* 1, sent when the router does not tell
    NoActype,   \* no actype in the reply
    Ifaces,     \* names of wifi interfaces
    Macs,       \* client MAC addresses
    Temperatures,   \* thresholds in use or asked for
    Tasks,          \* the tasks calling the setters
    NoCall          \* the call of an idle task

AllParts == {"led", "wan", "dmz", "accel", "wifi", "acl",
             "fan", "test", "flow", "stats", "power"}

\* "rest" stands for the members a route passes through without knowing them.
LedConfigs == [led_enable: BOOLEAN, rest: BOOLEAN]
WanConfigs == [Toggles \cup {"rest"} -> BOOLEAN]

\* An enabled DMZ has a target.
DmzConfigs ==
    {dmz \in [enabled: BOOLEAN, dmz_ip: Hosts \cup {NoHost}] :
        dmz.enabled => dmz.dmz_ip # NoHost}

\* conflict: another feature forbids a change.
AccelConfigs ==
    [enable: BOOLEAN, actype: Actypes \cup {DefaultActype, NoActype}, conflict: BOOLEAN]

\* The interfaces there are, and whether each is enabled.
WifiConfigs == [res: UNION {[names -> BOOLEAN] : names \in SUBSET Ifaces}]

\* A list per mode; a router that says no mode has the blacklist.
AclConfigs ==
    [mode: {"black", "white", "unsaid"}, black: SUBSET Macs, white: SUBSET Macs]

\* The range the router accepts, 70 and 90 included.
FanConfigs == [temperature: Temperatures \cap 70..90]
TestConfigs == [test: BOOLEAN]

\* The collection rule; the defaults of the call, and any other type or period.
FlowConfigs == [enable: BOOLEAN, type: {"app", "other"}, time: {"day", "other"}]
StatsConfigs == [collected: BOOLEAN]
PowerConfigs == [rebooting: BOOLEAN]

Configs == [led |-> LedConfigs, wan |-> WanConfigs, dmz |-> DmzConfigs,
            accel |-> AccelConfigs, wifi |-> WifiConfigs, acl |-> AclConfigs,
            fan |-> FanConfigs, test |-> TestConfigs, flow |-> FlowConfigs,
            stats |-> StatsConfigs, power |-> PowerConfigs]

Routers == [led: LedConfigs, wan: WanConfigs, dmz: DmzConfigs,
            accel: AccelConfigs, wifi: WifiConfigs, acl: AclConfigs,
            fan: FanConfigs, test: TestConfigs, flow: FlowConfigs,
            stats: StatsConfigs, power: PowerConfigs]

-----------------------------------------------------------------------------
(* The calls. *)

Calls ==
    [part: {"led"}, enabled: BOOLEAN]
        \cup [part: {"wan"},
              toggles: UNION {[names -> BOOLEAN] : names \in SUBSET Toggles}]
        \cup [part: {"dmz"}, enabled: BOOLEAN, dest_ip: Hosts \cup {NoHost, EmptyHost}]
        \cup [part: {"accel"}, enabled: BOOLEAN]
        \cup [part: {"wifi"}, iface: Ifaces, enabled: BOOLEAN]
        \cup [part: {"acl"}, mac: Macs, blocked: BOOLEAN]
        \cup [part: {"fan"}, temperature: Temperatures]
        \cup [part: {"flow"}, enabled: BOOLEAN, stat_type: {"app", "other"},
              period: {"day", "other"}]
        \cup [part: {"test", "stats", "power"}]

\* The errors by which a route or the router turns a call down.
Refusals == {"ValueError", "UnexpectedResponse", "FeatureConflictError", "NonZeroResponse"}

\* The clients that have no access.
Denied(acl) == IF acl.mode = "white" THEN Macs \ acl.white ELSE acl.black

LedDone(c, led, new) == new = [led EXCEPT !.led_enable = c.enabled]

WanDone(c, wan, new) ==
    new = [k \in DOMAIN wan |-> IF k \in DOMAIN c.toggles THEN c.toggles[k] ELSE wan[k]]

\* Without a target, None or "" alike, the one there is is used again.
DmzDone(c, dmz, new) ==
    /\ new.enabled = c.enabled
    /\ new.dmz_ip = IF c.enabled /\ c.dest_ip \in Hosts THEN c.dest_ip ELSE dmz.dmz_ip
    /\ new.enabled => new.dmz_ip # NoHost

AccelDone(c, accel, new) ==
    /\ ~accel.conflict
    /\ new.enable = c.enabled
    /\ new.actype = IF accel.actype = NoActype THEN DefaultActype ELSE accel.actype
    /\ new.conflict = accel.conflict

WifiDone(c, wifi, new) ==
    c.iface \in DOMAIN wifi.res /\ new = [wifi EXCEPT !.res[c.iface] = c.enabled]

\* Whatever the mode: this client is denied or not, and no other is affected.
AclDone(c, acl, new) ==
    /\ new.mode = acl.mode
    /\ Denied(new) = IF c.blocked THEN Denied(acl) \cup {c.mac} ELSE Denied(acl) \ {c.mac}
    /\ IF acl.mode = "white" THEN new.black = acl.black ELSE new.white = acl.white

FlowDone(c, new) ==
    new = [enable |-> c.enabled, type |-> c.stat_type, time |-> c.period]

Done(c, old, new) ==
    /\ \A part \in AllParts \ {c.part} : new[part] = old[part]
    /\ CASE c.part = "led" -> LedDone(c, old.led, new.led)
         [] c.part = "wan" -> WanDone(c, old.wan, new.wan)
         [] c.part = "dmz" -> DmzDone(c, old.dmz, new.dmz)
         [] c.part = "accel" -> AccelDone(c, old.accel, new.accel)
         [] c.part = "wifi" -> WifiDone(c, old.wifi, new.wifi)
         [] c.part = "acl" -> AclDone(c, old.acl, new.acl)
         [] c.part = "fan" -> c.temperature \in 70..90
                              /\ new.fan.temperature = c.temperature
         [] c.part = "test" -> new.test.test
         [] c.part = "flow" -> FlowDone(c, new.flow)
         [] c.part = "stats" -> ~new.stats.collected
         [] c.part = "power" -> new.power.rebooting
=============================================================================
