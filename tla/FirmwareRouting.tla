--------------------------- MODULE FirmwareRouting ---------------------------
(***************************************************************************)
(* The firmware version a client caches (glinet4/_routes/system.py,        *)
(* glinet4/glinet.py) and the WireGuard calls it routes by                 *)
(* (glinet4/_routes/vpn.py), called by concurrent tasks while the router   *)
(* may be upgraded.                                                        *)
(*                                                                         *)
(* A get_info request is answered in one step and its reply acted on in    *)
(* another, so that replies overtake each other.  Between acting on the    *)
(* reply and sending the routed request there is no await.                 *)
(***************************************************************************)
EXTENDS FirmwareVersion

CONSTANTS
    Tasks,          \* the tasks calling the routes
    Firmwares,      \* the firmware_version strings the router may report
    Installed,      \* bounds those an upgrade installs
    NoKey,          \* a get_info reply without firmware_version
    NotText,        \* one whose firmware_version is not a string, null for one
    NoReply,        \* no reply yet
    MaxUpgrades     \* bounds how often the firmware changes

ASSUME RoutingAssumption ==
    /\ Firmwares \subseteq RawVersions
    /\ Installed \subseteq Firmwares
    /\ NoKey \notin RawVersions
    /\ NotText \notin RawVersions \cup {NoKey}
    /\ NoReply \notin RawVersions \cup {NoKey, NotText}
    /\ MaxUpgrades \in Nat

VARIABLES
    firmware,   \* what the router reports, a version string, NoKey or NotText
    upgrades,   \* how often it changed
    cached,     \* _firmware_version
    refreshed,  \* whether a reply of the present firmware has been cached
    call,       \* the call each task is in, or was in last
    stale,      \* whether it began on a version cached from an older firmware
    pc,         \* where it is suspended
    reply,      \* the get_info reply it is about to read
    api,        \* the service its request is routed to
    out         \* how it ended

routerVars == <<firmware, upgrades>>
cacheVars == <<cached, refreshed>>
taskVars == <<call, stale, pc, reply, api, out>>
vars == <<routerVars, cacheVars, taskVars>>

WireguardCalls == {"wireguard_client_state", "wireguard_client_start",
                   "wireguard_client_stop"}
Calls == {"router_info", "router_mac"} \cup WireguardCalls
Ends == {"none", "done", "UnexpectedResponse", "NonZeroResponse", "RequestFailed",
         "TypeError"}

TypeOK ==
    /\ firmware \in Firmwares \cup {NoKey, NotText}
    /\ upgrades \in 0 .. MaxUpgrades
    /\ cached \in Versions \cup {NoVersion}
    /\ refreshed \in BOOLEAN
    /\ call \in [Tasks -> Calls \cup {"none"}]
    /\ stale \in [Tasks -> BOOLEAN]
    /\ pc \in [Tasks -> {"idle", "asking", "answered", "routed", "lost"}]
    /\ reply \in [Tasks -> Firmwares \cup {NoKey, NotText, NoReply}]
    /\ api \in [Tasks -> {"none", "vpn-client", "wg-client"}]
    /\ out \in [Tasks -> Ends]

Init ==
    /\ firmware \in Firmwares \cup {NoKey, NotText}
    /\ upgrades = 0
    /\ cached = NoVersion
    /\ refreshed = FALSE
    /\ call = [t \in Tasks |-> "none"]
    /\ stale = [t \in Tasks |-> FALSE]
    /\ pc = [t \in Tasks |-> "idle"]
    /\ reply = [t \in Tasks |-> NoReply]
    /\ api = [t \in Tasks |-> "none"]
    /\ out = [t \in Tasks |-> "none"]

-----------------------------------------------------------------------------
Finish(t, end) ==
    /\ pc' = [pc EXCEPT ![t] = "idle"]
    /\ reply' = [reply EXCEPT ![t] = NoReply]
    /\ out' = [out EXCEPT ![t] = end]
    /\ UNCHANGED api

\* The request of a WireGuard call, by the version it holds.
Route(t, version) ==
    /\ pc' = [pc EXCEPT ![t] = "routed"]
    /\ reply' = [reply EXCEPT ![t] = NoReply]
    /\ api' = [api EXCEPT ![t] = TargetCall(version)]
    /\ UNCHANGED out

\* router_info and router_mac ask at once, a WireGuard call asks only if
\* _require_firmware_version finds no version cached.
Begin(t) ==
    /\ pc[t] = "idle"
    /\ \E c \in Calls :
          /\ call' = [call EXCEPT ![t] = c]
          /\ stale' = [stale EXCEPT ![t] = cached # NoVersion /\ ~refreshed]
          /\ out' = [out EXCEPT ![t] = "none"]
          /\ IF c \in WireguardCalls /\ cached # NoVersion
             THEN /\ pc' = [pc EXCEPT ![t] = "routed"]
                  /\ api' = [api EXCEPT ![t] = TargetCall(cached)]
             ELSE /\ pc' = [pc EXCEPT ![t] = "asking"]
                  /\ api' = [api EXCEPT ![t] = "none"]
    /\ UNCHANGED <<routerVars, cacheVars, reply>>

\* The router answers get_info (external).
Answer(t) ==
    /\ pc[t] = "asking"
    /\ pc' = [pc EXCEPT ![t] = "answered"]
    /\ reply' = [reply EXCEPT ![t] = firmware]
    /\ UNCHANGED <<routerVars, cacheVars, call, stale, api, out>>

\* What router_info does to the cache.
\* Mutations first: the first version is kept; one that is none is not stored.
CacheOnce(t) ==
    /\ refreshed' = TRUE
    /\ cached' = IF cached = NoVersion THEN ParseFirmwareVersion(reply[t]) ELSE cached

CacheIfVersion(t) ==
    /\ refreshed' = TRUE
    /\ cached' = LET version == ParseFirmwareVersion(reply[t])
                 IN  IF version = NoVersion THEN cached ELSE version

Cache(t) ==
    /\ refreshed' = TRUE
    /\ cached' = ParseFirmwareVersion(reply[t])

\* What comes after router_info: nothing, the mac, or the routed request.
\* Mutations first: the mac is indexed; the version is read before it is fetched.
ContinueIndexing(t) ==
    CASE call[t] = "router_info" -> Finish(t, "done")
      [] call[t] = "router_mac" ->
            \E end \in {"done", "KeyError"} : Finish(t, end)
      [] call[t] \in WireguardCalls ->
            IF cached' = NoVersion THEN Finish(t, "UnexpectedResponse")
            ELSE Route(t, cached')

ContinueAsBefore(t) ==
    CASE call[t] = "router_info" -> Finish(t, "done")
      [] call[t] = "router_mac" ->
            \E end \in {"done", "UnexpectedResponse"} : Finish(t, end)
      [] call[t] \in WireguardCalls ->
            IF cached = NoVersion THEN Finish(t, "UnexpectedResponse")
            ELSE Route(t, cached)

Continue(t) ==
    CASE call[t] = "router_info" -> Finish(t, "done")
      [] call[t] = "router_mac" ->
            \E end \in {"done", "UnexpectedResponse"} : Finish(t, end)
      [] call[t] \in WireguardCalls ->
            IF cached' = NoVersion THEN Finish(t, "UnexpectedResponse")
            ELSE Route(t, cached')

\* Version.parse raises TypeError, which nobody catches, for what is not a string.
InfoReturns(t) ==
    /\ pc[t] = "answered"
    /\ \/ reply[t] = NoKey /\ Finish(t, "UnexpectedResponse") /\ UNCHANGED cacheVars
       \/ reply[t] = NotText /\ Finish(t, "TypeError") /\ UNCHANGED cacheVars
       \/ reply[t] \in Firmwares /\ Cache(t) /\ Continue(t)
    /\ UNCHANGED <<routerVars, call, stale>>

-----------------------------------------------------------------------------
(* The router (external). *)

\* The vpn-client API came with 4.8: the numbers alone decide, the first two of
\* them in fact, which is the reference the parser and the comparison of versions
\* are held against.
HasNewApi(segments) ==
    LET at(i) == IF i <= Len(segments) THEN segments[i] ELSE 0
    IN  at(1) > 4 \/ (at(1) = 4 /\ at(2) >= 8)

\* A router that reports no number may have either API.
Serves(service) ==
    IF firmware \in {NoKey, NotText} \/ firmware.segments = << >>
    THEN TRUE
    ELSE (service = "vpn-client") <=> HasNewApi(firmware.segments)

\* The method is not found on the wrong API.
ApiReturns(t) ==
    /\ pc[t] = "routed"
    /\ Finish(t, IF Serves(api[t]) THEN "done" ELSE "NonZeroResponse")
    /\ UNCHANGED <<routerVars, cacheVars, call, stale>>

\* Any request may fail or time out, its reply unread.
Fails(t) ==
    /\ pc[t] # "idle"
    /\ Finish(t, "RequestFailed")
    /\ UNCHANGED <<routerVars, cacheVars, call, stale>>

\* An upgrade takes longer than any request waits: what is in flight is lost.
Upgrade ==
    /\ upgrades < MaxUpgrades
    /\ upgrades' = upgrades + 1
    /\ firmware' \in (Installed \cup {NoKey, NotText}) \ {firmware}
    /\ refreshed' = FALSE
    /\ pc' = [t \in Tasks |-> IF pc[t] = "idle" THEN "idle" ELSE "lost"]
    /\ UNCHANGED <<cached, call, stale, reply, api, out>>

Next ==
    \/ \E t \in Tasks :
          Begin(t) \/ Answer(t) \/ InfoReturns(t) \/ ApiReturns(t) \/ Fails(t)
    \/ Upgrade

Spec == Init /\ [][Next]_vars

-----------------------------------------------------------------------------
(* Properties. *)

\* However router_info calls of several tasks overtake each other, once one has
\* been answered by the present firmware the cache holds that firmware's version,
\* which is none if it is not a version (system.py:64-71).
RefreshedMeansCurrent ==
    refreshed => cached = ParseFirmwareVersion(firmware)

\* Without an upgrade the cache is never wrong, so only a call that began on a
\* version cached before an upgrade can be sent to the API the router does not
\* have; one that fetches the version itself, or begins after anyone has, is
\* routed as the numbers of the version say, betas of 4.8.0 included
\* (glinet.py:121-139, vpn.py:27-31, 65-127).
OnlyStaleCallsMisroute ==
    \A t \in Tasks : out[t] = "NonZeroResponse" => stale[t]

\* A WireGuard call gives up for want of a version only over its own reply: not
\* over a cache another task has meanwhile filled or emptied (glinet.py:131-138).
GivesUpOverItsOwnReply ==
    [][\A t \in Tasks :
          out[t] = "none" /\ out'[t] = "UnexpectedResponse" /\ call[t] \in WireguardCalls =>
             reply[t] = NoKey \/ ParseFirmwareVersion(reply[t]) = NoVersion]_vars
=============================================================================
