------------------------ MODULE FirmwareRoutingProofs ------------------------
(***************************************************************************)
(* The firmware cache and the calls routed by it, for any number of tasks  *)
(* and upgrades and any version strings over any numbers.                  *)
(***************************************************************************)
EXTENDS FirmwareRouting, SequenceTheorems, TLAPS

USE VersionAssumption, RoutingAssumption

-----------------------------------------------------------------------------
(* Version strings. *)

\* The numbers of a version string are a sequence of at most four.
LEMMA RawIsSequence ==
    ASSUME NEW raw \in RawVersions
    PROVE  /\ raw.segments \in Seq(Numbers)
           /\ Len(raw.segments) \in 0 .. 4
           /\ \A i \in 1 .. Len(raw.segments) : raw.segments[i] \in Numbers
           /\ raw.segments = << >> <=> Len(raw.segments) = 0
           /\ raw.padded \in 0 .. 4
  <1>1. PICK n \in 0 .. 4 : raw.segments \in [1 .. n -> Numbers]
    BY DEF RawVersions
  <1>2. raw.segments \in Seq(Numbers) /\ Len(raw.segments) = n
    BY <1>1, IsASeq, LenProperties
  <1>3. raw.padded \in 0 .. 4
    BY DEF RawVersions
  <1> QED
    BY <1>1, <1>2, <1>3, EmptySeq

\* The parser yields a version or none, for any string.
LEMMA ParsedType ==
    ASSUME NEW raw \in RawVersions
    PROVE  ParseFirmwareVersion(raw) \in Versions \cup {NoVersion}
  <1>1. ASSUME NEW stage \in 0 .. 2
        PROVE  Version(raw.segments, stage) \in Versions
    BY RawIsSequence DEF Version, Versions
  <1>2. Stages.release \in 0 .. 2 /\ Stages.prerelease \in 0 .. 2
    BY DEF Stages
  <1> QED
    BY <1>1, <1>2 DEF ParseFirmwareVersion

\* A version is routed to the new API exactly if its numbers are 4.8 or later:
\* prereleases of 4.8.0 and longer and shorter strings included.
LEMMA RoutedByItsNumbers ==
    ASSUME NEW raw \in RawVersions, ParseFirmwareVersion(raw) # NoVersion
    PROVE  TargetCall(ParseFirmwareVersion(raw)) =
              IF HasNewApi(raw.segments) THEN "vpn-client" ELSE "wg-client"
  <1> DEFINE at(i) == IF i <= Len(raw.segments) THEN raw.segments[i] ELSE 0
             v == ParseFirmwareVersion(raw)
  <1>0. ASSUME NEW i \in Nat \ {0}
        PROVE  at(i) \in Nat
    <2>1. i <= Len(raw.segments) => raw.segments[i] \in Numbers
      BY RawIsSequence
    <2> QED
      BY <2>1
  <1>1. at(1) \in Nat /\ at(2) \in Nat /\ at(3) \in Nat
    BY <1>0
  <1>2. PICK stage \in 1 .. 2 : v = Version(raw.segments, stage)
    BY DEF ParseFirmwareVersion, Stages
  <1>3. v = [major |-> at(1), minor |-> at(2), patch |-> at(3), stage |-> stage]
    BY <1>2 DEF Version
  <1>4. Before(v, NEW_VPN_CLIENT_VERSION) <=>
           at(1) < 4 \/ (at(1) = 4 /\ at(2) < 8)
    <2> HIDE DEF at, v
    <2> QED
      BY <1>1, <1>3 DEF Before, NEW_VPN_CLIENT_VERSION, Stages
  <1>5. HasNewApi(raw.segments) <=> at(1) > 4 \/ (at(1) = 4 /\ at(2) >= 8)
    BY DEF HasNewApi
  <1> HIDE DEF at
  <1> QED
    BY <1>1, <1>4, <1>5 DEF TargetCall
-----------------------------------------------------------------------------
(* Type correctness. *)

\* A call that ends keeps the types of pc and out.
LEMMA FinishKeepsTypes ==
    ASSUME TypeOK, NEW t \in Tasks, NEW end \in Ends, Finish(t, end)
    PROVE  /\ pc' \in [Tasks -> {"idle", "asking", "answered", "routed", "lost"}]
           /\ reply' \in [Tasks -> Firmwares \cup {NoKey, NotText, NoReply}]
           /\ api' \in [Tasks -> {"none", "vpn-client", "wg-client"}]
           /\ out' \in [Tasks -> Ends]
  BY DEF TypeOK, Finish

\* So does one that goes on to the API chosen for it.
LEMMA RouteKeepsTypes ==
    ASSUME TypeOK, NEW t \in Tasks, NEW version, Route(t, version)
    PROVE  /\ pc' \in [Tasks -> {"idle", "asking", "answered", "routed", "lost"}]
           /\ reply' \in [Tasks -> Firmwares \cup {NoKey, NotText, NoReply}]
           /\ api' \in [Tasks -> {"none", "vpn-client", "wg-client"}]
           /\ out' \in [Tasks -> Ends]
  BY DEF TypeOK, Route, TargetCall

\* A reply that has come and is not acted on yet is the present firmware's, since
\* an upgrade loses what is in flight; and only a call is ever suspended.
Answered ==
    \A t \in Tasks :
        /\ pc[t] = "answered" => reply[t] = firmware
        /\ pc[t] # "idle" => call[t] \in Calls

\* TypeOK needs Answered: what is parsed is a version string.
TypeInv == TypeOK /\ Answered

\* TypeInv is inductive.
LEMMA TypeInvariant == Spec => []TypeInv
  <1>1. Init => TypeInv
    <2> SUFFICES ASSUME Init
                 PROVE  TypeInv
      OBVIOUS
    <2>1. TypeOK
      <3>1. upgrades \in 0 .. MaxUpgrades
        BY DEF Init
      <3> QED
        BY <3>1 DEF Init, TypeOK, Ends
    <2> QED
      BY <2>1 DEF Init, Answered, TypeInv
  <1>2. TypeInv /\ [Next]_vars => TypeInv'
    <2> SUFFICES ASSUME TypeInv, [Next]_vars
                 PROVE  TypeInv'
      OBVIOUS
    <2> USE DEF TypeInv
    <2>1. ASSUME NEW t \in Tasks, Begin(t)
          PROVE  TypeInv'
      <3>1. PICK c \in Calls :
               /\ call' = [call EXCEPT ![t] = c]
               /\ stale' = [stale EXCEPT ![t] = cached # NoVersion /\ ~refreshed]
               /\ out' = [out EXCEPT ![t] = "none"]
               /\ IF c \in WireguardCalls /\ cached # NoVersion
                  THEN /\ pc' = [pc EXCEPT ![t] = "routed"]
                       /\ api' = [api EXCEPT ![t] = TargetCall(cached)]
                  ELSE /\ pc' = [pc EXCEPT ![t] = "asking"]
                       /\ api' = [api EXCEPT ![t] = "none"]
        BY <2>1 DEF Begin
      <3>2. UNCHANGED <<routerVars, cacheVars, reply>>
        BY <2>1 DEF Begin
      <3>3. pc' \in [Tasks -> {"idle", "asking", "answered", "routed", "lost"}]
               /\ api' \in [Tasks -> {"none", "vpn-client", "wg-client"}]
        BY <3>1 DEF TypeOK, TargetCall
      <3>4. TypeOK'
        BY <3>1, <3>2, <3>3 DEF TypeOK, routerVars, cacheVars, Ends
      <3> QED
        BY <3>1, <3>2, <3>4 DEF Answered, TypeOK, routerVars
    <2>2. ASSUME NEW t \in Tasks, Answer(t)
          PROVE  TypeInv'
      BY <2>2 DEF Answer, TypeOK, Answered, routerVars, cacheVars
    <2>3. ASSUME NEW t \in Tasks, InfoReturns(t)
          PROVE  TypeInv'
      <3>1. /\ reply[t] = firmware /\ call[t] \in Calls
            /\ UNCHANGED <<routerVars, call, stale>>
        BY <2>3 DEF InfoReturns, Answered
      <3>2. cached' \in Versions \cup {NoVersion} /\ refreshed' \in BOOLEAN
        BY <2>3, <3>1, ParsedType DEF InfoReturns, Cache, cacheVars, TypeOK
      <3>3. (\E end \in Ends : Finish(t, end)) \/ (\E v : Route(t, v))
        BY <2>3 DEF InfoReturns, Continue, Answered, Calls, Ends
      <3>4. CASE \E end \in Ends : Finish(t, end)
        <4>1. TypeOK'
          BY <3>1, <3>2, <3>4, FinishKeepsTypes DEF TypeOK, routerVars
        <4> QED
          BY <3>1, <3>4, <4>1 DEF Finish, Answered, TypeOK, routerVars
      <3>5. CASE \E v : Route(t, v)
        <4>1. TypeOK'
          BY <3>1, <3>2, <3>5, RouteKeepsTypes DEF TypeOK, routerVars
        <4> QED
          BY <3>1, <3>5, <4>1 DEF Route, Answered, TypeOK, routerVars
      <3> QED
        BY <3>3, <3>4, <3>5
    <2>4. ASSUME NEW t \in Tasks, ApiReturns(t) \/ Fails(t)
          PROVE  TypeInv'
      <3>1. PICK end \in Ends : Finish(t, end)
        BY <2>4 DEF ApiReturns, Fails, Ends
      <3>2. UNCHANGED <<routerVars, cacheVars, call, stale>>
        BY <2>4 DEF ApiReturns, Fails
      <3>3. TypeOK'
        BY <3>1, <3>2, FinishKeepsTypes DEF TypeOK, routerVars, cacheVars
      <3> QED
        BY <3>1, <3>2, <3>3 DEF Finish, Answered, TypeOK, routerVars
    <2>5. CASE Upgrade
      <3>1. TypeOK'
        <4>1. upgrades' \in 0 .. MaxUpgrades
          BY <2>5 DEF Upgrade, TypeOK
        <4>2. firmware' \in Firmwares \cup {NoKey, NotText}
          BY <2>5 DEF Upgrade
        <4>3. pc' \in [Tasks -> {"idle", "asking", "answered", "routed", "lost"}]
          BY <2>5 DEF Upgrade
        <4> QED
          BY <2>5, <4>1, <4>2, <4>3 DEF Upgrade, TypeOK
      <3> QED
        BY <2>5, <3>1 DEF Upgrade, Answered
    <2>6. CASE UNCHANGED vars
      BY <2>6 DEF vars, routerVars, cacheVars, taskVars, TypeOK, Answered
    <2> QED
      BY <2>1, <2>2, <2>3, <2>4, <2>5, <2>6 DEF Next
  <1> QED
    BY <1>1, <1>2, PTL DEF Spec

\* The types of the cache and of every call, for any version strings.
THEOREM TypeCorrect == Spec => []TypeOK
  BY TypeInvariant, PTL DEF TypeInv

-----------------------------------------------------------------------------
(* The cache and the calls routed by it. *)

\* A version that the router's own number does not belie is served.
LEMMA PresentVersionIsServed ==
    ASSUME firmware \in RawVersions, ParseFirmwareVersion(firmware) # NoVersion
    PROVE  Serves(TargetCall(ParseFirmwareVersion(firmware)))
  BY RoutedByItsNumbers DEF Serves

\* The strengthening of RefreshedMeansCurrent and OnlyStaleCallsMisroute: only a
\* firmware that has a version string can have been cached, and a call on its
\* way, unless it began on an outdated version, goes to the API there is.
CacheInv ==
    /\ refreshed => firmware \in Firmwares
    /\ RefreshedMeansCurrent
    /\ \A t \in Tasks : pc[t] = "routed" /\ ~stale[t] => Serves(api[t])
    /\ OnlyStaleCallsMisroute

\* CacheInv is inductive, relative to TypeInv.
LEMMA CacheInvariant == Spec => []CacheInv
  <1>1. Init => CacheInv
    BY DEF Init, CacheInv, RefreshedMeansCurrent, OnlyStaleCallsMisroute
  <1>2. TypeInv /\ CacheInv /\ [Next]_vars => CacheInv'
    <2> SUFFICES ASSUME TypeInv, CacheInv, [Next]_vars
                 PROVE  CacheInv'
      OBVIOUS
    <2> USE DEF TypeInv
    <2>0. Firmwares \subseteq RawVersions
      OBVIOUS
    \* A call that ends otherwise than for want of a method keeps CacheInv.
    <2>1. ASSUME NEW t \in Tasks, NEW end \in Ends, Finish(t, end),
                 end = "NonZeroResponse" => stale[t],
                 UNCHANGED <<routerVars, cacheVars, stale>>
          PROVE  CacheInv'
      <3>1. UNCHANGED <<firmware, cached, refreshed, stale, api>>
        BY <2>1 DEF Finish, routerVars, cacheVars
      <3>2. \A u \in Tasks :
               /\ pc'[u] = "routed" => pc[u] = "routed"
               /\ out'[u] = "NonZeroResponse" => stale[u] \/ out[u] = "NonZeroResponse"
        BY <2>1 DEF Finish, TypeOK
      <3>3. \A u \in Tasks : Serves(api[u]) => Serves(api[u])'
        BY <3>1 DEF Serves
      <3>4. (refreshed => firmware \in Firmwares)' /\ RefreshedMeansCurrent'
        BY <3>1 DEF CacheInv, RefreshedMeansCurrent
      <3>5. \A u \in Tasks : pc'[u] = "routed" /\ ~stale'[u] => Serves(api[u])'
        BY <3>1, <3>2, <3>3 DEF CacheInv
      <3>6. OnlyStaleCallsMisroute'
        BY <3>1, <3>2 DEF CacheInv, OnlyStaleCallsMisroute
      <3> QED
        BY <3>4, <3>5, <3>6 DEF CacheInv
    <2>2. ASSUME NEW t \in Tasks, Begin(t)
          PROVE  CacheInv'
      <3>1. /\ UNCHANGED <<firmware, cached, refreshed>>
            /\ stale' = [stale EXCEPT ![t] = cached # NoVersion /\ ~refreshed]
            /\ out' = [out EXCEPT ![t] = "none"]
            /\ \A u \in Tasks \ {t} : pc'[u] = pc[u] /\ api'[u] = api[u]
        BY <2>2 DEF Begin, routerVars, cacheVars, TypeOK
      <3>2. /\ pc'[t] = "routed" => cached # NoVersion /\ api'[t] = TargetCall(cached)
            /\ stale'[t] = (cached # NoVersion /\ ~refreshed)
        BY <2>2 DEF Begin, TypeOK
      <3>3. pc'[t] = "routed" /\ ~stale'[t] => Serves(api'[t])
        BY <2>0, <3>2, PresentVersionIsServed
        DEF CacheInv, RefreshedMeansCurrent
      <3> QED
        BY <3>1, <3>3
        DEF CacheInv, RefreshedMeansCurrent, OnlyStaleCallsMisroute, Serves, TypeOK
    <2>3. ASSUME NEW t \in Tasks, Answer(t)
          PROVE  CacheInv'
      BY <2>3 DEF Answer, CacheInv, RefreshedMeansCurrent, OnlyStaleCallsMisroute,
                  Serves, TypeOK, routerVars, cacheVars
    <2>4. ASSUME NEW t \in Tasks, InfoReturns(t)
          PROVE  CacheInv'
      <3>1. /\ reply[t] = firmware /\ call[t] \in Calls
            /\ UNCHANGED <<routerVars, stale>>
        BY <2>4 DEF InfoReturns, Answered
      <3>2. CASE firmware \in {NoKey, NotText}
        <4>1. firmware \notin Firmwares
          BY <2>0, <3>2
        <4> QED
          BY <2>1, <2>4, <3>1, <3>2, <4>1 DEF InfoReturns, Ends
      <3>3. CASE firmware \in Firmwares
        <4>1. /\ refreshed' = TRUE /\ cached' = ParseFirmwareVersion(firmware)
              /\ Continue(t)
          BY <2>4, <3>1, <3>3 DEF InfoReturns, Cache
        <4>2. firmware' = firmware /\ firmware \in RawVersions
          BY <2>0, <3>1, <3>3 DEF routerVars
        <4>3. /\ refreshed' => firmware' \in Firmwares
              /\ RefreshedMeansCurrent'
          BY <3>3, <4>1, <4>2 DEF RefreshedMeansCurrent
        <4>4. \/ \E end \in Ends \ {"NonZeroResponse"} : Finish(t, end)
              \/ cached' # NoVersion /\ Route(t, cached')
          BY <3>1, <4>1 DEF Continue, Calls, Ends
        <4>5. CASE \E end \in Ends \ {"NonZeroResponse"} : Finish(t, end)
          <5>1. UNCHANGED <<api, stale, firmware>>
            BY <3>1, <4>2, <4>5 DEF Finish
          <5>2. \A u \in Tasks :
                   /\ pc'[u] = "routed" => pc[u] = "routed"
                   /\ out'[u] = "NonZeroResponse" => out[u] = "NonZeroResponse"
            BY <4>5 DEF Finish, TypeOK
          <5>3. \A u \in Tasks : Serves(api[u]) => Serves(api[u])'
            BY <5>1 DEF Serves
          <5>4. \A u \in Tasks : pc'[u] = "routed" /\ ~stale'[u] => Serves(api[u])'
            BY <5>1, <5>2, <5>3 DEF CacheInv
          <5>5. OnlyStaleCallsMisroute'
            BY <5>1, <5>2 DEF CacheInv, OnlyStaleCallsMisroute
          <5> QED
            BY <4>3, <5>4, <5>5 DEF CacheInv
        <4>6. CASE cached' # NoVersion /\ Route(t, cached')
          <5>1. UNCHANGED <<stale, firmware, out>>
            BY <3>1, <4>2, <4>6 DEF Route
          <5>2. \A u \in Tasks \ {t} : pc'[u] = pc[u] /\ api'[u] = api[u]
            BY <4>6 DEF Route, TypeOK
          <5>3. api'[t] = TargetCall(ParseFirmwareVersion(firmware))
            BY <4>1, <4>6 DEF Route, TypeOK
          <5>4. Serves(api'[t])
            BY <4>1, <4>2, <4>6, <5>3, PresentVersionIsServed
          <5> QED
            BY <4>3, <5>1, <5>2, <5>4 DEF CacheInv, OnlyStaleCallsMisroute, Serves
        <4> QED
          BY <4>4, <4>5, <4>6
      <3> QED
        BY <3>2, <3>3 DEF TypeOK
    <2>5. ASSUME NEW t \in Tasks, ApiReturns(t)
          PROVE  CacheInv'
      <3>1. ~stale[t] => Serves(api[t])
        BY <2>5 DEF ApiReturns, CacheInv
      <3> QED
        BY <2>1, <2>5, <3>1 DEF ApiReturns, Ends
    <2>6. ASSUME NEW t \in Tasks, Fails(t)
          PROVE  CacheInv'
      BY <2>1, <2>6 DEF Fails, Ends
    <2>7. CASE Upgrade
      BY <2>7 DEF Upgrade, CacheInv, RefreshedMeansCurrent, OnlyStaleCallsMisroute
    <2>8. CASE UNCHANGED vars
      BY <2>8 DEF vars, routerVars, cacheVars, taskVars, CacheInv,
                  RefreshedMeansCurrent, OnlyStaleCallsMisroute, Serves
    <2> QED
      BY <2>2, <2>3, <2>4, <2>5, <2>6, <2>7, <2>8 DEF Next
  <1> QED
    BY <1>1, <1>2, TypeInvariant, PTL DEF Spec

\* However many router_info calls overtake each other, and however often the
\* firmware changes, a cache filled since the last upgrade is right.
THEOREM CacheIsCurrent == Spec => []RefreshedMeansCurrent
  BY CacheInvariant, PTL DEF CacheInv

\* Only a call that began on a version from before an upgrade is sent to an API
\* the router does not have, whatever its version string looks like.
THEOREM RoutedRight == Spec => []OnlyStaleCallsMisroute
  BY CacheInvariant, PTL DEF CacheInv

\* A WireGuard call gives up over nothing but the reply it waited for.
THEOREM GivesUpForItself == Spec => GivesUpOverItsOwnReply
  <1> DEFINE Own == \A t \in Tasks :
          out[t] = "none" /\ out'[t] = "UnexpectedResponse" /\ call[t] \in WireguardCalls =>
             reply[t] = NoKey \/ ParseFirmwareVersion(reply[t]) = NoVersion
  <1>1. TypeInv /\ [Next]_vars => [Own]_vars
    <2> SUFFICES ASSUME TypeInv, Next, NEW t \in Tasks,
                        out[t] = "none", out'[t] = "UnexpectedResponse",
                        call[t] \in WireguardCalls
                 PROVE  reply[t] = NoKey \/ ParseFirmwareVersion(reply[t]) = NoVersion
      OBVIOUS
    <2>1. PICK u \in Tasks : InfoReturns(u)
      BY DEF Next, Begin, Answer, ApiReturns, Fails, Upgrade, Finish, TypeInv, TypeOK
    <2>2. u = t
      BY <2>1 DEF InfoReturns, Continue, Finish, Route, TypeInv, TypeOK, Answered, Calls
    <2> QED
      BY <2>1, <2>2
      DEF InfoReturns, Cache, Continue, Finish, Route, WireguardCalls, TypeInv, TypeOK
  <1> QED
    BY <1>1, TypeInvariant, PTL DEF Spec, GivesUpOverItsOwnReply

-----------------------------------------------------------------------------
(* Newer firmware. *)

\* A version is its four numbers.
LEMMA VersionIsItsNumbers ==
    /\ \A v \in Versions : /\ v.major \in Nat /\ v.minor \in Nat
                           /\ v.patch \in Nat /\ v.stage \in Nat
    /\ /\ NEW_VPN_CLIENT_VERSION.major \in Nat /\ NEW_VPN_CLIENT_VERSION.minor \in Nat
       /\ NEW_VPN_CLIENT_VERSION.patch \in Nat /\ NEW_VPN_CLIENT_VERSION.stage \in Nat
  <1>1. ASSUME NEW v \in Versions
        PROVE  v.major \in Nat /\ v.minor \in Nat /\ v.patch \in Nat /\ v.stage \in Nat
    <2>1. /\ v.major \in Numbers \cup {0} /\ v.minor \in Numbers \cup {0}
          /\ v.patch \in Numbers \cup {0} /\ v.stage \in 0 .. 2
      BY DEF Versions
    <2>2. \A n \in Numbers \cup {0} : n \in Nat
      OBVIOUS
    <2>3. v.major \in Nat /\ v.minor \in Nat /\ v.patch \in Nat
      BY <2>1, <2>2, Zenon
    <2>4. v.stage \in Nat
      BY <2>1
    <2> QED
      BY <2>3, <2>4, Zenon
  <1> QED
    BY <1>1 DEF NEW_VPN_CLIENT_VERSION, Stages

\* A newer firmware never goes back to the API before it: whatever two version
\* strings mean, the one that is not before the other is routed to vpn-client if the
\* other is (vpn.py:27-31).
THEOREM RoutingIsMonotone ==
    ASSUME NEW v \in Versions, NEW w \in Versions, ~ Before(w, v),
           TargetCall(v) = "vpn-client"
    PROVE  TargetCall(w) = "vpn-client"
  <1>1. ~ Before(v, NEW_VPN_CLIENT_VERSION)
    BY DEF TargetCall
  <1>2. ~ Before(w, NEW_VPN_CLIENT_VERSION)
    BY <1>1, VersionIsItsNumbers DEF Before
  <1> QED
    BY <1>2 DEF TargetCall

-----------------------------------------------------------------------------
(* Routers that are not upgraded. *)

\* A version that was cached from an older firmware takes an upgrade.
UpgradeInv ==
    /\ cached # NoVersion /\ ~ refreshed => upgrades > 0
    /\ \A t \in Tasks : stale[t] => upgrades > 0

LEMMA UpgradeInvariant == Spec => []UpgradeInv
  <1>1. Init => UpgradeInv
    BY DEF Init, UpgradeInv
  <1>2. TypeOK /\ UpgradeInv /\ [Next]_vars => UpgradeInv'
    <2> SUFFICES ASSUME TypeOK, UpgradeInv, [Next]_vars
                 PROVE  UpgradeInv'
      OBVIOUS
    <2>1. ASSUME NEW t \in Tasks, Begin(t) PROVE UpgradeInv'
      BY <2>1 DEF Begin, UpgradeInv, TypeOK, routerVars, cacheVars
    <2>2. ASSUME NEW t \in Tasks, InfoReturns(t) PROVE UpgradeInv'
      BY <2>2 DEF InfoReturns, Cache, UpgradeInv, routerVars, cacheVars
    <2>3. ASSUME NEW t \in Tasks, Answer(t) \/ ApiReturns(t) \/ Fails(t) PROVE UpgradeInv'
      BY <2>3 DEF Answer, ApiReturns, Fails, UpgradeInv, routerVars, cacheVars
    <2>4. CASE Upgrade
      <3>1. upgrades' > 0
        BY <2>4 DEF Upgrade, TypeOK
      <3> QED
        BY <3>1 DEF UpgradeInv
    <2>5. CASE UNCHANGED vars
      BY <2>5 DEF vars, routerVars, cacheVars, taskVars, UpgradeInv
    <2> QED
      BY <2>1, <2>2, <2>3, <2>4, <2>5 DEF Next
  <1> QED
    BY <1>1, <1>2, TypeCorrect, PTL DEF Spec

\* As long as the router is not upgraded no WireGuard call goes to an API it does
\* not have: the version a first call caches serves every later call of every task,
\* for any version string (glinet.py:121-139).
THEOREM WithoutUpgradeNothingIsMisrouted ==
    Spec => [](upgrades = 0 => \A t \in Tasks : out[t] # "NonZeroResponse")
  <1>1. OnlyStaleCallsMisroute /\ UpgradeInv =>
           (upgrades = 0 => \A t \in Tasks : out[t] # "NonZeroResponse")
    BY DEF OnlyStaleCallsMisroute, UpgradeInv
  <1> QED
    BY <1>1, RoutedRight, UpgradeInvariant, PTL
=============================================================================
