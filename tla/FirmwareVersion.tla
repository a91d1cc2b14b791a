--------------------------- MODULE FirmwareVersion ---------------------------
(***************************************************************************)
(* glinet4/_routes/system.py, _parse_firmware_version, and the comparison  *)
(* glinet4/_routes/vpn.py routes WireGuard calls by.                       *)
(*                                                                         *)
(* A firmware_version string is abstracted to the numbers it begins with,  *)
(* whether one of them is written with a leading zero, and what follows.   *)
(***************************************************************************)
EXTENDS Naturals, Sequences

CONSTANTS
    Numbers,    \* the numbers a version string is made of
    NoVersion   \* None: not a version

\* segments: the leading numbers, as many as are joined by dots; padded: the
\* first one with a leading zero, or 0; tail: nothing or a +build, a semver
\* -prerelease, or anything else ("_rc1", "-").
RawVersions ==
    {raw \in [segments: UNION {[1 .. n -> Numbers] : n \in 0 .. 4},
              padded: 0 .. 4,
              tail: {"none", "prerelease", "rubbish"}] :
        raw.padded <= Len(raw.segments)}

\* Semver orders the prereleases of a version before its release, and the
\* prerelease "0" before any other.
Stages == [zero |-> 0, prerelease |-> 1, release |-> 2]

Versions == [major: Numbers \cup {0}, minor: Numbers \cup {0},
             patch: Numbers \cup {0}, stage: 0 .. 2]

ASSUME VersionAssumption ==
    /\ Numbers \subseteq Nat
    /\ NoVersion \notin Versions

Version(segments, stage) ==
    LET at(i) == IF i <= Len(segments) THEN segments[i] ELSE 0
    IN  [major |-> at(1), minor |-> at(2), patch |-> at(3), stage |-> stage]

\* Version.parse: three numbers without leading zeros.
Semver(raw) == Len(raw.segments) = 3 /\ raw.padded = 0 /\ raw.tail # "rubbish"

\* What is not semver: the first three numbers, if there are any; leading zeros are refused.
ParseFirmwareVersion(raw) ==
    IF Semver(raw)
    THEN Version(raw.segments,
                 IF raw.tail = "none" THEN Stages.release ELSE Stages.prerelease)
    ELSE IF raw.segments = << >> \/ raw.padded \in 1 .. 3 THEN NoVersion
    ELSE Version(raw.segments, Stages.release)

Before(v, w) ==
    \/ v.major < w.major
    \/ v.major = w.major /\ v.minor < w.minor
    \/ v.major = w.major /\ v.minor = w.minor /\ v.patch < w.patch
    \/ /\ v.major = w.major /\ v.minor = w.minor /\ v.patch = w.patch
       /\ v.stage < w.stage

\* Version(4, 8, 0, 0) is the prerelease "4.8.0-0".  Mutation first: the release.
ReleaseOfNewVpnClient == [major |-> 4, minor |-> 8, patch |-> 0, stage |-> Stages.release]

NEW_VPN_CLIENT_VERSION == [major |-> 4, minor |-> 8, patch |-> 0, stage |-> Stages.zero]

\* The API a version is routed to.
TargetCall(version) ==
    IF Before(version, NEW_VPN_CLIENT_VERSION) THEN "wg-client" ELSE "vpn-client"
=============================================================================
