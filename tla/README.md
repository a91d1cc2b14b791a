# glinet4, modelled and checked

TLA+ specifications of `glinet4`, the asyncio client for the JSON-RPC API of
GL.iNet routers, with the TLC configurations that check them on small instances
and proofs, checked by TLAPS, of what matters most for instances of every size.
Paths are relative to the repository, `_routes/x.py` means
`glinet4/_routes/x.py`.

- [The system](#the-system): components, state, operations, hard behaviours
- [The modules](#the-modules): what models what
- [The runs](#the-runs): what each shows, the bounds, fairness
- [The proofs](#the-proofs)
- [Disagreements](#disagreements-between-the-code-and-its-documentation) between code and documentation
- [Not modelled](#what-is-not-modelled), and [the plan](#the-plan)

## The system

One `GLinet` object holds one `GLinetTransport`, which holds one aiohttp session
and one router session id. Applications (Home Assistant is the typical one) call
its coroutines from several asyncio tasks at once. asyncio switches tasks at
`await` only, so what lies between two awaits is atomic; nothing else is: there
is no lock in the code, and the router has other clients.

| component | state | operations | talks to |
|---|---|---|---|
| Error handling, `error_handling.py`, `error_codes.py` | none | `raise_for_status(response)`: a value or an exception | called by the transport on every response |
| Transport, `_transport.py` | `_session`, `_owns_session`, `sid`, `_logged_in` | `_get_session`, `close`, `_post`, `request`, `request_long_timeout`, `router_reachable`, `login` (challenge, hash in a thread, get_sid) | aiohttp, the router |
| Client facade, `glinet.py` | `_firmware_version` | construction, `sid`, `login`, `close`, `_payload`, `_require_firmware_version` | transport; all route mixins |
| Tailscale, `_routes/tailscale.py` | none in the client; config and daemon on the router | start and stop workers with retries, config merge, queries | router |
| System, `_routes/system.py` | fills `_firmware_version` | `router_info`, getters, reboot | router |
| VPN, `_routes/vpn.py` | reads `_firmware_version` | WireGuard client calls routed by version, getters, OpenVPN and server calls | router |
| Firewall, services, wifi, clients: `_routes/*.py` | none in the client; the configuration on the router | setters that read before they write; getters | router |
| WAN, network, fan: `_routes/*.py` | none | getters; the setters of fan are one request each | router |

### What is hard here, and what being right means

*Interleaving and atomicity in the transport.* A task may call `close()` while
others send, wait, read or hash. `close()` empties the slot before it awaits the
closing, and a call that resumes afterwards materialises a new session. Right
means: an owned session that is open is the one in the slot, where a later
`close()` finds it; an injected session is never touched; a response is released
whatever ends the call, cancellation and broken bodies included; a login that
fails midway leaves the login of before alone; no raw timeout or lost connection
reaches a caller.

*An error reported in three places.* A response has a status, an `error` member
and an `err_code` inside its result, and two firmware errors share one code.
Right means: nothing reported as an error passes for data (beside a `result` an `error` does, which
is disagreement 4, and the property says exactly that much), authentication errors
are the router's own only (they make applications log in again), and replies
that keep to the envelope stay in the `APIClientError` hierarchy.

*Logging in again.* A session ends on the router without the client being told; the
next call is refused, the application logs in and repeats it, and several tasks do so
at once, each login replacing the `sid` of all. A refusal over a conflicting feature
has the code of a session that ended. Right means: a login is made only over a session
that has ended, a change is carried out as often as its call says, the cause of a
conflict is found, and no call goes round for ever.

*Read, await, write.* Most setters read a configuration, change a member and
write it back, with awaits in between and other tasks and clients on the same
router; requests and replies are lost. Right means: one call at a time is carried out
whole or not at all, whatever is lost, and its outcome does not lie; and a write under which nothing it relies on has changed does
what it was asked and nothing else. A write can also time out at the client and be carried
out at the router later, when its caller has gone on to something else; as long as
nothing it relies on has changed, it too must undo nothing that was written since.

*Retries against a daemon.* `tailscale_start` and `tailscale_stop` write, sleep,
look and recurse, while the daemon follows in its own time and another task may
pull the other way. Right means: the recursion is bounded, each call returns, none
gives up before it was told why or has made its last attempt, and an undisturbed call
that answers True has done what it says.

*A cache that nothing invalidates.* The firmware version decides which API is
used; it is fetched once, by any of several racing tasks, and the router may be
upgraded. Right means: without an upgrade it is never wrong, betas and odd version
strings included, and after one it heals with the first `router_info`.

*Envelopes that vary.* The same RPC answers a list or an object, with or without
its key, depending on firmware and on whether a subsystem is on. Right means: the
caller gets what the router held, or an error, and never an empty list made of one.

`PROJECT.json` lists these hazards one by one, at their lines, with the
properties that cover them.

## The modules

| module | models | its specification |
|---|---|---|
| `ErrorHandling` | `error_handling.py`: every branch of `raise_for_status`, as an operator from a class of responses to outcomes | - |
| `RaiseForStatus` | one response after another through that operator; the properties of error handling | `Spec` |
| `Transport` | `_transport.py` and the part of `glinet.py` that delegates to it | `Spec`, `FairSpec` |
| `SessionOwner` | the abstract promise of the session lifecycle, implemented by `Transport` | `Spec` |
| `Tailscale` | the workers, the config merge and the status queries of `_routes/tailscale.py`, and the router's daemon | `Spec`, `FairSpec` |
| `FirmwareVersion` | `_parse_firmware_version`, the order of versions, the choice of the API | - |
| `FirmwareRouting` | `router_info`, `router_mac`, `_require_firmware_version` and the three WireGuard calls over a router that is upgraded | `Spec` |
| `Settings` | the parts of a router's configuration, the calls of the setters, and what each is to do | - |
| `AtomicConfig` | the abstract promise of the setters, implemented by `RouterConfig` | `Spec` |
| `RouterConfig` | the six setters that read before they write (`led_set_enabled`, `network_acceleration_set`, `firewall_set_wan_access`, `firewall_set_dmz`, `wifi_iface_set_enabled`, `client_set_blocked`) and the five calls of one request (`flow_stats_set_enabled`, `flow_stats_clear`, `fan_set_threshold`, `fan_self_test`, `router_reboot`), with other clients, lost replies and late writes | `Spec` |
| `Reauthentication` | sessions that end, the login that replaces them, and the refusals of `network_acceleration_set` that are not about a session | `Spec`, `FairSpec` |
| `Routes` | the table of all reading routes, and how each unwraps its reply | - |
| `ReadRoutes` | those routes at work: payloads with session ids, logins, sessions that end, replies, `raise_for_status` | `Spec` |
| `ErrorHandlingLemmas`, and `<module>Proofs` for `RaiseForStatus`, `Transport`, `Tailscale`, `FirmwareRouting`, `RouterConfig`, `Reauthentication`, `ReadRoutes` | proofs | - |
| `MC*` | values of the constants for TLC | - |

`Transport`, `Reauthentication` and `ReadRoutes` (through `Routes`) extend
`ErrorHandling`, so that every response in them goes through the same
`raise_for_status`. Two refinements tie a detailed module to an abstract one:
`Transport` has `INSTANCE SessionOwner WITH lent <- ~owns, life <- life`,
`RouterConfig` has `INSTANCE AtomicConfig WITH shared <- ~alone, asked <- call`, `router`
and `out` being the variables of that name.

### How state and actions correspond to the code

**ErrorHandling.** A response is `[ok, body]`. A body is unreadable (`Unparsed`,
with the exception that reading it raises), something other than an object, an
object without either member, one with an `error`, with a `result`, or with both; a result
knows whether it is an object and carries `err_code` and whether its message is the
one of a feature conflict. `RaiseForRead`, `RaiseForResult`, `RaiseForError` and
`RaiseForCode` are the blocks of the function in their order. Texts are left out.

**Transport.** Variables are the attributes (`owns`, `slot`, `sid`, `loggedIn`), what
became of each aiohttp session (`life`), and for each task where it is suspended
(`pc`), in what (`op`), on which session (`on`), which tasks hold a response (`held`)
and how the last call ended (`out`). Actions are the code from await to await:
`Send` is `_post` up to `session.request`, with `GetSession` inside;
`ResponseArrives`; then `EndRequest`, `EndReachable`, `EndChallenge`, `EndGetSid`
read the body, release and act on the outcome; `StoreSid` stores what stands under `sid`, a null too; `HashDone` is the return from the
hashing thread and the next `Send`; `Close` and `CloseDone`; `Cancel` at any await.
`SetSid` is the setter of `GLinet.sid`, `CallerCloses` an application that closes a
session it supplied. `op` splits `login()` into its two requests.

**Tailscale.** `config` and `daemon` are the router's; per task `op`, the next
request `pc`, the recursion `depth`, the config `current` between read and write.
`StartReads`, `StartRechecks`, `StopReads` are the branches of the workers,
`GetConfig` and `SetConfig` the merge and the recursion behind its guard,
`RequestLost` and `ReplyLost` the two ways a request can fail. `DaemonMoves` is the
environment: the daemon takes any reported status when it is enabled, may linger in
any of them when it is not until it has gone down (`Down`: `[]`, or status 0), and may
never move. A request that fails does so with an error of the library, or with a builtin
that `raise_for_status` lets through (`TypeError` for all of them). `attempts`, `quiet`
and `told` are history: how often the config was sent, whether the call had the router to
itself, and which statuses this call has been told; the reasons for giving up are read
off `told`, so that they are what this call saw and not what some router may say.

**FirmwareRouting.** `cached` is `_firmware_version`. Answering a `get_info`
(`Answer`) and acting on it (`InfoReturns`) are two steps, so replies overtake each
other; routing follows at once, as in the code. `Serves` says which API a firmware
has, from the first two numbers of its version and not by the comparison under test. A
`firmware_version` may be missing, or no text (`NotText`, a TypeError in the parser).
`Upgrade` loses what is in flight. `refreshed` and `stale` are history.

**RouterConfig.** `router` is a record with a part per setter, each with the members
the route knows and, where a dict is passed through, a member `rest` it does not
know. `Begin` is a call up to its first request, with what is turned down before it
(`Declines`): a fan threshold out of range, and a DMZ to be enabled with `""` for a target,
which is told from None (`EmptyHost`, `NoHost`) since only None makes the route read the
target there is; `Read` and `Write` are the requests of a setter that
reads first, and `Write` the one of the others; `seen` keeps what the route carries
from one to the other; `Refused` is what it raises in between; the `*Payload`
operators are what it sends; `Applied` and `Rejected` what the router makes of it. A
write can be lost on its way (`RequestLost`), lose its reply (`ReplyLost`), or outlive
its call (`TimesOut` puts it into `late`, `Lands` carries it out); `Reboots` drops what
is late. `Settles` is a fan test that ends and statistics that fill. `Elsewhere` is any
other client of the router. `alone` is chosen once: an application that makes one call
at a time on a router nobody else changes, in which no write outlives its call.

**AtomicConfig.** What a caller may rely on: per task the call that was `asked` and its
`out`. A call that succeeds carries out *that* call, as its docstring has it (`Done` of
`Settings`), in the step that ends it; one whose request is lost has done so or nothing;
one that is refused nothing. On a shared router `Done` may fail, since what was read may
have changed, but a call still stays within its part and a refused one writes nothing.

**Reauthentication.** `sid` is the transport's, `live` the sessions the router knows.
Per task, `pc` is the request it waits for, `sent` the session id in its payload, and
`reply` the answer on its way, kept as what `raise_for_status` makes of it. Sending,
`Answer` and the return are three steps. `ReadDone`, `SetDone` are
`network_acceleration_set`; `LoginNeeded`, `LoginDone` the application that logs in over
an `AuthenticationError` and repeats what was refused; `ConflictMet`, `GetterDone` the
search for a cause among the getters that the docstring names; `GivesUp` every other
exception, `Lost` the transport giving up. `SessionEnds`, `SetSid` (an application that
assigns `sid`) and `FeatureSwitched` come from outside. `asked`, `shown`, `blame` and
`took` are history: what the getters said, what caused the refusal, how often the router
made the change.

**Routes, ReadRoutes.** A row of the tables of `Routes` names a route's RPC, whether
it returns the reply, a field of it, or has code of its own, and its annotated type.
A reply is a class of value with entries, and with a flag for a null or a number under
its key (`scalar`). `OddResponses` are the responses of a router that answers anything,
bodies outside the envelope included. `Begin` builds the payload with the `sid`
of the moment, `Answer` is the router's reply from what it holds then, `Resume`
passes it through `raise_for_status` and the route, `Lost` is the transport giving
up. `Meaning` says, from the docstrings, what a route should return for what the
router held.

### Abstractions

- A request is one atomic step at the router, except `get_info` (FirmwareRouting),
  the reads (ReadRoutes) and every request of `Reauthentication`, whose answer and
  return are separate. Writes that take effect after their caller has timed out are in
  `RouterConfig`; in `Tailscale` they are covered as far as `ReplyLost` goes: at the
  moment the call fails, not later.
- Lists are sets, so their order is not looked at. Payload contents and hashes are
  not modelled; a hash either comes out or fails.
- `ReadRoutes` has `login()` as one step and `Reauthentication` as one request, which
  yields a new session id or is refused; `Transport` has all of its steps.
- In `Reauthentication` a login leaves the other sessions of the router as they are, and
  a session id that nobody holds any more may be given out again, which keeps their
  number finite. The retry is the application's, as the exception classes tell it to
  (`error_handling.py` 34-52, 80-82); the library itself repeats nothing.
- `tailscale get_status` answers `[]` or a dict; a dict has any of the statuses of the
  enum, another value, or none, which counts as 0. An enabled tailscale may report any
  of them at any time, and a disabled one does not come up by itself.
- Access-list modes are black, white and absent. `set_single_mac` is taken to edit
  the list of the mode it is sent, which is what the tests record.
- The WAN dict has every toggle, as the documented reply does.

## The runs

Each is `tlc -config <cfg> <module>` in this directory. All of them check
deadlock, except over `RaiseForStatus`, which ends after its one response.

| run | cfg | distinct states | shows |
|---|---|---|---|
| `responses` | `MCRaiseForStatus` | 13 thousand | every class of response: no error passes for data, authentication errors are the router's, envelopes stay in the hierarchy |
| `transport` | `MCTransport` | 532 thousand | session lifecycle, connections, login state; implements `SessionOwner` |
| `transport_live` | `MCTransportLive` | 40 thousand | hierarchy under a router that keeps to its envelope; every call returns |
| `tailscale` | `MCTailscale` | 2.5 million | retries are counted by the depth and bounded, quiet calls merge and never assert, a quiet True is true; an error of a call's own has the reason the code gives for it |
| `tailscale_live` | `MCTailscaleLive` | 136 thousand | every call returns |
| `firmware_routing` | `MCFirmwareRouting` | 850 thousand | the cache follows the last answer; only stale calls are misrouted; a call gives up over its own reply |
| `config` | `MCRouterConfig` | 452 thousand | the setters implement `AtomicConfig`, outcomes included; undisturbed writes keep their promise under interleaving, other clients and late writes; refusals are justified |
| `reauthentication` | `MCReauthentication` | 311 thousand | logins replace ended sessions only; an outcome tells what became of the change; conflicts are explained; no call goes round for ever |
| `reads` | `MCReadRoutes` | 739 thousand | reads report what the router held; refusals; guarded routes add no exception of their own over any reply |
| `doc_every_failure` | `MCRaiseForStatusDoc` | violation | disagreement 1 |
| `doc_dmz_target` | `MCRouterConfigDocDmz` | violation | disagreement 2 |
| `doc_same_list` | `MCReadRoutesDoc` | violation | disagreement 3 |

### Bounds, and why they are enough

- *Tasks.* Three in `transport`, where a call can resume after another has closed the
  session and a third has opened the next. Two elsewhere, where tasks share state:
  every hazard listed is between one call and another, or between a call and the
  router. `reads` has one: a reading task shares nothing with another but `sid`, which
  `Login` changes under it anyway. The proofs are for any number.
- *Sessions.* Three in `transport`: one in the slot, one being closed, one created
  meanwhile. When they are used up no new one can be created: the tasks that need
  one stop, which bounds how often a session is reopened.
- *Session ids* two, so that overlapping logins get different ones.
- *Reauthentication.* Three session ids: one per task and one for the client. Two
  upsets, so that a session can end, or a feature be switched, once more while the
  application is dealing with the first time. One conflicting feature, the one whose
  getter was added last; that two features share the getter is in the proof only.
- *Codes.* One per branch of `raise_for_status`: -1, -32000, another negative one,
  and, in `reads`, one that is not negative.
- *Retry guard.* Two (one in `tailscale_live`) instead of ten: the guard is reached,
  and passed, in the same way; the depth is only ever compared with it.
- *Statuses.* In `tailscale` all but one of the two that mean a missing login, which
  the code treats alike, status 0 and an unknown one included. In `tailscale_live` those
  over which a worker goes on, and one over which both give up: the others end a call,
  as does a lost request in any state.
- *Versions.* Around 4.8.0: no, one, two, three and four numbers on either side of it
  (`Around`), any of them zero-padded, followed by nothing, a prerelease or rubbish.
  Two upgrades, so that one can be undone.
- *Configuration parts.* One or two are in use at a time (`Groups`), since a setter reads
  and writes one part: pairs show that a write leaves another part alone. Two DMZ
  targets, interfaces and clients each, one to change and one to keep, None and `""`; one toggle, beside
  which `rest` is kept. Temperatures 69, 70, 90 and 91, on both sides of both ends of
  the range. One write at a time lands late (`MaxLate`), under two tasks and another
  client.
- *Router contents* (`FourWorlds`): an empty router and three that together have
  every combination of online and blocked, groups with no, one and two peers, and the
  yes-or-no fact both ways. One change, two logins. A router that answers anything
  (`MCOddResponses`: every response whose body ends; of the errors beside a result, at
  which nothing looks, one) is met by a client that has logged in, and neither changes any more.
- Symmetry over tasks, and in `transport` over sessions and ids, in safety runs only.

### Fairness

`FairSpec` of `Transport` is weak fairness, per task, on the end of a POST, of the
hashing and of the closing of a session. The first is the total `ClientTimeout` every
request is given (`_transport.py` 43-50, 71-73), so a router that never answers is
allowed; the headers arriving is not fair. The others are a computation of bounded
length and aiohttp's own. `FairSpec` of `Tailscale` is weak fairness of each task's next
request, which ends by that timeout; the daemon has none. `FairSpec` of
`Reauthentication` is weak fairness, per task, of `Answer`, `Lost` or the return, taken
together: each request is answered or times out, and nothing makes the router answer,
or grant a login. Nothing is assumed of how often applications call. Cancellation is
possible at any time and never fair.

## The proofs

TLAPS checks these for every value of the constants, from the named assumptions
`CodesAssumption` (error codes are integers), `TransportAssumption` (the "none"
values are none of the others; there is a session; replies are responses; hashing
fails in the ways listed), `TailscaleAssumption` (the guard is a number, the statuses
are statuses, the "none" values none of the others), `VersionAssumption` and
`RoutingAssumption` (the same for versions, firmwares and replies), `ConfigAssumption`
(temperatures are integers, one of them in the range; the "none" values none of the
others; `rest` names no toggle), `ReauthenticationAssumption` (there is a session id; the
features are those the library knows; the codes include the three the router uses) and
`RoutesAssumption` (routes are those of the table; an interface is a name and a
password; the codes include the two of a refused session).

`ErrorHandlingLemmas`: what `raise_for_status` can yield for any response
(`StatusOutcome`) and the lemmas about its blocks. `RaiseForStatusProofs` derives the
four invariants of `RaiseForStatus`: `TypeCorrect`, `WellFormedInHierarchy`,
`AuthFailures`, `NoErrorPassesForData`. Its state is one response, so they follow by
cases from the lemmas. Two more theorems turn implications into equivalences:
`ExceptionsTellTheResponse` says for each exception which responses raise it, and
`OnlySurprisesEscape` over which responses a builtin leaves the hierarchy, which is the
exact extent of disagreement 1.

`TransportProofs`, for any number of tasks, sessions and ids and any set of replies:

- `TypeCorrect`. `PostedOutcome` is the lemma that bounds what a POST can end with.
- `NoSessionIsOrphaned` and `ImplementsSessionOwner` rest on the inductive invariant
  `SessionInv`. `NoOrphanSession` says nothing of a session the caller supplied, and so
  does not exclude that its slot is empty, in which case the next call would open a
  session of its own; the invariant adds that a supplied session never leaves the slot
  and is the only one there is. `SessionSteps` then says what a step can do: create, close,
  see a supplied session closed, or nothing, which is the step simulation.
- `ResponsesAreReleased`: the holders of a response are the tasks reading one.
- `ClosedByTheCaller`, `RawErrorsTranslated`, `HierarchyIsKept` rest on `EndsInv`: how
  each operation can end, given what it was. The code of `login()` re-raises according to
  the request it is in, so the invariant ties the end of a call to its operation;
  `HashingInv` adds that only a login is ever in the hashing thread.
- `ClosingCloses`: if the last call of every task was a `close()`, no owned session is
  open, from `SessionInv` and what a close leaves behind.
- `AuthIsChangedBySuccessOnly`: which steps, of any call and at any moment of it, may
  change the login state.
- `ImplementsSessionOwner`: initial states map to initial states and every step to a
  creation, a closing, a closing by the caller or a stutter of `SessionOwner`.
- `SessionHistories` is what the transport inherits from it over a whole run (`OwnerSteps`):
  no two sessions open at once, none reopened, each ended once, by the side that owns it.
- `EveryWaitHasAnEnd` and `CallsAreShort`: a suspended task waits for something that
  ends, and a call is at most five steps of its own from its end (`StepsLeft`), each of
  which brings it nearer while nothing another task does takes it back.

`TailscaleProofs`, for any number of tasks, any guard and any set of statuses:

- `TypeCorrect` and `RetriesAreBounded`. `TypeInv` adds to the types that a request is
  made by the calls that make it, and a config written back only after it was read.
  `AttemptsAreBounded` is inductive on top of it.
- `QuietTrueIsTrue`, `QuietNeverAsserts`, `QuietMerges` rest on `QuietInv`: a quiet call is
  alone, carries the present config from its read to its write, and sees a daemon that
  agrees with the config as far as it needs. None of the three is inductive without that:
  a start that finds the daemon connected ends True without a write, and is right only
  because an undisturbed daemon is not up unless it is enabled; a stop that finds `[]`
  ends True, and is right only because a daemon that had settled would show up if it were
  enabled. A stop that is told status 0 or an unknown status ends True without a look at
  the config; the property leaves that case open (disagreement 6).
- `QuietStopsLast`: a quiet stop that answers True and was told neither of these leaves
  the daemon down until somebody calls again.
- `EndsHaveTheirReasons` rests on `EndInv`: a call under way has no outcome yet, waits for
  a second status only after it was told connecting, and, if it is a start, has not been
  told connected. That a call gives up after MaxDepth + 1 writes comes from
  `RetriesAreBounded`, that a quiet one does not assert from `QuietInv`.
- `CallsAreShort`: three requests per depth (`RequestsLeft`) are left at most,
  3 * (MaxDepth + 1) in all, and each step of the call's own takes one away.

`FirmwareRoutingProofs`, for any number of tasks and upgrades, and version strings over
any numbers:

- `TypeCorrect`, with `Answered`: a reply not yet acted on is the present firmware's, since an
  upgrade loses what is in flight.
- `CacheIsCurrent` and `RoutedRight` rest on `CacheInv`: a cache filled since the last
  upgrade is the present firmware's, which has a version, and a call on its way that is
  not stale goes to an API this firmware has. The lemma `RoutedByItsNumbers` ties the comparison of versions in the code to
  the first two numbers of the string, prereleases of the boundary included.
- `GivesUpForItself`, a property of single steps.
- `RoutingIsMonotone`: a newer firmware is not routed back to the older API, prereleases
  included. `WithoutUpgradeNothingIsMisrouted` is `RoutedRight` while `upgrades` is 0, when no call
  can be stale.

`RouterConfigProofs`, for any number of tasks, late writes and groups, and any toggles,
hosts, interfaces and clients:

- One lemma per kind of part (`LedPromise`, `WanPromise`, ...) says that its write
  leaves a configuration, and does what the call is to do if what the route relied on
  still holds; `WritesKeepTheirPromise` puts them together.
- All theorems rest on `ConfigInv`: every write on its way, waited for or not, is
  one that its route would make of something it may have read, and a call that is alone
  has seen what is still there. The last part is what makes `SettersAreAtomic` go
  through: the lemma `CarriesOut` says that the write of a task carries out the call
  *that* task was asked, `Ends` that it ends as `AtomicConfig` has it, and everything else
  is a stutter, the router's own doing, or another client's.
- `UndisturbedWritesDo` and `RefusalsJustified` are properties of single steps, from
  the lemmas and `ConfigInv`. The second has one exception, a DMZ to be enabled with `""`
  for a target, and so says the exact extent of disagreement 2.
- `HarmIsConfined` says what is left of the promise for a write that *was* disturbed, by
  anything: what the call asked for is there (`Asked`), and beyond it only members that
  the route carries along fall back to what was read. `WritesAreApplied` and
  `LateWritesAreApplied` say where a change of the router comes from.

`ReauthenticationProofs`, for any number of tasks, session ids, upsets and features:

- The lemmas about answers say what `raise_for_status` makes of each answer of the
  router, by code and by message; they keep conflicts and ended sessions apart.
- `CallInv` ties an answer on its way to the request it answers (`Answered`): a refusal
  for want of a session means that the id in the payload names none, and will not again
  while anybody holds it; a result of the setter means the router made the change. It
  adds what a call that met a conflict knows: each cause that is still on, and that a
  getter already asked could show, was shown. `LoginsAreNeeded`, `OutcomeIsTrue` and
  `ConflictsExplained` follow; none is inductive without it.
- `LoginsAreBounded` is about `CountedSpec`: `Spec` with a history variable, `logins`, that
  counts the logins of each call and restrains no step. The bound, one more than the
  upsets so far, is not inductive: two tasks that log in at once replace the `sid` under
  each other. `LoginInv` adds the logins that a call may still need without another
  upset (`Debt`): one if the `sid` or the id in its payload is not `Clean`, and one for
  each grant on its way to some task whose session has ended already. Grants are
  sessions of their own, so an upset adds one to the debt, a refused call pays one, and
  a grant that arrives dead moves its one from the grants to those it exposes.
- `CallsRunOutOfSteps` builds on it: a login is worth 13 steps, more than the six
  requests it can put before the call, so `StepsLeft` decreases with each step of the
  call's own and is at most 13 * (2 + MaxUpsets). `AskingInv` (no getter is asked twice)
  is what makes the search for a cause count down.

`ReadRoutesProofs`, for any routes of the table, contents of the router, tasks, logins
and changes:

- One lemma per table of `Routes` says what its rows have in common with their names
  (how a route reads, what it asks for); `Rows` puts them together.
- `DocumentedMeaning`: from each of the answers that docs and tests show for it, a route
  gets what its docstring promises (`Meaning`), by kinds of envelope: plain values and
  fields, facts, lists that come bare or wrapped, interfaces, clients. `RefusalRaises`
  and `ReadType` bound what it gets from anything else.
- `ReadInv` says that an answer on its way is documented for its route and for what
  the router held when it answered, or a refusal, which for want of a session means
  that the session the call began under has ended. `ReadsReport`, `RefusalsNeedAnEnd`
  and `GuardedReads` follow.
- `DeparturesAreConfined` covers `wireguard_client_list` as well (`FlattenMeaning`): it
  flattens the groups the router held, or raises KeyError, and then the router has no
  groups. That is the exact extent of disagreement 3.

Only model-checked: liveness (`EveryCallReturns` of `Transport` and of `Tailscale`,
`CallsComeToAnEnd` of `Reauthentication`), which is out of the prover's reach, as is
ENABLED. Their safety halves are proved, though: `CallsAreShort` (of both) and
`CallsRunOutOfSteps` give each call a number that its own steps decrease and no other
step changes, for any number of tasks, so that what is left to fairness is only that a
call under way takes its next step. Every safety property the runs check is proved as
well. No module declares a RECURSIVE operator.

## Disagreements between the code and its documentation

Three have a run that exhibits them:

1. `error_handling.py:96`, "Every failure path raises an APIClientError subclass". A
   body that is null or a number, an `error` that is no object, a code that is no
   number or a message that is no text end in TypeError or AttributeError, and what the
   second reading of the body raises (line 109) passes as it is. (`doc_every_failure`)
2. `_routes/firewall.py:69-70`, "none was given and the router reports no current
   dmz_ip": lines 65-67 read the router's `dmz_ip` only when `dest_ip` is None, and refuse
   `""` without having asked, while the router does report one. (`doc_dmz_target`)
3. `_routes/vpn.py:287-288`: `wireguard_client_configs` and `wireguard_client_list` are
   two views of one reply. Without `config_list` the first answers `[]` (line 300), the
   second raises KeyError (line 52). (`doc_same_list`)

Others were met while modelling. The steps that lead to them are steps of the
specifications, though no run singles them out:

4. `error_handling.py:100-102`, "a JSON-RPC error code raises ...": not when the body has a
   `result` as well, which line 116 looks for first (`RaiseForEnvelope`).
   `ErrorsNeverPassForData` says that this is the only way.
5. `_transport.py:297`, `logged_in` is "whether a successful login has stored a session
   id": a `sid` that is null is stored and counts (lines 275-277, `StoreSid`). And
   `glinet.py:102`, "whether the client has a valid session": assigning `sid` leaves the
   flag as it was (`SetSid`), as does a session that ends on the router.
6. `_routes/tailscale.py:171`, "Stop tailscale, retrying until disconnected": a status
   that the enum does not have ends in `return True` (line 202) with nothing written
   (`StopReads`), where `tailscale_start` raises over it.
7. `_routes/tailscale.py:129-131`, UnexpectedResponse is for statuses outside the enum: it
   is raised for DISCONNECTED, and for a dict without a status, too (`StartReads`).
8. `_transport.py:151`, "Every raising path stays inside the APIClientError hierarchy": a
   session supplied and closed by the caller raises RuntimeError (`Send`).
9. `_transport.py:212`, login "store[s] the session id": a reply without `sid` is passed
   over in line 275 and `login()` returns (`EndGetSid`).
10. `_routes/tailscale.py:139`, "attempted to connect 10 times": `depth > 10` from a depth
    of 0 writes the config 11 times; `AttemptsAreBounded` has the exact bound.
11. `_routes/tailscale.py:126-127`, RetryExhausted "if still not connected after the wait":
    switched off meanwhile, the assertion in line 154 fails instead (`StartRechecks`).
12. `_routes/wan.py:28`, `ping` is "True if reachable": a null or a number under
    `ping_result` is a TypeError in line 38 (`ping` of `Routes`); `GuardedReadsSurvive`
    leaves `ping` out for that reason.
13. `_routes/tailscale.py:52`, `_routes/firewall.py:53-55` and `86-88`: what "is merged",
    "preserved" or "left unchanged" is what was read one await earlier; what another
    task wrote in between is undone. `QuietWritesMerge` and `Undisturbed` say exactly
    how much may change without harm, and `HarmIsConfined`, of the setters in `RouterConfig`,
    that no more than this is lost.

## What is not modelled

- `_types.py`, `__init__.py` and the exports: declarations.
- Texts of messages, the catalogue of error descriptions, logging, payload contents.
- Tests, stubs, docs and build files: evidence of what the router sends.

## The plan

Done, in this order: error handling, transport and its proofs, tailscale, firmware
routing, configuration setters, reading routes; then late writes and the calls of one
request in `RouterConfig`, re-authentication and feature conflicts, three tasks in
`transport`, and the proofs of `RouterConfig`, `Reauthentication` and `ReadRoutes`; then
the reasons of the ends in `Tailscale`, and the theorems beyond what the runs check: the
bounds behind the liveness properties, the extent of the harm of a disturbed write, and
the exact extent of disagreements 1 to 4; then `AtomicConfig` with the outcome of each
call, the reasons of tailscale calls from what they were told, and replies outside the
envelope in `ReadRoutes`. Left:

1. `ReadRoutes` and `Reauthentication` over `Transport`, so that a login has all of its
   steps under reads and retries, and two logins can overlap in them.
2. Late effects in `Tailscale`: a config write that lands after `_tailscale_start` has
   given up.
3. Two undisturbed calls of interleaving tasks that set different things, as a
   refinement of the two done one after the other.
4. The envelope of `flow_stats_top_apps` as a consequence of `flow_stats_set_enabled`:
   the two are in `ReadRoutes` and `RouterConfig` now, each with the other left to chance.
