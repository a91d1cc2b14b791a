----------------------------- MODULE ReadRoutes ------------------------------
(***************************************************************************)
(* The reading routes at work: tasks of one client send their RPCs to a    *)
(* router that changes, ends sessions and loses replies, and raise_for_status *)
(* and the route (Routes) make a value or an exception of what comes back. *)
(*                                                                         *)
(* The payload, with the session id in it, is built when the call begins;  *)
(* the reply is the router's at some later moment and is acted on later    *)
(* still.  A request that fails in the transport is Lost; a login is one   *)
(* step here, Transport has all of its steps.                              *)
(***************************************************************************)
EXTENDS Routes

CONSTANTS
    Tasks,          \* the tasks calling the routes
    RoutesCalled,   \* the routes they call
    Worlds,         \* what the router may hold
    OddResponses,   \* the responses of a router whose replies are of any shape
    MaxLogins,      \* bounds the sessions opened
    MaxChanges      \* bounds how often the router's contents change

\* What a router holds: a fact asked for by yes-or-no routes and by those whose
\* envelope depends on it (the address answers, an upstream router is there, a
\* tailscale login is pending, the subsystem is enabled), its clients, its
\* WireGuard groups, its wifi interfaces, and what any other list holds.
IsWorld(w) ==
    /\ w.on \in BOOLEAN
    /\ \A c, d \in w.clients : c.mac = d.mac => c = d
    /\ \A i \in w.ifaces : i = [name |-> i.name, key |-> Secret]

\* A body that ends in time and is not cut off; one that is not is Lost.
Readable(response) == response.body.kind \notin {"read_timeout", "read_broken"}

\* A session id the router does not know, and a password it does not accept.
RefusalCodes == {-1, -32000}

ASSUME RoutesAssumption ==
    /\ RefusalCodes \subseteq Codes
    /\ RoutesCalled \subseteq DOMAIN Reads
    /\ \A w \in Worlds : IsWorld(w)
    /\ OddResponses \subseteq {r \in Responses : Readable(r)}
    /\ MaxLogins \in Nat \ {0}
    /\ MaxChanges \in Nat
    /\ Secret # Redacted

VARIABLES
    documented, \* whether the router answers with the shapes docs and tests show
    world,      \* what the router holds
    changes,    \* how often that changed
    live,       \* the sessions the router honours
    sid,        \* the session id the client holds, 0 for None
    call,       \* the route each task is in, or was in last
    pc,         \* where it is suspended
    carried,    \* the session id in its payload
    answer,     \* the response it is about to read
    told,       \* what the router held when it answered
    under,      \* the session it began under, 0 once that ended
    out         \* what its caller got

routerVars == <<documented, world, changes, live>>
taskVars == <<call, pc, carried, answer, told, under, out>>
vars == <<routerVars, sid, taskVars>>

Sessions == 1 .. MaxLogins
NoRoute == "none"
Nothing == Got("nothing", {})

Result(value) ==
    [ok |-> TRUE,
     body |-> [kind |-> "result",
               result |-> IF value \in DictValues
                          THEN [value |-> value, err_code |-> 0, conflict |-> FALSE]
                          ELSE [value |-> value]]]

Error(code) ==
    [ok |-> TRUE,
     body |-> [kind |-> "error",
               error |-> [shape |-> "object", code |-> code, message |-> "plain"]]]

NoAnswer == [response |-> Result("null"), entries |-> {}, scalar |-> FALSE]

TypeOK ==
    /\ documented \in BOOLEAN
    /\ world \in Worlds /\ \A t \in Tasks : told[t] \in Worlds
    /\ changes \in 0 .. MaxChanges
    /\ live \subseteq Sessions /\ sid \in Sessions \cup {0}
    /\ call \in [Tasks -> RoutesCalled \cup {NoRoute}]
    /\ pc \in [Tasks -> {"idle", "sent", "answered"}]
    /\ carried \in [Tasks -> Sessions \cup {0}]
    /\ under \in [Tasks -> live \cup {0}]
    /\ \A t \in Tasks : answer[t].response \in Responses
    /\ \A t \in Tasks : out[t].type \in
          Types \cup Exceptions \cup {"KeyError", "nothing"}

\* Bound: a router whose replies are of any shape is met by a client that is
\* logged in, and neither changes any more.
Init ==
    /\ world \in Worlds
    /\ \/ documented = TRUE /\ changes = 0 /\ live = {} /\ sid = 0
       \/ documented = FALSE /\ changes = MaxChanges /\ live = {MaxLogins} /\ sid = MaxLogins
    /\ call = [t \in Tasks |-> NoRoute]
    /\ pc = [t \in Tasks |-> "idle"]
    /\ carried = [t \in Tasks |-> 0]
    /\ answer = [t \in Tasks |-> NoAnswer]
    /\ told = [t \in Tasks |-> world]
    /\ under = [t \in Tasks |-> 0]
    /\ out = [t \in Tasks |-> Nothing]

-----------------------------------------------------------------------------
(* The router (external). *)

Held(route, w) ==
    LET rpc == Reads[route].rpc
    IN  CASE rpc = <<"clients", "get_list">> -> w.clients
          [] rpc = <<"wg-client", "get_all_config_list">> -> w.groups
          [] rpc \in {<<"wifi", "get_config">>, <<"system", "get_status">>} -> w.ifaces
          [] OTHER -> w.items

Reply(value, entries) == [response |-> Result(value), entries |-> entries, scalar |-> FALSE]
Refusal(code) == [response |-> Error(code), entries |-> {}, scalar |-> FALSE]

\* A list on its own.
Bare(entries) == Reply(IF entries = {} THEN "empty_list" ELSE "list", entries)

\* An object that holds the key, or may be without it when there is nothing.
Keyed(entries) ==
    {Reply("other", entries)} \cup IF entries = {} THEN {Reply("empty", {})} ELSE {}

Fact(w) == IF w.on THEN {"yes"} ELSE {}

\* The replies docstrings and tests show for a route, from a router that holds w.
Documented(route, w) ==
    LET held == Held(route, w)
    IN  CASE route = "ping" -> {Reply("other", Fact(w)), Bare(Fact(w))}
          [] route = "wan_upstream_router_detected" ->
                Keyed(Fact(w)) \cup IF w.on THEN {} ELSE {Bare({})}
          [] route = "tailscale_auth_url" ->
                IF w.on THEN Keyed(Fact(w)) ELSE {Reply("empty", {}), Bare({})}
          [] route \in {"tailscale_exit_node_list", "flow_stats_top_apps"} ->
                IF w.on THEN Keyed(held) ELSE {Bare(held)}
          [] Reads[route].rpc = <<"clients", "get_list">> -> {Reply("other", held)}
          [] Reads[route].reads = "whole" ->
                IF Reads[route].type = "list" THEN {Bare(held)} ELSE {Reply("other", held)}
          [] OTHER -> Keyed(held)

\* Any reply, in the JSON-RPC envelope or not.
AnyReply(route, w) ==
    [response: OddResponses, entries: {{}, Held(route, w)}, scalar: BOOLEAN]

Answers(t) ==
    IF carried[t] \notin live THEN {Refusal(code) : code \in RefusalCodes}
    ELSE IF documented
         THEN Documented(call[t], world)
                 \cup {Refusal(code) : code \in {c \in Codes \ RefusalCodes : c < 0}}
         ELSE AnyReply(call[t], world)

Answer(t) ==
    /\ pc[t] = "sent"
    /\ pc' = [pc EXCEPT ![t] = "answered"]
    /\ \E a \in Answers(t) : answer' = [answer EXCEPT ![t] = a]
    /\ told' = [told EXCEPT ![t] = world]
    /\ UNCHANGED <<routerVars, sid, call, carried, under, out>>

Change ==
    /\ changes < MaxChanges
    /\ changes' = changes + 1
    /\ world' \in Worlds \ {world}
    /\ UNCHANGED <<documented, live, sid, taskVars>>

\* A session times out, or all of them end as the router reboots.
EndSessions ==
    /\ \E ended \in {{s} : s \in live} \cup {live} :
          /\ ended # {}
          /\ live' = live \ ended
          /\ under' = [t \in Tasks |-> IF under[t] \in ended THEN 0 ELSE under[t]]
    /\ UNCHANGED <<documented, world, changes, sid, call, pc, carried, answer, told, out>>

-----------------------------------------------------------------------------
(* The client. *)

\* login: the router opens a session, whose id the client holds from now on.
Login ==
    /\ sid < MaxLogins
    /\ sid' = sid + 1
    /\ live' = live \cup {sid + 1}
    /\ UNCHANGED <<documented, world, changes, taskVars>>

\* Mutation: the session id of the first login goes into every payload.
PayloadOfFirst(t) == carried' = [carried EXCEPT ![t] = IF sid = 0 THEN 0 ELSE 1]

Payload(t) == carried' = [carried EXCEPT ![t] = sid]

Begin(t) ==
    /\ pc[t] = "idle"
    /\ \E route \in RoutesCalled : call' = [call EXCEPT ![t] = route]
    /\ Payload(t)
    /\ pc' = [pc EXCEPT ![t] = "sent"]
    /\ under' = [under EXCEPT ![t] = IF sid \in live THEN sid ELSE 0]
    /\ out' = [out EXCEPT ![t] = Nothing]
    /\ UNCHANGED <<routerVars, sid, answer, told>>

End(t, got) ==
    /\ pc' = [pc EXCEPT ![t] = "idle"]
    /\ answer' = [answer EXCEPT ![t] = NoAnswer]
    /\ out' = [out EXCEPT ![t] = got]
    /\ UNCHANGED <<routerVars, sid, call, carried, told, under>>

\* Mutation: the caller gets the reply without the route having read it.
HandOn(t) ==
    /\ pc[t] = "answered"
    /\ End(t, Got(raise_for_status(answer[t].response).is, answer[t].entries))

\* The response is turned into a value by raise_for_status and read by the route.
Resume(t) ==
    /\ pc[t] = "answered"
    /\ LET outcome == raise_for_status(answer[t].response)
       IN  End(t, IF outcome.kind = "raise" THEN Raised(outcome.is)
                  ELSE Read(call[t], [value |-> outcome.is, entries |-> answer[t].entries,
                                      scalar |-> answer[t].scalar]))

\* The transport gives up: a timeout, a broken connection, an unreadable body.
Lost(t) ==
    /\ pc[t] \in {"sent", "answered"}
    /\ End(t, Raised("UnsuccessfulRequest"))

Next ==
    \/ Login
    \/ Change
    \/ EndSessions
    \/ \E t \in Tasks : Begin(t) \/ Answer(t) \/ Resume(t) \/ Lost(t)

Spec == Init /\ [][Next]_vars

-----------------------------------------------------------------------------
(* What a route means, from its docstring, whatever the shape of the reply. *)

Meaning(route, w) ==
    CASE route \in {"ping", "wan_upstream_router_detected"} -> Got("bool", Fact(w))
      [] route = "tailscale_auth_url" ->
            IF w.on THEN Got("str", Fact(w)) ELSE Got("None", {})
      [] route \in {"router_status", "wifi_ifaces"} ->
            Got("dict", {[name |-> i.name, key |-> Redacted] : i \in w.ifaces})
      [] route = "wifi_ifaces_showing" -> Got("dict", w.ifaces)
      [] route = "clients_list" -> Got("dict", w.clients)
      [] route = "connected_clients" -> Got("dict", {c \in w.clients : c.online})
      [] route = "blocked_client_macs" ->
            Got("set", {m \in {c.mac : c \in w.clients} :
                           \E c \in w.clients : c.mac = m /\ c.blocked})
      [] route = "wireguard_client_configs" -> Got("list", w.groups)
      [] route = "wireguard_client_list" ->
            Got("list", UNION {[group: {g.group}, peer: g.peers] : g \in w.groups})
      [] OTHER -> Got(Reads[route].type, w.items)

\* What the caller of t got is what the router held when it answered, in the
\* annotated type, or an error of the library.
Reported(t) ==
    out[t] # Nothing =>
        \/ out[t].type \in APIClientErrors
        \/ out[t] = Meaning(call[t], told[t])

\* Whichever of its documented envelopes the firmware answers in, and however the
\* router changes meanwhile, a read gives its caller what the router held when it
\* answered or an error of the library: never an empty list or a False made of an
\* error, a key that should be redacted, or a builtin exception.  All routes but
\* wireguard_client_list do.
ReadsReportTheRouter ==
    documented => \A t \in Tasks : call[t] # "wireguard_client_list" => Reported(t)

\* wireguard_client_list flattens the config_list of the RPC that
\* wireguard_client_configs returns (vpn.py:287-288), for which a reply without
\* it is an empty list (vpn.py:300): it raises KeyError over that reply.
FlattensTheSameList ==
    documented => \A t \in Tasks : call[t] = "wireguard_client_list" => Reported(t)

\* A read begun under a session is refused for want of one only if that session
\* has ended since, however often the client logged in meanwhile.
RefusedOnlyWithoutSession ==
    documented =>
        \A t \in Tasks : out[t].type \in AuthenticationErrors => under[t] = 0

\* The routes that return the reply as it is or ask first what it is (the upstream
\* probe, the login URL, the two lists that come bare or wrapped).  ping asks too,
\* but not what is under its key (wan.py:37-38).
GuardedRoutes ==
    {route \in DOMAIN Reads : Reads[route].reads = "whole"}
        \cup {"wan_upstream_router_detected", "tailscale_auth_url",
              "tailscale_exit_node_list", "flow_stats_top_apps"}

\* Whatever the router replies, a null body, an undecodable one or a null under the
\* key among it, a guarded route has nothing to add to what raise_for_status makes of
\* it: it ends in an exception that is none of the library's only if raise_for_status
\* raised that one, over a reply outside the JSON-RPC envelope.
GuardedReadsSurvive ==
    [][\A t \in Tasks :
          /\ pc[t] = "answered" /\ pc'[t] = "idle"
          /\ call[t] \in GuardedRoutes
          /\ out'[t].type \notin Types \cup APIClientErrors
          => /\ raise_for_status(answer[t].response) = Raise(out'[t].type)
             /\ ~WellFormed(answer[t].response)]_vars
=============================================================================
