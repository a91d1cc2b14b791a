-------------------------- MODULE ReadRoutesProofs ---------------------------
(***************************************************************************)
(* The reading routes, for any number of tasks, any contents of the router *)
(* and any number of logins and changes.                                   *)
(***************************************************************************)
EXTENDS ReadRoutes, ErrorHandlingLemmas

(* The tables of Routes. *)

OwnRoutes ==
    {"ping", "wan_upstream_router_detected", "tailscale_auth_url",
     "tailscale_exit_node_list", "flow_stats_top_apps", "router_status", "wifi_ifaces",
     "wifi_ifaces_showing", "connected_clients", "blocked_client_macs",
     "wireguard_client_list"}

ClientRoutes == {"clients_list", "connected_clients", "blocked_client_macs"}
GroupRoutes == {"wireguard_client_configs", "wireguard_client_list"}
IfaceRoutes == {"router_status", "wifi_ifaces", "wifi_ifaces_showing"}

\* What is said of a route by its name is said of it by its row: how it reads,
RowReads(route, row) ==
    /\ row.type \in Types
    /\ IF route \in OwnRoutes THEN row.reads = "own" ELSE row.reads \in {"whole", "field"}
    /\ row.reads = "whole" => row.type \in {"dict", "list"}
    /\ route = "clients_list" => row.reads = "whole" /\ row.type = "dict"
    /\ route = "wireguard_client_configs" => row.reads = "field" /\ row.type = "list"
    /\ route \in {"tailscale_exit_node_list", "flow_stats_top_apps"} => row.type = "list"

\* and what it asks for.
RowAsks(route, row) ==
    /\ row.rpc = <<"clients", "get_list">> <=> route \in ClientRoutes
    /\ row.rpc = <<"wg-client", "get_all_config_list">> <=> route \in GroupRoutes
    /\ row.rpc \in {<<"wifi", "get_config">>, <<"system", "get_status">>}
          <=> route \in IfaceRoutes

LEMMA SystemRows ==
    ASSUME NEW route \in DOMAIN SystemReads
    PROVE  RowReads(route, SystemReads[route]) /\ RowAsks(route, SystemReads[route])
  <1>1. RowReads(route, SystemReads[route])
    BY DEF RowReads, SystemReads, Whole, Field, Own, Types, OwnRoutes
  <1>2. RowAsks(route, SystemReads[route])
    BY DEF RowAsks, SystemReads, Whole, Field, Own, ClientRoutes, GroupRoutes, IfaceRoutes
  <1> QED
    BY <1>1, <1>2

LEMMA WifiRows ==
    ASSUME NEW route \in DOMAIN WifiReads
    PROVE  RowReads(route, WifiReads[route]) /\ RowAsks(route, WifiReads[route])
  <1>1. RowReads(route, WifiReads[route])
    BY DEF RowReads, WifiReads, Whole, Field, Own, Types, OwnRoutes
  <1>2. RowAsks(route, WifiReads[route])
    BY DEF RowAsks, WifiReads, Whole, Field, Own, ClientRoutes, GroupRoutes, IfaceRoutes
  <1> QED
    BY <1>1, <1>2

LEMMA WanRows ==
    ASSUME NEW route \in DOMAIN WanReads
    PROVE  RowReads(route, WanReads[route]) /\ RowAsks(route, WanReads[route])
  <1>1. RowReads(route, WanReads[route])
    BY DEF RowReads, WanReads, Whole, Field, Own, Types, OwnRoutes
  <1>2. RowAsks(route, WanReads[route])
    BY DEF RowAsks, WanReads, Whole, Field, Own, ClientRoutes, GroupRoutes, IfaceRoutes
  <1> QED
    BY <1>1, <1>2

LEMMA ClientsRows ==
    ASSUME NEW route \in DOMAIN ClientsReads
    PROVE  RowReads(route, ClientsReads[route]) /\ RowAsks(route, ClientsReads[route])
  <1>1. RowReads(route, ClientsReads[route])
    BY DEF RowReads, ClientsReads, Whole, Field, Own, Types, OwnRoutes
  <1>2. RowAsks(route, ClientsReads[route])
    BY DEF RowAsks, ClientsReads, Whole, Field, Own, ClientRoutes, GroupRoutes, IfaceRoutes
  <1> QED
    BY <1>1, <1>2

LEMMA OpenVpnRows ==
    ASSUME NEW route \in DOMAIN OpenVpnReads
    PROVE  RowReads(route, OpenVpnReads[route]) /\ RowAsks(route, OpenVpnReads[route])
  <1>1. RowReads(route, OpenVpnReads[route])
    BY DEF RowReads, OpenVpnReads, Whole, Field, Own, Types, OwnRoutes
  <1>2. RowAsks(route, OpenVpnReads[route])
    BY DEF RowAsks, OpenVpnReads, Whole, Field, Own, ClientRoutes, GroupRoutes, IfaceRoutes
  <1> QED
    BY <1>1, <1>2

LEMMA WireguardRows ==
    ASSUME NEW route \in DOMAIN WireguardReads
    PROVE  RowReads(route, WireguardReads[route]) /\ RowAsks(route, WireguardReads[route])
  <1>1. RowReads(route, WireguardReads[route])
    BY DEF RowReads, WireguardReads, Whole, Field, Own, Types, OwnRoutes
  <1>2. RowAsks(route, WireguardReads[route])
    BY DEF RowAsks, WireguardReads, Whole, Field, Own, ClientRoutes, GroupRoutes, IfaceRoutes
  <1> QED
    BY <1>1, <1>2

LEMMA WireguardClientRows ==
    ASSUME NEW route \in DOMAIN WireguardClientReads
    PROVE  RowReads(route, WireguardClientReads[route]) /\ RowAsks(route, WireguardClientReads[route])
  <1>1. RowReads(route, WireguardClientReads[route])
    BY DEF RowReads, WireguardClientReads, Whole, Field, Own, Types, OwnRoutes
  <1>2. RowAsks(route, WireguardClientReads[route])
    BY DEF RowAsks, WireguardClientReads, Whole, Field, Own, ClientRoutes, GroupRoutes, IfaceRoutes
  <1> QED
    BY <1>1, <1>2

LEMMA TailscaleRows ==
    ASSUME NEW route \in DOMAIN TailscaleReads
    PROVE  RowReads(route, TailscaleReads[route]) /\ RowAsks(route, TailscaleReads[route])
  <1>1. RowReads(route, TailscaleReads[route])
    BY DEF RowReads, TailscaleReads, Whole, Field, Own, Types, OwnRoutes
  <1>2. RowAsks(route, TailscaleReads[route])
    BY DEF RowAsks, TailscaleReads, Whole, Field, Own, ClientRoutes, GroupRoutes, IfaceRoutes
  <1> QED
    BY <1>1, <1>2

LEMMA FlowStatsRows ==
    ASSUME NEW route \in DOMAIN FlowStatsReads
    PROVE  RowReads(route, FlowStatsReads[route]) /\ RowAsks(route, FlowStatsReads[route])
  <1>1. RowReads(route, FlowStatsReads[route])
    BY DEF RowReads, FlowStatsReads, Whole, Field, Own, Types, OwnRoutes
  <1>2. RowAsks(route, FlowStatsReads[route])
    BY DEF RowAsks, FlowStatsReads, Whole, Field, Own, ClientRoutes, GroupRoutes, IfaceRoutes
  <1> QED
    BY <1>1, <1>2

LEMMA ServicesRows ==
    ASSUME NEW route \in DOMAIN ServicesReads
    PROVE  RowReads(route, ServicesReads[route]) /\ RowAsks(route, ServicesReads[route])
  <1>1. RowReads(route, ServicesReads[route])
    BY DEF RowReads, ServicesReads, Whole, Field, Own, Types, OwnRoutes
  <1>2. RowAsks(route, ServicesReads[route])
    BY DEF RowAsks, ServicesReads, Whole, Field, Own, ClientRoutes, GroupRoutes, IfaceRoutes
  <1> QED
    BY <1>1, <1>2

LEMMA FirewallRows ==
    ASSUME NEW route \in DOMAIN FirewallReads
    PROVE  RowReads(route, FirewallReads[route]) /\ RowAsks(route, FirewallReads[route])
  <1>1. RowReads(route, FirewallReads[route])
    BY DEF RowReads, FirewallReads, Whole, Field, Own, Types, OwnRoutes
  <1>2. RowAsks(route, FirewallReads[route])
    BY DEF RowAsks, FirewallReads, Whole, Field, Own, ClientRoutes, GroupRoutes, IfaceRoutes
  <1> QED
    BY <1>1, <1>2

LEMMA DnsLanRows ==
    ASSUME NEW route \in DOMAIN DnsLanReads
    PROVE  RowReads(route, DnsLanReads[route]) /\ RowAsks(route, DnsLanReads[route])
  <1>1. RowReads(route, DnsLanReads[route])
    BY DEF RowReads, DnsLanReads, Whole, Field, Own, Types, OwnRoutes
  <1>2. RowAsks(route, DnsLanReads[route])
    BY DEF RowAsks, DnsLanReads, Whole, Field, Own, ClientRoutes, GroupRoutes, IfaceRoutes
  <1> QED
    BY <1>1, <1>2

LEMMA RepeaterQosRows ==
    ASSUME NEW route \in DOMAIN RepeaterQosReads
    PROVE  RowReads(route, RepeaterQosReads[route]) /\ RowAsks(route, RepeaterQosReads[route])
  <1>1. RowReads(route, RepeaterQosReads[route])
    BY DEF RowReads, RepeaterQosReads, Whole, Field, Own, Types, OwnRoutes
  <1>2. RowAsks(route, RepeaterQosReads[route])
    BY DEF RowAsks, RepeaterQosReads, Whole, Field, Own, ClientRoutes, GroupRoutes, IfaceRoutes
  <1> QED
    BY <1>1, <1>2

LEMMA FanRows ==
    ASSUME NEW route \in DOMAIN FanReads
    PROVE  RowReads(route, FanReads[route]) /\ RowAsks(route, FanReads[route])
  <1>1. RowReads(route, FanReads[route])
    BY DEF RowReads, FanReads, Whole, Field, Own, Types, OwnRoutes
  <1>2. RowAsks(route, FanReads[route])
    BY DEF RowAsks, FanReads, Whole, Field, Own, ClientRoutes, GroupRoutes, IfaceRoutes
  <1> QED
    BY <1>1, <1>2

\* Every route has the row of the one table that names it.
LEMMA Rows ==
    ASSUME NEW route \in DOMAIN Reads
    PROVE  RowReads(route, Reads[route]) /\ RowAsks(route, Reads[route])
  <1>1. PICK table \in Tables : route \in DOMAIN table /\ Reads[route] = table[route]
    <2>1. \E table \in Tables : route \in DOMAIN table
      BY DEF Reads
    <2> DEFINE table == CHOOSE table \in Tables : route \in DOMAIN table
    <2>2. table \in Tables /\ route \in DOMAIN table
      BY <2>1
    <2>3. Reads[route] = table[route]
      BY DEF Reads
    <2> QED
      BY <2>2, <2>3
  <1> QED
    BY <1>1, SystemRows, WifiRows, WanRows, ClientsRows, OpenVpnRows, WireguardRows,
       WireguardClientRows, TailscaleRows, FlowStatsRows, ServicesRows, FirewallRows,
       DnsLanRows, RepeaterQosRows, FanRows
    DEF Tables

-----------------------------------------------------------------------------
(* What raise_for_status and the route make of an answer. *)

Gets(route, a) ==
    LET outcome == raise_for_status(a.response)
    IN  IF outcome.kind = "raise" THEN Raised(outcome.is)
        ELSE Read(route, [value |-> outcome.is, entries |-> a.entries, scalar |-> a.scalar])

\* A result is a well-formed response, and its value is returned.
LEMMA ResultReturns ==
    ASSUME NEW value \in DictValues \cup PlainValues
    PROVE  /\ Result(value) \in Responses
           /\ WellFormed(Result(value))
           /\ raise_for_status(Result(value)) = Return(value)
  <1> DEFINE result == IF value \in DictValues
                       THEN [value |-> value, err_code |-> 0, conflict |-> FALSE]
                       ELSE [value |-> value]
  <1>1. result \in Results
    BY DEF Results
  <1>2. RaiseForResult(result) = Return(value)
    BY DEF RaiseForResult, DictValues, PlainValues
  <1> HIDE DEF result
  <1>3. Result(value) = [ok |-> TRUE, body |-> [kind |-> "result", result |-> result]]
    BY DEF Result, result
  <1> QED
    BY <1>1, <1>2, <1>3
    DEF Responses, Bodies, WellFormed, raise_for_status, Unparsed, RaiseForEnvelope

\* A refusal is well formed too, and raised: as an authentication error by its code.
LEMMA RefusalRaises ==
    ASSUME NEW code \in Codes, code < 0
    PROVE  /\ Error(code) \in Responses
           /\ WellFormed(Error(code))
           /\ \E e \in NonZeroResponses :
                 /\ raise_for_status(Error(code)) = Raise(e)
                 /\ e \in AuthenticationErrors => code \in RefusalCodes
  <1> DEFINE error == [shape |-> "object", code |-> code, message |-> "plain"]
  <1>1. code \in Int /\ code # NonNumber
    BY CodesAssumption
  <1>2. error \in Errors
    BY DEF Errors, Messages
  <1>3. \E e \in NonZeroResponses :
           /\ RaiseForCode(error) = Raise(e)
           /\ e \in AuthenticationErrors => code \in RefusalCodes
    BY <1>1 DEF RaiseForCode, IsFeatureConflict, NonZeroResponses, AuthenticationErrors,
                RefusalCodes
  <1>4. error.shape = "object" /\ error.code # NonNumber /\ error.message # "not_text"
    BY <1>1
  <1> HIDE DEF error
  <1>5. Error(code) = [ok |-> TRUE, body |-> [kind |-> "error", error |-> error]]
    BY DEF Error, error
  <1>6. raise_for_status(Error(code)) = RaiseForCode(error)
    BY <1>4, <1>5 DEF raise_for_status, Unparsed, RaiseForEnvelope, RaiseForError
  <1> QED
    BY <1>2, <1>3, <1>4, <1>5, <1>6 DEF Responses, Bodies, WellFormed

\* A route gives a value of a Python type or one of three builtins, the guarded ones
\* a value.
LEMMA ReadType ==
    ASSUME NEW route \in DOMAIN Reads, NEW reply
    PROVE  /\ Read(route, reply).type \in Types \cup Builtins \cup {"KeyError"}
           /\ route \in GuardedRoutes => Read(route, reply).type \in Types
  <1> DEFINE row == Reads[route]
  <1>1. RowReads(route, row)
    BY Rows
  <1>2. CASE row.reads = "whole"
    <2>1. Read(route, reply) = Got(TypeOf(reply), reply.entries)
      BY <1>2 DEF Read
    <2> QED
      BY <2>1 DEF Got, TypeOf, Types
  <1>3. CASE row.reads = "field"
    <2>1. Read(route, reply) = ReadField(row.type, reply)
      BY <1>3 DEF Read
    <2>2. route \notin GuardedRoutes
      BY <1>1, <1>3 DEF GuardedRoutes, RowReads, OwnRoutes
    <2> QED
      BY <1>1, <2>1, <2>2 DEF RowReads, ReadField, Got, Raised, Builtins, Types
  <1>4. CASE row.reads = "own"
    <2>1. Read(route, reply) = ReadOwn(route, reply) /\ route \in OwnRoutes
      BY <1>1, <1>4 DEF Read, RowReads
    <2>2. CASE route \in {"ping", "wan_upstream_router_detected", "tailscale_auth_url"}
      <3>1. CASE route = "ping"
        <4>1. route \notin GuardedRoutes
          BY <1>4, <3>1 DEF GuardedRoutes
        <4>2. ReadOwn(route, reply) = ping(reply)
          BY <3>1 DEF ReadOwn
        <4>3. ping(reply).type \in {"bool", "TypeError"}
          BY DEF ping, Bool, Got, Raised
        <4> QED
          BY <2>1, <4>1, <4>2, <4>3 DEF Types, Builtins
      <3>2. CASE route # "ping"
        <4>1. ReadOwn(route, reply) \in {wan_upstream_router_detected(reply),
                                        tailscale_auth_url(reply)}
          BY <2>2, <3>2 DEF ReadOwn
        <4>2. /\ wan_upstream_router_detected(reply).type = "bool"
              /\ tailscale_auth_url(reply).type \in {"str", "scalar", "None"}
          BY DEF wan_upstream_router_detected, tailscale_auth_url, ReadField, HasKey, HasScalar, IsDict,
                 DictValues, Bool, Got
        <4> QED
          BY <2>1, <4>1, <4>2 DEF Types
      <3> QED
        BY <3>1, <3>2
    <2>3. CASE route \in {"tailscale_exit_node_list", "flow_stats_top_apps"}
      <3>1. ReadOwn(route, reply) = UnwrapOrBare(reply)
        BY <2>3 DEF ReadOwn
      <3>2. UnwrapOrBare(reply).type \in {"list", "scalar"}
        BY DEF UnwrapOrBare, ReadField, Got
      <3> QED
        BY <2>1, <3>1, <3>2 DEF Types
    <2>4. CASE route \in {"router_status", "wifi_ifaces", "wifi_ifaces_showing"}
      <3>1. route \notin GuardedRoutes
        BY <1>4, <2>4 DEF GuardedRoutes
      <3>2. CASE route = "router_status"
        BY <2>1, <3>1, <3>2 DEF ReadOwn, router_status, TypeOf, Got, Raised, Types, Builtins
      <3>3. CASE route # "router_status"
        <4>1. ReadOwn(route, reply) \in {wifi_ifaces(TRUE, reply), wifi_ifaces(FALSE, reply)}
          BY <2>4, <3>3 DEF ReadOwn
        <4>2. ReadField("dict", reply).type \in {"dict", "scalar", "AttributeError"}
              /\ DOMAIN ReadField("dict", reply) = {"type", "entries"}
          BY DEF ReadField, Got, Raised
        <4> QED
          BY <2>1, <3>1, <4>1, <4>2 DEF wifi_ifaces, Raised, Types, Builtins
      <3> QED
        BY <3>2, <3>3
    <2>5. CASE route \in {"connected_clients", "blocked_client_macs", "wireguard_client_list"}
      <3>1. route \notin GuardedRoutes
        BY <1>4, <2>5 DEF GuardedRoutes
      <3>2. ReadOwn(route, reply) \in {connected_clients(reply), blocked_client_macs(reply),
                                      wireguard_client_list(reply)}
        BY <2>5 DEF ReadOwn
      <3>3. /\ connected_clients(reply).type \in {"dict", "KeyError", "TypeError"}
            /\ blocked_client_macs(reply).type \in {"set", "KeyError", "TypeError"}
            /\ wireguard_client_list(reply).type \in {"list", "KeyError", "TypeError"}
        BY DEF connected_clients, blocked_client_macs, wireguard_client_list, Indexed, Got,
               Raised
      <3> QED
        BY <2>1, <3>1, <3>2, <3>3 DEF Types, Builtins
    <2> QED
      BY <2>1, <2>2, <2>3, <2>4, <2>5 DEF OwnRoutes
  <1> QED
    BY <1>1, <1>2, <1>3, <1>4 DEF RowReads

\* What is none of a value, or of the library's errors, a guarded route has from
\* raise_for_status.
LEMMA GetsType ==
    ASSUME NEW route \in DOMAIN Reads, NEW a, a.response \in Responses
    PROVE  /\ Gets(route, a).type \in Types \cup Exceptions \cup {"KeyError"}
           /\ /\ route \in GuardedRoutes
              /\ Gets(route, a).type \notin Types \cup APIClientErrors
              => /\ raise_for_status(a.response) = Raise(Gets(route, a).type)
                 /\ ~WellFormed(a.response)
  <1> DEFINE outcome == raise_for_status(a.response)
  <1>1. outcome \in Outcomes
    BY StatusOutcome
  <1>2. CASE outcome.kind = "raise"
    <2>1. Gets(route, a).type = outcome.is
      BY <1>2 DEF Gets, Raised
    <2>2. outcome = Raise(outcome.is) /\ outcome.is \in Exceptions
      BY <1>1, <1>2 DEF Outcomes, Raise
    <2> QED
      BY <1>2, <2>1, <2>2, WellFormedOutcome
  <1>3. CASE outcome.kind # "raise"
    BY <1>3, ReadType DEF Gets, Exceptions
  <1> QED
    BY <1>2, <1>3

\* What a route gets from a result is what it reads in its value.
LEMMA GetsReply ==
    ASSUME NEW route, NEW value \in DictValues \cup PlainValues, NEW entries
    PROVE  Gets(route, Reply(value, entries))
              = Read(route, [value |-> value, entries |-> entries, scalar |-> FALSE])
  <1>1. Reply(value, entries).response = Result(value)
        /\ Reply(value, entries).entries = entries /\ Reply(value, entries).scalar = FALSE
    BY DEF Reply
  <1>2. raise_for_status(Result(value)) = Return(value)
    BY ResultReturns
  <1>3. Return(value).kind = "return" /\ Return(value).is = value
    BY DEF Return
  <1> QED
    BY <1>1, <1>2, <1>3 DEF Gets

\* A documented answer is a result.
LEMMA DocumentedIsReply ==
    ASSUME NEW route, NEW w, NEW a \in Documented(route, w)
    PROVE  \E value \in {"other", "empty", "list", "empty_list"} : \E entries :
              a = Reply(value, entries)
  BY DEF Documented, Keyed, Bare

\* The answers of the routes that docs show by name.
LEMMA DocumentedByName ==
    ASSUME NEW route \in DOMAIN Reads, NEW w
    PROVE  /\ route = "ping" =>
                 Documented(route, w) = {Reply("other", Fact(w)), Bare(Fact(w))}
           /\ route = "wan_upstream_router_detected" =>
                 Documented(route, w) = Keyed(Fact(w)) \cup IF w.on THEN {} ELSE {Bare({})}
           /\ route = "tailscale_auth_url" =>
                 Documented(route, w) = IF w.on THEN Keyed(Fact(w))
                                        ELSE {Reply("empty", {}), Bare({})}
           /\ route \in {"tailscale_exit_node_list", "flow_stats_top_apps"} =>
                 Documented(route, w) = IF w.on THEN Keyed(Held(route, w))
                                        ELSE {Bare(Held(route, w))}
  <1> DEFINE Named == {"ping", "wan_upstream_router_detected", "tailscale_auth_url",
                       "tailscale_exit_node_list", "flow_stats_top_apps"}
  <1>1. route \in Named =>
           Reads[route].reads = "own" /\ Reads[route].rpc # <<"clients", "get_list">>
    BY Rows DEF RowReads, RowAsks, OwnRoutes, ClientRoutes
  <1>2. CASE route = "ping"
    BY <1>1, <1>2 DEF Documented
  <1>3. CASE route = "wan_upstream_router_detected"
    BY <1>1, <1>3 DEF Documented
  <1>4. CASE route = "tailscale_auth_url"
    BY <1>1, <1>4 DEF Documented
  <1>5. CASE route \in {"tailscale_exit_node_list", "flow_stats_top_apps"}
    BY <1>1, <1>5 DEF Documented
  <1> QED
    BY <1>2, <1>3, <1>4, <1>5

\* The kinds of envelope, read by the kinds of route.
LEMMA FieldRead ==
    ASSUME NEW type, NEW entries, NEW a \in Keyed(entries)
    PROVE  \E value \in {"other", "empty"} : \E held :
              /\ a = Reply(value, held)
              /\ ReadField(type, [value |-> value, entries |-> held, scalar |-> FALSE]) = Got(type, entries)
  <1>1. CASE a = Reply("other", entries)
    BY <1>1 DEF ReadField, IsDict, HasKey, HasScalar, DictValues
  <1>2. CASE a = Reply("empty", {}) /\ entries = {}
    BY <1>2 DEF ReadField, IsDict, HasKey, HasScalar, DictValues
  <1> QED
    BY <1>1, <1>2 DEF Keyed

LEMMA BareRead ==
    ASSUME NEW entries
    PROVE  \E value \in {"list", "empty_list"} :
              /\ Bare(entries) = Reply(value, entries)
              /\ TypeOf([value |-> value, entries |-> entries, scalar |-> FALSE]) = "list"
              /\ value = "empty_list" <=> entries = {}
  BY DEF Bare, TypeOf, IsDict, IsList, DictValues

\* Routes without an operator of their own.
LEMMA PlainMeaning ==
    ASSUME NEW route \in DOMAIN Reads \ OwnRoutes, NEW w, NEW a \in Documented(route, w)
    PROVE  Gets(route, a) = Meaning(route, w)
  <1> DEFINE row == Reads[route]
             held == Held(route, w)
  <1>1. RowReads(route, row) /\ RowAsks(route, row)
    BY Rows
  <1>2. held = IF route = "clients_list" THEN w.clients
               ELSE IF route = "wireguard_client_configs" THEN w.groups ELSE w.items
    <2>1. /\ row.rpc = <<"clients", "get_list">> <=> route = "clients_list"
          /\ row.rpc = <<"wg-client", "get_all_config_list">> <=>
                route = "wireguard_client_configs"
          /\ row.rpc \notin {<<"wifi", "get_config">>, <<"system", "get_status">>}
      BY <1>1 DEF RowAsks, ClientRoutes, GroupRoutes, IfaceRoutes, OwnRoutes
    <2> QED
      BY <2>1 DEF Held
  <1>3. Meaning(route, w) = Got(row.type, held)
    <2>1. route = "clients_list" => row.type = "dict"
      BY <1>1 DEF RowReads
    <2>2. route = "wireguard_client_configs" => row.type = "list"
      BY <1>1 DEF RowReads
    <2>3. \/ route = "clients_list" /\ Meaning(route, w) = Got("dict", w.clients)
          \/ route = "wireguard_client_configs" /\ Meaning(route, w) = Got("list", w.groups)
          \/ /\ route \notin {"clients_list", "wireguard_client_configs"}
             /\ Meaning(route, w) = Got(row.type, w.items)
      BY DEF Meaning, OwnRoutes
    <2> QED
      BY <1>2, <2>1, <2>2, <2>3
  <1>4. Documented(route, w) = IF row.reads = "whole"
                               THEN IF row.type = "list" THEN {Bare(held)}
                                    ELSE {Reply("other", held)}
                               ELSE Keyed(held)
    <2>1. row.rpc = <<"clients", "get_list">> =>
              row.reads = "whole" /\ row.type # "list"
      BY <1>1 DEF RowReads, RowAsks, ClientRoutes, OwnRoutes
    <2> QED
      BY <2>1 DEF Documented, OwnRoutes
  <1>5. CASE row.reads = "whole"
    <2>1. \A reply : Read(route, reply) = Got(TypeOf(reply), reply.entries)
      BY <1>5 DEF Read
    <2>2. CASE row.type = "list"
      <3>1. PICK value \in {"list", "empty_list"} :
               /\ Bare(held) = Reply(value, held)
               /\ TypeOf([value |-> value, entries |-> held, scalar |-> FALSE]) = "list"
        BY BareRead
      <3>2. Read(route, [value |-> value, entries |-> held, scalar |-> FALSE]) = Got("list", held)
        BY <2>1, <3>1
      <3> QED
        BY <1>3, <1>4, <1>5, <2>2, <3>1, <3>2, GetsReply DEF PlainValues
    <2>3. CASE row.type # "list"
      <3>1. row.type = "dict"
        BY <1>1, <1>5, <2>3 DEF RowReads
      <3>2. TypeOf([value |-> "other", entries |-> held, scalar |-> FALSE]) = "dict"
        BY DEF TypeOf, IsDict, DictValues
      <3> QED
        BY <1>3, <1>4, <1>5, <2>1, <2>3, <3>1, <3>2, GetsReply DEF DictValues
    <2> QED
      BY <2>2, <2>3
  <1>6. CASE row.reads = "field"
    <2>1. \A reply : Read(route, reply) = ReadField(row.type, reply)
      BY <1>6 DEF Read
    <2>2. PICK value \in {"other", "empty"} : \E kept :
             /\ a = Reply(value, kept)
             /\ ReadField(row.type, [value |-> value, entries |-> kept, scalar |-> FALSE])
                   = Got(row.type, held)
      <3>1. a \in Keyed(held)
        BY <1>4, <1>6
      <3> QED
        BY <3>1, FieldRead
    <2>3. PICK kept :
             /\ a = Reply(value, kept)
             /\ ReadField(row.type, [value |-> value, entries |-> kept, scalar |-> FALSE])
                   = Got(row.type, held)
      BY <2>2
    <2>4. Gets(route, a) = Read(route, [value |-> value, entries |-> kept, scalar |-> FALSE])
      BY <2>3, GetsReply DEF DictValues
    <2> QED
      BY <1>3, <2>1, <2>3, <2>4
  <1> QED
    BY <1>1, <1>5, <1>6 DEF RowReads

LEMMA OwnRead ==
    ASSUME NEW route \in DOMAIN Reads \cap OwnRoutes, NEW reply
    PROVE  Read(route, reply) = ReadOwn(route, reply)
  BY Rows DEF Read, RowReads

\* The routes whose answer is a fact.
LEMMA FactMeaning ==
    ASSUME NEW route \in DOMAIN Reads,
           route \in {"ping", "wan_upstream_router_detected", "tailscale_auth_url"},
           NEW w, w.on \in BOOLEAN, NEW a \in Documented(route, w)
    PROVE  Gets(route, a) = Meaning(route, w)
  <1>1. \A reply : Read(route, reply) = ReadOwn(route, reply)
    BY OwnRead DEF OwnRoutes
  <1>2. Fact(w) = {} <=> ~w.on
    BY DEF Fact
  <1>3. CASE route = "ping"
    <2>1. \A reply : Read(route, reply) = ping(reply)
      BY <1>1, <1>3 DEF ReadOwn
    <2>2. Meaning(route, w) = Got("bool", Fact(w))
      BY <1>3 DEF Meaning
    <2>3. a = Reply("other", Fact(w)) \/ a = Bare(Fact(w))
      BY <1>3, DocumentedByName
    <2>4. Bool(w.on) = Got("bool", Fact(w))
      BY DEF Bool, Fact
    <2>5. ping([value |-> "other", entries |-> Fact(w), scalar |-> FALSE]) = Bool(w.on)
      BY <1>2 DEF ping, HasKey, HasScalar, IsDict, DictValues
    <2>6. ping([value |-> "empty_list", entries |-> Fact(w), scalar |-> FALSE]) = Bool(FALSE)
          /\ ping([value |-> "list", entries |-> Fact(w), scalar |-> FALSE]) = Bool(TRUE)
      BY DEF ping, HasKey, HasScalar, IsDict, DictValues
    <2>7. Bool(FALSE) = Got("bool", {}) /\ Bool(TRUE) = Got("bool", {"yes"})
      BY DEF Bool
    <2>8. CASE a = Reply("other", Fact(w))
      BY <2>1, <2>2, <2>4, <2>5, <2>8, GetsReply DEF DictValues
    <2>9. CASE a = Bare(Fact(w))
      <3>1. PICK value \in {"list", "empty_list"} :
               a = Reply(value, Fact(w)) /\ (value = "empty_list" <=> Fact(w) = {})
        BY <2>9, BareRead
      <3>2. ping([value |-> value, entries |-> Fact(w), scalar |-> FALSE]) = Got("bool", Fact(w))
        BY <1>2, <2>6, <2>7, <3>1 DEF Fact
      <3> QED
        BY <2>1, <2>2, <3>1, <3>2, GetsReply DEF PlainValues
    <2> QED
      BY <2>3, <2>8, <2>9
  <1>4. CASE route = "wan_upstream_router_detected"
    <2>1. \A reply : Read(route, reply) = wan_upstream_router_detected(reply)
      BY <1>1, <1>4 DEF ReadOwn
    <2>2. Meaning(route, w) = Got("bool", Fact(w))
      BY <1>4 DEF Meaning
    <2>3. \/ a = Reply("other", Fact(w))
          \/ a = Reply("empty", {}) /\ Fact(w) = {}
          \/ a = Reply("empty_list", {}) /\ Fact(w) = {}
      BY <1>2, <1>4, DocumentedByName DEF Keyed, Bare
    <2>4. wan_upstream_router_detected([value |-> "other", entries |-> Fact(w), scalar |-> FALSE])
             = Got("bool", Fact(w))
      BY DEF wan_upstream_router_detected, HasKey, HasScalar, Bool, Fact
    <2>5. wan_upstream_router_detected([value |-> "empty", entries |-> {}, scalar |-> FALSE])
             = Got("bool", {})
          /\ wan_upstream_router_detected([value |-> "empty_list", entries |-> {}, scalar |-> FALSE])
             = Got("bool", {})
      BY DEF wan_upstream_router_detected, HasKey, HasScalar, Bool
    <2> QED
      BY <2>1, <2>2, <2>3, <2>4, <2>5, GetsReply DEF DictValues, PlainValues
  <1>5. CASE route = "tailscale_auth_url"
    <2>1. \A reply : Read(route, reply) = tailscale_auth_url(reply)
      BY <1>1, <1>5 DEF ReadOwn
    <2>2. Meaning(route, w) = IF w.on THEN Got("str", Fact(w)) ELSE Got("None", {})
      BY <1>5 DEF Meaning
    <2>3. \/ a = Reply("other", Fact(w)) /\ w.on
          \/ a = Reply("empty", {}) /\ ~w.on
          \/ a = Reply("empty_list", {}) /\ ~w.on
      BY <1>2, <1>5, DocumentedByName DEF Keyed, Bare
    <2>4. /\ tailscale_auth_url([value |-> "other", entries |-> Fact(w), scalar |-> FALSE])
                = Got("str", Fact(w))
          /\ tailscale_auth_url([value |-> "empty", entries |-> {}, scalar |-> FALSE]) = Got("None", {})
          /\ tailscale_auth_url([value |-> "empty_list", entries |-> {}, scalar |-> FALSE]) = Got("None", {})
      BY DEF tailscale_auth_url, ReadField, HasKey, HasScalar, IsDict, DictValues
    <2> QED
      BY <2>1, <2>2, <2>3, <2>4, GetsReply DEF DictValues, PlainValues
  <1> QED
    BY <1>3, <1>4, <1>5

\* The lists that come wrapped while the subsystem is on, and bare otherwise.
LEMMA ListMeaning ==
    ASSUME NEW route \in DOMAIN Reads,
           route \in {"tailscale_exit_node_list", "flow_stats_top_apps"},
           NEW w, NEW a \in Documented(route, w)
    PROVE  Gets(route, a) = Meaning(route, w)
  <1>1. \A reply : Read(route, reply) = UnwrapOrBare(reply)
    BY OwnRead DEF OwnRoutes, ReadOwn
  <1>2. Held(route, w) = w.items
    BY Rows DEF RowAsks, Held, ClientRoutes, GroupRoutes, IfaceRoutes
  <1>3. Meaning(route, w) = Got("list", w.items)
    BY Rows DEF RowReads, Meaning
  <1>4. a \in Keyed(w.items) \/ a = Bare(w.items)
    BY <1>2, DocumentedByName
  <1>5. CASE a \in Keyed(w.items)
    <2>1. PICK value \in {"other", "empty"} : \E kept :
             /\ a = Reply(value, kept)
             /\ ReadField("list", [value |-> value, entries |-> kept, scalar |-> FALSE]) = Got("list", w.items)
      BY <1>5, FieldRead
    <2>2. PICK held :
             /\ a = Reply(value, held)
             /\ ReadField("list", [value |-> value, entries |-> held, scalar |-> FALSE]) = Got("list", w.items)
      BY <2>1
    <2>3. UnwrapOrBare([value |-> value, entries |-> held, scalar |-> FALSE])
             = ReadField("list", [value |-> value, entries |-> held, scalar |-> FALSE])
      BY DEF UnwrapOrBare, IsDict, DictValues
    <2> QED
      BY <1>1, <1>3, <2>2, <2>3, GetsReply DEF DictValues
  <1>6. CASE a = Bare(w.items)
    <2>1. PICK value \in {"list", "empty_list"} : a = Reply(value, w.items)
      BY <1>6, BareRead
    <2>2. UnwrapOrBare([value |-> value, entries |-> w.items, scalar |-> FALSE]) = Got("list", w.items)
      BY DEF UnwrapOrBare, IsDict, IsList, DictValues
    <2> QED
      BY <1>1, <1>3, <2>1, <2>2, GetsReply DEF PlainValues
  <1> QED
    BY <1>4, <1>5, <1>6

\* The routes that redact the passwords of the interfaces, or show them.
LEMMA IfaceMeaning ==
    ASSUME NEW route \in DOMAIN Reads, route \in IfaceRoutes,
           NEW w, IsWorld(w), NEW a \in Documented(route, w)
    PROVE  Gets(route, a) = Meaning(route, w)
  <1> DEFINE row == Reads[route]
  <1>1. /\ row.reads = "own"
        /\ row.rpc \notin {<<"clients", "get_list">>, <<"wg-client", "get_all_config_list">>}
        /\ row.rpc \in {<<"wifi", "get_config">>, <<"system", "get_status">>}
    BY Rows DEF RowReads, RowAsks, OwnRoutes, IfaceRoutes, ClientRoutes, GroupRoutes
  <1>2. Held(route, w) = w.ifaces
    BY <1>1 DEF Held
  <1>3. a \in Keyed(w.ifaces)
    BY <1>1, <1>2 DEF Documented, IfaceRoutes
  <1> DEFINE held == w.ifaces
  <1>4. PICK value \in {"other", "empty"} :
           /\ a = Reply(value, held)
           /\ value = "empty" => held = {}
           /\ ReadField("dict", [value |-> value, entries |-> held, scalar |-> FALSE]) = Got("dict", held)
    BY <1>3 DEF Keyed, ReadField, IsDict, HasKey, HasScalar, DictValues
  <1> DEFINE reply == [value |-> value, entries |-> held, scalar |-> FALSE]
  <1>5. Redact(held) = {[name |-> i.name, key |-> Redacted] : i \in w.ifaces}
    BY <1>4 DEF IsWorld, Redact
  <1>6. Gets(route, a) = ReadOwn(route, reply)
    BY <1>4, GetsReply, OwnRead DEF DictValues, IfaceRoutes, OwnRoutes
  <1>7. CASE route = "router_status"
    <2>1. ReadOwn(route, reply) = router_status(reply)
      BY <1>7 DEF ReadOwn
    <2>2. Meaning(route, w) = Got("dict", Redact(held))
      BY <1>5, <1>7 DEF Meaning
    <2>3. TypeOf(reply) = "dict"
      BY <1>4 DEF TypeOf, IsDict, DictValues
    <2>4. held = {} => Redact(held) = {}
      BY DEF Redact
    <2>5. router_status(reply) = Got("dict", Redact(held))
      BY <1>4, <2>3, <2>4 DEF router_status, HasKey, HasScalar
    <2> QED
      BY <1>6, <2>1, <2>2, <2>5
  <1>8. CASE route = "wifi_ifaces"
    <2>1. ReadOwn(route, reply) = wifi_ifaces(TRUE, reply)
      BY <1>8 DEF ReadOwn
    <2>2. Meaning(route, w) = Got("dict", Redact(held))
      BY <1>5, <1>8 DEF Meaning
    <2>3. ~HasScalar(reply)
      BY DEF HasScalar
    <2>4. wifi_ifaces(TRUE, reply) = [ReadField("dict", reply) EXCEPT !.entries = Redact(@)]
      BY <2>3 DEF wifi_ifaces
    <2>5. wifi_ifaces(TRUE, reply) = Got("dict", Redact(held))
      <3>1. ReadField("dict", reply) = [type |-> "dict", entries |-> held]
        BY <1>4 DEF Got
      <3>2. wifi_ifaces(TRUE, reply)
               = [[type |-> "dict", entries |-> held] EXCEPT !.entries = Redact(@)]
        BY <2>4, <3>1
      <3> QED
        BY <3>2 DEF Got
    <2> QED
      BY <1>6, <2>1, <2>2, <2>5
  <1>9. CASE route = "wifi_ifaces_showing"
    <2>1. ReadOwn(route, reply) = wifi_ifaces(FALSE, reply)
      BY <1>9 DEF ReadOwn
    <2>2. Meaning(route, w) = Got("dict", held)
      BY <1>4, <1>9 DEF Meaning
    <2>3. wifi_ifaces(FALSE, reply) = Got("dict", held)
      BY <1>4 DEF wifi_ifaces, HasScalar
    <2> QED
      BY <1>6, <2>1, <2>2, <2>3
  <1> QED
    BY <1>7, <1>8, <1>9 DEF IfaceRoutes

\* The routes that select from the client list.
LEMMA ClientMeaning ==
    ASSUME NEW route \in DOMAIN Reads,
           route \in {"connected_clients", "blocked_client_macs"},
           NEW w, NEW a \in Documented(route, w)
    PROVE  Gets(route, a) = Meaning(route, w)
  <1> DEFINE row == Reads[route]
             reply == [value |-> "other", entries |-> w.clients, scalar |-> FALSE]
  <1>1. row.reads = "own" /\ row.rpc = <<"clients", "get_list">>
    BY Rows DEF RowReads, RowAsks, OwnRoutes, ClientRoutes
  <1>2. row.rpc # <<"wg-client", "get_all_config_list">>
        /\ row.rpc \notin {<<"wifi", "get_config">>, <<"system", "get_status">>}
    BY <1>1
  <1>3. Held(route, w) = w.clients
    BY <1>1, <1>2 DEF Held
  <1>4. a = Reply("other", w.clients)
    BY <1>1, <1>3 DEF Documented
  <1>5. Gets(route, a) = ReadOwn(route, reply)
    BY <1>4, GetsReply, OwnRead DEF DictValues, OwnRoutes
  <1>6. CASE route = "connected_clients"
    <2>1. ReadOwn(route, reply) = connected_clients(reply)
      BY <1>6 DEF ReadOwn
    <2>2. connected_clients(reply) = Got("dict", {c \in w.clients : c.online})
      BY DEF connected_clients, Indexed, HasKey, HasScalar, IsDict, DictValues
    <2>3. Meaning(route, w) = Got("dict", {c \in w.clients : c.online})
      BY <1>6 DEF Meaning
    <2> QED
      BY <1>5, <2>1, <2>2, <2>3
  <1>7. CASE route = "blocked_client_macs"
    <2>1. ReadOwn(route, reply) = blocked_client_macs(reply)
      BY <1>7 DEF ReadOwn
    <2>2. blocked_client_macs(reply)
             = Got("set", {c.mac : c \in {d \in w.clients : d.blocked}})
      BY DEF blocked_client_macs, Indexed, HasKey, HasScalar, IsDict, DictValues
    <2>3. {c.mac : c \in {d \in w.clients : d.blocked}}
             = {m \in {c.mac : c \in w.clients} :
                   \E c \in w.clients : c.mac = m /\ c.blocked}
      OBVIOUS
    <2>4. Meaning(route, w) = Got("set", {m \in {c.mac : c \in w.clients} :
                                            \E c \in w.clients : c.mac = m /\ c.blocked})
      BY <1>7 DEF Meaning
    <2> QED
      BY <1>5, <2>1, <2>2, <2>3, <2>4
  <1> QED
    BY <1>6, <1>7

\* A documented answer is read as what the route means.
LEMMA DocumentedMeaning ==
    ASSUME NEW route \in DOMAIN Reads, route # "wireguard_client_list",
           NEW w, IsWorld(w), NEW a \in Documented(route, w)
    PROVE  Gets(route, a) = Meaning(route, w)
  <1>1. w.on \in BOOLEAN
    BY DEF IsWorld
  <1> QED
    BY <1>1, PlainMeaning, FactMeaning, ListMeaning, IfaceMeaning, ClientMeaning
    DEF OwnRoutes, IfaceRoutes

\* The groups are flattened into their peers, unless there are none and the router
\* leaves the list out.
LEMMA FlattenMeaning ==
    ASSUME NEW route \in DOMAIN Reads, route = "wireguard_client_list",
           NEW w, NEW a \in Documented(route, w)
    PROVE  \/ Gets(route, a) = Meaning(route, w)
           \/ /\ Gets(route, a) = Raised("KeyError")
              /\ w.groups = {} /\ a = Reply("empty", {})
  <1> DEFINE row == Reads[route]
  <1>1. row.reads = "own" /\ row.rpc = <<"wg-client", "get_all_config_list">>
    BY Rows DEF RowReads, RowAsks, OwnRoutes, GroupRoutes
  <1>2. row.rpc # <<"clients", "get_list">>
    BY <1>1
  <1>3. Held(route, w) = w.groups
    BY <1>1, <1>2 DEF Held
  <1>4. a \in Keyed(w.groups)
    BY <1>1, <1>2, <1>3 DEF Documented
  <1>5. ASSUME NEW value \in {"other", "empty"}, NEW held, a = Reply(value, held)
        PROVE  Gets(route, a) = wireguard_client_list([value |-> value, entries |-> held, scalar |-> FALSE])
    <2> DEFINE reply == [value |-> value, entries |-> held, scalar |-> FALSE]
    <2>1. Gets(route, a) = Read(route, reply)
      BY <1>5, GetsReply DEF DictValues
    <2>2. Read(route, reply) = ReadOwn(route, reply)
      BY OwnRead DEF OwnRoutes
    <2>3. ReadOwn(route, reply) = wireguard_client_list(reply)
      BY DEF ReadOwn
    <2> QED
      BY <2>1, <2>2, <2>3
  <1>6. CASE a = Reply("other", w.groups)
    <2>1. Gets(route, a) = Got("list", UNION {{[group |-> item.group, peer |-> peer] :
                                                  peer \in item.peers} : item \in w.groups})
      BY <1>5, <1>6 DEF wireguard_client_list, Indexed, HasKey, HasScalar, IsDict, DictValues
    <2> DEFINE read == UNION {{[group |-> item.group, peer |-> peer] :
                                  peer \in item.peers} : item \in w.groups}
               meant == UNION {[group: {g.group}, peer: g.peers] : g \in w.groups}
    <2>2. ASSUME NEW item, NEW x
          PROVE  x \in {[group |-> item.group, peer |-> peer] : peer \in item.peers}
                    <=> x \in [group: {item.group}, peer: item.peers]
      OBVIOUS
    <2>3. \A x : x \in read <=> \E item \in w.groups :
                     x \in {[group |-> item.group, peer |-> peer] : peer \in item.peers}
      OBVIOUS
    <2>4. \A x : x \in meant <=> \E g \in w.groups : x \in [group: {g.group}, peer: g.peers]
      OBVIOUS
    <2>5. \A x : x \in read <=> x \in meant
      <3> HIDE DEF read, meant
      <3> QED
        BY <2>2, <2>3, <2>4
    <2>6. read = meant
      <3> HIDE DEF read, meant
      <3> QED
        BY <2>5
    <2>7. Meaning(route, w) = Got("list", meant)
      BY DEF Meaning
    <2> QED
      BY <2>1, <2>6, <2>7
  <1>7. CASE a = Reply("empty", {}) /\ w.groups = {}
    BY <1>5, <1>7 DEF wireguard_client_list, Indexed, HasKey, HasScalar, IsDict, DictValues
  <1> QED
    BY <1>4, <1>6, <1>7 DEF Keyed

\* And as a value of a Python type, for every route.
LEMMA DocumentedType ==
    ASSUME NEW route \in DOMAIN Reads, NEW w, NEW a \in Documented(route, w)
    PROVE  /\ a.response \in Responses
           /\ Gets(route, a).type \in Types \cup Builtins \cup {"KeyError"}
  <1>1. PICK value \in {"other", "empty", "list", "empty_list"} : \E entries :
           a = Reply(value, entries)
    BY DocumentedIsReply
  <1>2. PICK entries : a = Reply(value, entries)
    BY <1>1
  <1>3. value \in DictValues \cup PlainValues
    BY DEF DictValues, PlainValues
  <1>4. a.response = Result(value)
    BY <1>2 DEF Reply
  <1>5. Gets(route, a) = Read(route, [value |-> value, entries |-> entries, scalar |-> FALSE])
    BY <1>2, <1>3, GetsReply
  <1> QED
    BY <1>3, <1>4, <1>5, ResultReturns, ReadType

\* A refusal is an error of the library, about a session only by its code.
LEMMA GetsRefusal ==
    ASSUME NEW route, NEW code \in Codes, code < 0
    PROVE  /\ Refusal(code).response \in Responses
           /\ Gets(route, Refusal(code)).type \in APIClientErrors
           /\ Gets(route, Refusal(code)).type \in AuthenticationErrors
                 => code \in RefusalCodes
  <1>1. Refusal(code).response = Error(code)
    BY DEF Refusal
  <1>2. PICK e \in NonZeroResponses :
           /\ raise_for_status(Error(code)) = Raise(e)
           /\ e \in AuthenticationErrors => code \in RefusalCodes
    BY RefusalRaises
  <1>3. Gets(route, Refusal(code)) = Raised(e)
    BY <1>1, <1>2 DEF Gets, Raise
  <1> QED
    BY <1>1, <1>2, <1>3, RefusalRaises DEF Raised, APIClientErrors

-----------------------------------------------------------------------------
(* The inductive invariant. *)

\* An answer on its way to its route: documented for it and for what the router
\* held, or a refusal, of a session only if the one the call began under ended.
Answered(t) ==
    documented =>
        \/ answer[t] \in Documented(call[t], told[t])
        \/ \E code \in Codes :
              /\ code < 0
              /\ answer[t] = Refusal(code)
              /\ code \in RefusalCodes => under[t] = 0

\* The KeyError over a list that a router without groups leaves out (vpn.py:287-288).
Surprise(route, w, got) ==
    route = "wireguard_client_list" /\ w.groups = {} /\ got = Raised("KeyError")

\* What a caller got: the two invariants, of one task, and the exception to the first.
Caller(t) ==
    /\ documented => Reported(t) \/ Surprise(call[t], told[t], out[t])
    /\ documented /\ out[t].type \in AuthenticationErrors => under[t] = 0

TaskInv(t) ==
    /\ under[t] \in {0, carried[t]}
    /\ pc[t] # "idle" => call[t] \in RoutesCalled /\ out[t] = Nothing
    /\ pc[t] = "answered" => Answered(t)
    /\ Caller(t)

\* TypeOK asks nothing of the domains of the functions that it looks into.
Functions ==
    /\ told = [t \in Tasks |-> told[t]]
    /\ answer = [t \in Tasks |-> answer[t]]
    /\ out = [t \in Tasks |-> out[t]]

ReadInv == TypeOK /\ Functions /\ \A t \in Tasks : TaskInv(t)

LEMMA ConstantFacts ==
    /\ RefusalCodes \subseteq Codes /\ \A code \in RefusalCodes : code < 0
    /\ RoutesCalled \subseteq DOMAIN Reads
    /\ \A w \in Worlds : IsWorld(w)
    /\ OddResponses \subseteq Responses
    /\ MaxLogins \in Nat \ {0} /\ MaxChanges \in Nat
  <1>1. \A code \in RefusalCodes : code < 0
    BY DEF RefusalCodes
  <1> QED
    BY <1>1, RoutesAssumption

\* Who got nothing yet has nothing that could be wrong.
LEMMA NothingIsSafe ==
    ASSUME NEW t, out[t] = Nothing
    PROVE  Caller(t) /\ out[t].type = "nothing"
  BY DEF Caller, Reported, Nothing, Got, AuthenticationErrors, Builtins

LEMMA InitInv == Init => ReadInv
  <1> SUFFICES ASSUME Init PROVE ReadInv
    OBVIOUS
  <1>1. MaxLogins \in Nat \ {0} /\ MaxChanges \in Nat
    BY ConstantFacts
  <1>2. NoAnswer.response \in Responses
    BY ResultReturns DEF NoAnswer, PlainValues
  <1>3. \A t \in Tasks : out[t] = Nothing
    BY DEF Init
  <1>4. TypeOK
    <2>1. \A t \in Tasks : out[t].type = "nothing"
      BY <1>3, NothingIsSafe
    <2>2. MaxLogins \in Sessions /\ changes \in 0 .. MaxChanges
      BY <1>1 DEF Init, Sessions
    <2>3. live \subseteq Sessions /\ sid \in Sessions \cup {0} /\ documented \in BOOLEAN
      BY <2>2 DEF Init
    <2>4. \A t \in Tasks : answer[t].response \in Responses /\ told[t] \in Worlds
      BY <1>2 DEF Init
    <2> QED
      BY <2>1, <2>2, <2>3, <2>4 DEF Init, TypeOK
  <1>5. Functions
    BY DEF Init, Functions
  <1>6. ASSUME NEW t \in Tasks PROVE TaskInv(t)
    BY <1>3, NothingIsSafe DEF Init, TaskInv
  <1> QED
    BY <1>4, <1>5, <1>6 DEF ReadInv

\* A task whose own state is as before stays in order, while sessions may end.
LEMMA OthersKeep ==
    ASSUME NEW t, TaskInv(t), under'[t] \in {0, under[t]},
           pc'[t] = pc[t], call'[t] = call[t], carried'[t] = carried[t],
           answer'[t] = answer[t], told'[t] = told[t], out'[t] = out[t],
           documented' = documented
    PROVE  TaskInv(t)'
  <1>1. Reported(t)' = Reported(t)
    BY DEF Reported
  <1>2. Caller(t) => Caller(t)'
    BY <1>1 DEF Caller, Surprise
  <1>3. Answered(t) => Answered(t)'
    BY DEF Answered
  <1> QED
    BY <1>2, <1>3 DEF TaskInv

LEMMA LoginInv == ReadInv /\ Login => ReadInv'
  <1> SUFFICES ASSUME ReadInv, Login PROVE ReadInv'
    OBVIOUS
  <1> USE DEF ReadInv, Login, taskVars
  <1>1. MaxLogins \in Nat \ {0}
    BY ConstantFacts
  <1>2. TypeOK'
    BY <1>1 DEF TypeOK, Sessions
  <1>3. Functions'
    BY DEF Functions
  <1>4. ASSUME NEW t \in Tasks PROVE TaskInv(t)'
    BY OthersKeep
  <1> QED
    BY <1>2, <1>3, <1>4

LEMMA ChangeInv == ReadInv /\ Change => ReadInv'
  <1> SUFFICES ASSUME ReadInv, Change PROVE ReadInv'
    OBVIOUS
  <1> USE DEF ReadInv, Change, taskVars
  <1>1. MaxChanges \in Nat
    BY ConstantFacts
  <1>2. TypeOK'
    BY <1>1 DEF TypeOK
  <1>3. Functions'
    BY DEF Functions
  <1>4. ASSUME NEW t \in Tasks PROVE TaskInv(t)'
    BY OthersKeep
  <1> QED
    BY <1>2, <1>3, <1>4

LEMMA EndSessionsInv == ReadInv /\ EndSessions => ReadInv'
  <1> SUFFICES ASSUME ReadInv, EndSessions PROVE ReadInv'
    OBVIOUS
  <1> USE DEF ReadInv
  <1>1. PICK ended : /\ live' = live \ ended
                     /\ under' = [t \in Tasks |-> IF under[t] \in ended THEN 0
                                                  ELSE under[t]]
    BY DEF EndSessions
  <1>2. UNCHANGED <<documented, world, changes, sid, call, pc, carried, answer, told, out>>
    BY DEF EndSessions
  <1>3. TypeOK'
    BY <1>1, <1>2 DEF TypeOK
  <1>4. Functions'
    BY <1>2 DEF Functions
  <1>5. ASSUME NEW t \in Tasks PROVE TaskInv(t)'
    BY <1>1, <1>2, OthersKeep
  <1> QED
    BY <1>3, <1>4, <1>5

LEMMA BeginInv == ASSUME NEW t \in Tasks PROVE ReadInv /\ Begin(t) => ReadInv'
  <1> SUFFICES ASSUME ReadInv, Begin(t) PROVE ReadInv'
    OBVIOUS
  <1> USE DEF ReadInv, Begin, Payload, routerVars
  <1>1. out'[t] = Nothing
    BY DEF Functions
  <1>2. out'[t].type = "nothing"
    BY <1>1 DEF Nothing, Got
  <1>3. TypeOK'
    BY <1>2 DEF TypeOK, Functions
  <1>4. Functions'
    BY DEF Functions
  <1>5. ASSUME NEW u \in Tasks PROVE TaskInv(u)'
    <2>1. CASE u = t
      <3>1. Caller(t)'
        BY <1>1 DEF Caller, Reported, Nothing, Got, AuthenticationErrors, Builtins
      <3>2. /\ pc'[t] = "sent" /\ carried'[t] = sid /\ under'[t] \in {0, sid}
            /\ call'[t] \in RoutesCalled
        BY DEF TypeOK
      <3> QED
        BY <1>1, <2>1, <3>1, <3>2 DEF TaskInv
    <2>2. CASE u # t
      <3>1. /\ under'[u] = under[u] /\ pc'[u] = pc[u] /\ call'[u] = call[u]
            /\ carried'[u] = carried[u] /\ out'[u] = out[u]
        BY <2>2 DEF TypeOK, Functions
      <3> QED
        BY <3>1, OthersKeep
    <2> QED
      BY <2>1, <2>2
  <1> QED
    BY <1>3, <1>4, <1>5

LEMMA AnswerInv == ASSUME NEW t \in Tasks PROVE ReadInv /\ Answer(t) => ReadInv'
  <1> SUFFICES ASSUME ReadInv, Answer(t) PROVE ReadInv'
    OBVIOUS
  <1> USE DEF ReadInv, Answer, routerVars
  <1>1. PICK a \in Answers(t) : answer' = [answer EXCEPT ![t] = a]
    OBVIOUS
  <1>2. answer'[t] = a /\ told'[t] = world /\ world \in Worlds /\ pc'[t] = "answered"
    BY <1>1 DEF Functions, TypeOK
  <1>3. TaskInv(t) /\ pc[t] = "sent"
    OBVIOUS
  <1>4. call[t] \in DOMAIN Reads
    BY <1>3, ConstantFacts DEF TaskInv
  <1>5. /\ a.response \in Responses
        /\ documented =>
              \/ a \in Documented(call[t], world)
              \/ \E code \in Codes :
                    /\ code < 0
                    /\ a = Refusal(code)
                    /\ code \in RefusalCodes => under[t] = 0
    <2>1. CASE carried[t] \notin live
      <3>1. PICK code \in RefusalCodes : a = Refusal(code)
        BY <2>1 DEF Answers
      <3>2. code \in Codes /\ code < 0
        BY ConstantFacts
      <3>3. under[t] = 0
        BY <1>3, <2>1 DEF TaskInv, TypeOK
      <3> QED
        BY <3>1, <3>2, <3>3, GetsRefusal
    <2>2. CASE carried[t] \in live /\ ~documented
      <3>1. a.response \in Responses
        BY <2>2, ConstantFacts DEF Answers, AnyReply
      <3> QED
        BY <2>2, <3>1
    <2>3. CASE carried[t] \in live /\ documented /\ a \in Documented(call[t], world)
      BY <1>4, <2>3, DocumentedType
    <2>4. CASE carried[t] \in live /\ documented /\ a \notin Documented(call[t], world)
      <3>1. PICK code \in Codes \ RefusalCodes : code < 0 /\ a = Refusal(code)
        BY <2>4 DEF Answers
      <3> QED
        BY <3>1, GetsRefusal
    <2> QED
      BY <2>1, <2>2, <2>3, <2>4 DEF TypeOK
  <1>6. TypeOK'
    BY <1>1, <1>2, <1>5 DEF TypeOK, Functions
  <1>7. Functions'
    BY <1>1 DEF Functions
  <1>8. ASSUME NEW u \in Tasks PROVE TaskInv(u)'
    <2>1. CASE u = t
      <3>1. Caller(t)'
        BY <1>3 DEF TaskInv, Caller, Reported, Nothing, Got, AuthenticationErrors, Builtins
      <3>2. Answered(t)'
        BY <1>2, <1>5 DEF Answered
      <3> QED
        BY <1>3, <2>1, <3>1, <3>2 DEF TaskInv
    <2>2. CASE u # t
      <3>1. pc'[u] = pc[u] /\ answer'[u] = answer[u] /\ told'[u] = told[u]
        BY <1>1, <2>2 DEF TypeOK, Functions
      <3> QED
        BY <3>1, OthersKeep
    <2> QED
      BY <2>1, <2>2
  <1> QED
    BY <1>6, <1>7, <1>8

\* A call ends with something of a known type, for which both invariants hold.
Sound(t, got) ==
    /\ got.type \in Types \cup Exceptions \cup {"KeyError"}
    /\ documented => \/ got.type \in APIClientErrors
                     \/ got = Meaning(call[t], told[t])
                     \/ Surprise(call[t], told[t], got)
    /\ documented /\ got.type \in AuthenticationErrors => under[t] = 0

LEMMA EndInv ==
    ASSUME ReadInv, NEW t \in Tasks, NEW got, Sound(t, got), End(t, got)
    PROVE  ReadInv'
  <1> USE DEF ReadInv, End, routerVars
  <1>1. out'[t] = got /\ pc'[t] = "idle" /\ answer'[t] = NoAnswer
    BY DEF Functions, TypeOK
  <1>2. NoAnswer.response \in Responses
    BY ResultReturns DEF NoAnswer, PlainValues
  <1>3. \A u \in Tasks \ {t} :
           out'[u] = out[u] /\ pc'[u] = pc[u] /\ answer'[u] = answer[u]
    BY DEF Functions, TypeOK
  <1>4. TypeOK'
    <2>1. pc' \in [Tasks -> {"idle", "sent", "answered"}]
      BY DEF TypeOK
    <2>2. \A u \in Tasks : answer'[u].response \in Responses
      BY <1>1, <1>2, <1>3 DEF TypeOK
    <2>3. \A u \in Tasks : out'[u].type \in Types \cup Exceptions \cup {"KeyError", "nothing"}
      BY <1>1, <1>3 DEF TypeOK, Sound
    <2> QED
      BY <2>1, <2>2, <2>3 DEF TypeOK
  <1>5. Functions'
    BY DEF Functions
  <1>6. ASSUME NEW u \in Tasks PROVE TaskInv(u)'
    <2>1. CASE u = t
      <3>1. Meaning(call[t], told[t])' = Meaning(call[t], told[t])
        BY DEF Meaning, Fact, Got
      <3>2. Caller(t)'
        BY <1>1, <3>1 DEF Caller, Reported, Sound, Surprise
      <3> QED
        BY <1>1, <2>1, <3>2 DEF TaskInv
    <2>2. CASE u # t
      BY <1>3, <2>2, OthersKeep
    <2> QED
      BY <2>1, <2>2
  <1> QED
    BY <1>4, <1>5, <1>6

LEMMA ResumeInv == ASSUME NEW t \in Tasks PROVE ReadInv /\ Resume(t) => ReadInv'
  <1> SUFFICES ASSUME ReadInv, Resume(t) PROVE ReadInv'
    OBVIOUS
  <1> DEFINE got == Gets(call[t], answer[t])
  <1>1. End(t, got)
    BY DEF Resume, Gets
  <1>2. /\ TaskInv(t) /\ pc[t] = "answered" /\ Answered(t)
        /\ answer[t].response \in Responses /\ told[t] \in Worlds
    BY DEF ReadInv, Resume, TaskInv, TypeOK
  <1>3. call[t] \in DOMAIN Reads /\ IsWorld(told[t])
    BY <1>2, ConstantFacts DEF TaskInv
  <1>4. got.type \in Types \cup Exceptions \cup {"KeyError"}
    BY <1>2, <1>3, GetsType
  <1>6. ASSUME documented, answer[t] \in Documented(call[t], told[t])
        PROVE  /\ got = Meaning(call[t], told[t]) \/ Surprise(call[t], told[t], got)
               /\ got.type \notin AuthenticationErrors
    <2>1. got.type \in Types \cup Builtins \cup {"KeyError"}
      BY <1>3, <1>6, DocumentedType
    <2>2. got.type \notin AuthenticationErrors
      BY <2>1 DEF Types, AuthenticationErrors, Builtins
    <2> QED
      BY <1>3, <1>6, <2>2, DocumentedMeaning, FlattenMeaning DEF Surprise
  <1>7. Sound(t, got)
    <2>1. CASE ~documented
      BY <1>4, <2>1 DEF Sound
    <2>2. CASE documented
      <3>1. CASE answer[t] \in Documented(call[t], told[t])
        BY <1>4, <1>6, <2>2, <3>1 DEF Sound
      <3>2. CASE answer[t] \notin Documented(call[t], told[t])
        <4>1. got.type \in APIClientErrors
              /\ (got.type \in AuthenticationErrors => under[t] = 0)
          <5>1. PICK code \in Codes :
                   /\ code < 0
                   /\ answer[t] = Refusal(code)
                   /\ code \in RefusalCodes => under[t] = 0
            BY <1>2, <2>2, <3>2 DEF Answered
          <5>2. /\ Gets(call[t], Refusal(code)).type \in APIClientErrors
                /\ Gets(call[t], Refusal(code)).type \in AuthenticationErrors
                      => code \in RefusalCodes
            BY <5>1, GetsRefusal
          <5>3. got = Gets(call[t], Refusal(code))
            BY <5>1
          <5> QED
            BY <5>1, <5>2, <5>3
        <4> QED
          BY <1>4, <4>1 DEF Sound
      <3> QED
        BY <3>1, <3>2
    <2> QED
      BY <2>1, <2>2
  <1> QED
    BY <1>1, <1>7, EndInv

LEMMA LostInv == ASSUME NEW t \in Tasks PROVE ReadInv /\ Lost(t) => ReadInv'
  <1> SUFFICES ASSUME ReadInv, Lost(t) PROVE ReadInv'
    OBVIOUS
  <1>1. Sound(t, Raised("UnsuccessfulRequest"))
    BY DEF Sound, Raised, Exceptions, APIClientErrors, AuthenticationErrors, Builtins
  <1> QED
    BY <1>1, EndInv DEF Lost

LEMMA ReadInvariant == Spec => []ReadInv
  <1>1. ReadInv /\ [Next]_vars => ReadInv'
    <2> SUFFICES ASSUME ReadInv, [Next]_vars PROVE ReadInv'
      OBVIOUS
    <2>1. CASE Login
      BY <2>1, LoginInv
    <2>2. CASE Change
      BY <2>2, ChangeInv
    <2>3. CASE EndSessions
      BY <2>3, EndSessionsInv
    <2>4. ASSUME NEW t \in Tasks, Begin(t) PROVE ReadInv'
      BY <2>4, BeginInv
    <2>5. ASSUME NEW t \in Tasks, Answer(t) PROVE ReadInv'
      BY <2>5, AnswerInv
    <2>6. ASSUME NEW t \in Tasks, Resume(t) PROVE ReadInv'
      BY <2>6, ResumeInv
    <2>7. ASSUME NEW t \in Tasks, Lost(t) PROVE ReadInv'
      BY <2>7, LostInv
    <2>8. CASE UNCHANGED vars
      <3>1. TypeOK' /\ Functions'
        BY <2>8 DEF ReadInv, TypeOK, Functions, vars, routerVars, taskVars
      <3>2. ASSUME NEW t \in Tasks PROVE TaskInv(t)'
        BY <2>8, OthersKeep DEF ReadInv, vars, routerVars, taskVars
      <3> QED
        BY <3>1, <3>2 DEF ReadInv
    <2> QED
      BY <2>1, <2>2, <2>3, <2>4, <2>5, <2>6, <2>7, <2>8 DEF Next
  <1> QED
    BY <1>1, InitInv, PTL DEF Spec

-----------------------------------------------------------------------------
(* The theorems. *)

\* Every caller gets a value of a Python type, an exception the library names or
\* lets through, or nothing yet.
THEOREM TypeCorrect == Spec => []TypeOK
  BY ReadInvariant, PTL DEF ReadInv

\* In whichever documented envelope the firmware answers, a read gives what the
\* router held when it answered or an error of the library: for any contents of
\* the router, however it changes, and for any tasks and logins meanwhile.
THEOREM ReadsReport == Spec => []ReadsReportTheRouter
  <1>1. ReadInv => ReadsReportTheRouter
    BY DEF ReadInv, TaskInv, Caller, Surprise, ReadsReportTheRouter
  <1> QED
    BY <1>1, ReadInvariant, PTL

\* The one departure from what a read means is the KeyError of wireguard_client_list,
\* which nothing but a router without groups brings about: in every documented
\* envelope with a list in it the route flattens the groups the router held
\* (vpn.py:287-288), and no other route departs at all.
THEOREM DeparturesAreConfined ==
    Spec => [](documented => \A t \in Tasks :
                  \/ Reported(t)
                  \/ /\ call[t] = "wireguard_client_list" /\ told[t].groups = {}
                     /\ out[t] = Raised("KeyError"))
  <1>1. ReadInv => (documented => \A t \in Tasks :
                       \/ Reported(t)
                       \/ /\ call[t] = "wireguard_client_list" /\ told[t].groups = {}
                          /\ out[t] = Raised("KeyError"))
    BY DEF ReadInv, TaskInv, Caller, Surprise
  <1> QED
    BY <1>1, ReadInvariant, PTL

\* A read is refused for want of a session only if the one it began under ended.
THEOREM RefusalsNeedAnEnd == Spec => []RefusedOnlyWithoutSession
  <1>1. ReadInv => RefusedOnlyWithoutSession
    BY DEF ReadInv, TaskInv, Caller, RefusedOnlyWithoutSession
  <1> QED
    BY <1>1, ReadInvariant, PTL

\* A guarded route adds no exception to those of raise_for_status, whatever the reply
\* and whatever stands under its key; and lets through one that is none of the
\* library's only over a reply outside the envelope.
THEOREM GuardedReads == Spec => GuardedReadsSurvive
  <1>1. ASSUME ReadInv, [Next]_vars, NEW t \in Tasks,
               pc[t] = "answered", pc'[t] = "idle", call[t] \in GuardedRoutes,
               out'[t].type \notin Types \cup APIClientErrors
        PROVE  /\ raise_for_status(answer[t].response) = Raise(out'[t].type)
               /\ ~WellFormed(answer[t].response)
    <2>1. /\ pc \in [Tasks -> {"idle", "sent", "answered"}] /\ Functions
          /\ answer[t].response \in Responses
      BY <1>1 DEF ReadInv, TypeOK
    <2>2. Resume(t) \/ Lost(t)
      BY <1>1, <2>1
      DEF Next, Login, Change, EndSessions, Begin, Answer, Resume, Lost, End, vars, taskVars
    <2>3. CASE Lost(t)
      <3>1. out'[t] = Raised("UnsuccessfulRequest")
        BY <2>1, <2>3 DEF Lost, End, Functions
      <3> QED
        BY <1>1, <3>1 DEF Raised, APIClientErrors
    <2>4. CASE Resume(t)
      <3>1. out'[t] = Gets(call[t], answer[t])
        BY <2>1, <2>4 DEF Resume, End, Functions, Gets
      <3>2. call[t] \in DOMAIN Reads
        BY <1>1, ConstantFacts DEF ReadInv, TaskInv
      <3> QED
        BY <1>1, <2>1, <3>1, <3>2, GetsType
    <2> QED
      BY <2>2, <2>3, <2>4
  <1>2. ReadInv /\ [Next]_vars =>
          [\A t \in Tasks :
              /\ pc[t] = "answered" /\ pc'[t] = "idle"
              /\ call[t] \in GuardedRoutes
              /\ out'[t].type \notin Types \cup APIClientErrors
              => /\ raise_for_status(answer[t].response) = Raise(out'[t].type)
                 /\ ~WellFormed(answer[t].response)]_vars
    BY <1>1
  <1> QED
    BY <1>2, ReadInvariant, PTL DEF Spec, GuardedReadsSurvive
=============================================================================
