------------------------------- MODULE Routes --------------------------------
(***************************************************************************)
(* The reading routes of glinet4/_routes/*.py: the RPC each one sends and  *)
(* what it makes of the reply.  Left to other modules: router_info and     *)
(* router_mac, wireguard_client_state (FirmwareRouting), the tailscale     *)
(* configuration and status (Tailscale).                                   *)
(*                                                                         *)
(* A reply is what raise_for_status returned: its value class, as in       *)
(* ErrorHandling ("other" is an object holding the key the route looks     *)
(* for, "empty" one without it), the entries it carries, and whether there *)
(* is a scalar under that key, None or a number, in place of a collection  *)
(* or a text.                                                              *)
(***************************************************************************)
EXTENDS ErrorHandling

CONSTANTS
    Secret,     \* a wifi password
    Redacted    \* None in its place

\* What a caller gets: a value of a Python type with the entries in it (a
\* number, a string or True has one entry, 0, "", False and None have none), a
\* scalar that a route hands on as it stands ("scalar"), or an exception.
Got(type, entries) == [type |-> type, entries |-> entries]
Raised(exception) == [type |-> exception, entries |-> {}]

Types == {"dict", "list", "set", "str", "int", "bool", "None", "scalar"}

-----------------------------------------------------------------------------
(* The routes. "whole" returns the reply as it is, "field" returns          *)
(* response.get(key, default), "own" has an operator of its own below.      *)

Whole(service, method, type) ==
    [reads |-> "whole", rpc |-> <<service, method>>, key |-> "none", type |-> type]
Field(service, method, key, type) ==
    [reads |-> "field", rpc |-> <<service, method>>, key |-> key, type |-> type]
Own(service, method, key, type) ==
    [reads |-> "own", rpc |-> <<service, method>>, key |-> key, type |-> type]

SystemReads ==
    [router_status          |-> Own("system", "get_status", "wifi", "dict"),
     router_load            |-> Whole("system", "get_load", "dict"),
     router_unixtime        |-> Field("system", "get_unixtime", "time", "int"),
     router_disk_info       |-> Whole("system", "disk_info", "dict"),
     router_usb_info        |-> Whole("system", "get_usb_info", "list"),
     router_timezone_config |-> Whole("system", "get_timezone_config", "dict")]

WifiReads ==
    [wifi_status         |-> Field("wifi", "get_status", "res", "list"),
     wifi_mlo_config     |-> Field("wifi", "get_mlo_config", "res", "dict"),
     wifi_ifaces         |-> Own("wifi", "get_config", "res", "dict"),
     wifi_ifaces_showing |-> Own("wifi", "get_config", "res", "dict")]

WanReads ==
    [ping                         |-> Own("diag", "ping", "ping_result", "bool"),
     wan_upstream_router_detected |-> Own("edgerouter", "get_status", "detected", "bool"),
     wan_cable_state              |-> Whole("network", "check_wan_cable", "dict"),
     wan_status                   |-> Whole("cable", "get_status", "dict"),
     wan_info                     |-> Field("lan", "get_wan_info", "wan_info", "list"),
     ethernet_ports_status        |-> Field("cable", "get_ports_status", "ports", "list"),
     network_mode                 |-> Field("netmode", "get_mode", "mode", "str"),
     network_interfaces_status    |-> Field("system", "get_network_status", "network", "list"),
     wan_speed                    |-> Whole("clients", "get_wan_speed", "dict")]

ClientsReads ==
    [clients_speed       |-> Whole("clients", "get_speed", "dict"),
     clients_status      |-> Whole("clients", "get_status", "dict"),
     blocked_client_macs |-> Own("clients", "get_list", "clients", "set"),
     clients_list        |-> Whole("clients", "get_list", "dict"),
     static_clients_list |-> Field("lan", "get_static_bind_list", "static_bind_list", "list"),
     connected_clients   |-> Own("clients", "get_list", "clients", "dict")]

OpenVpnReads ==
    [openvpn_server_status  |-> Whole("ovpn-server", "get_status", "dict"),
     openvpn_server_config  |-> Whole("ovpn-server", "get_config", "dict"),
     openvpn_server_setting |-> Whole("ovpn-server", "get_setting", "dict"),
     openvpn_server_users   |-> Field("ovpn-server", "get_user_list", "user_list", "list"),
     openvpn_server_routes  |-> Whole("ovpn-server", "get_route_list", "dict"),
     openvpn_client_groups  |-> Field("ovpn-client", "get_group_list", "groups", "list"),
     openvpn_client_configs |->
         Field("ovpn-client", "get_all_config_list", "config_list", "list")]

WireguardReads ==
    [wireguard_server_status  |-> Whole("wg-server", "get_status", "dict"),
     wireguard_server_config  |-> Whole("wg-server", "get_config", "dict"),
     wireguard_server_setting |-> Whole("wg-server", "get_setting", "dict"),
     wireguard_server_peers   |-> Field("wg-server", "get_peer_list", "peers", "list"),
     wireguard_server_routes  |-> Whole("wg-server", "get_route_list", "dict"),
     wireguard_client_groups  |-> Field("wg-client", "get_group_list", "groups", "list"),
     wireguard_client_configs |->
         Field("wg-client", "get_all_config_list", "config_list", "list"),
     vpn_client_status        |-> Whole("vpn-client", "get_status", "dict"),
     vpn_client_tunnels       |-> Whole("vpn-client", "get_tunnel", "dict")]

WireguardClientReads ==
    [wireguard_client_list |-> Own("wg-client", "get_all_config_list", "config_list", "list")]

TailscaleReads ==
    [tailscale_auth_url       |-> Own("tailscale", "get_auth_url", "auth_url", "str"),
     tailscale_exit_node_list |->
         Own("tailscale", "get_exit_node_list", "exit_node_list", "list")]

FlowStatsReads ==
    [flow_stats_rule     |-> Whole("flow_statistics", "get_statistics_rule", "dict"),
     flow_stats_top_apps |->
         Own("flow_statistics", "get_top_app_flow_statistics", "top_apps", "list"),
     network_acceleration |-> Whole("network", "get_netnat_config", "dict")]

ServicesReads ==
    [parental_control_config |-> Whole("parental-control", "get_config", "dict"),
     content_filter_config   |-> Whole("black_white_list", "get_config", "dict"),
     access_control_groups   |-> Field("acl", "get_group_list", "groups", "list"),
     adguard_config          |-> Whole("adguardhome", "get_config", "dict"),
     tor_config              |-> Whole("tor", "get_config", "dict"),
     zerotier_config         |-> Whole("zerotier", "get_config", "dict"),
     led_config              |-> Whole("led", "get_config", "dict"),
     firmware_check_online   |-> Whole("upgrade", "check_firmware_online", "dict"),
     upgrade_config          |-> Whole("upgrade", "get_config", "dict")]

FirewallReads ==
    [firewall_port_forward_list |-> Field("firewall", "get_port_forward_list", "res", "list"),
     firewall_dmz               |-> Whole("firewall", "get_dmz", "dict"),
     firewall_wan_access        |-> Whole("firewall", "get_wan_access", "dict"),
     firewall_rule_list         |-> Field("firewall", "get_rule_list", "res", "list")]

DnsLanReads ==
    [dns_config       |-> Whole("dns", "get_config", "dict"),
     dns_providers    |-> Whole("dns", "get_info", "list"),
     arp_table        |-> Field("network", "get_arp_list", "entries", "list"),
     lan_interfaces   |-> Field("lan", "get_config_list", "interfaces", "list"),
     ipv6_config      |-> Whole("ipv6", "get_ipv6", "dict"),
     ddns_config      |-> Whole("ddns", "get_config", "dict"),
     ddns_status      |-> Whole("ddns", "get_status", "dict"),
     multiwan_config  |-> Whole("kmwan", "get_config", "dict"),
     multiwan_status  |-> Whole("kmwan", "get_status", "dict")]

RepeaterQosReads ==
    [repeater_config    |-> Whole("repeater", "get_config", "dict"),
     repeater_status    |-> Whole("repeater", "get_status", "dict"),
     repeater_saved_aps |-> Field("repeater", "get_saved_ap_list", "res", "list"),
     tethering_status   |-> Whole("tethering", "get_status", "dict"),
     tethering_config   |-> Whole("tethering", "get_config", "list"),
     qos_config         |-> Whole("qos", "get_config", "dict"),
     qos_clients        |-> Field("qos", "get_client_list", "clients", "list"),
     qos_device_groups  |-> Field("qos", "get_device_group", "group", "list"),
     sqm_config         |-> Whole("sqm", "get_config", "dict")]

FanReads ==
    [fan_status |-> Whole("fan", "get_status", "dict"),
     fan_config |-> Whole("fan", "get_config", "dict")]

Tables ==
    {SystemReads, WifiReads, WanReads, ClientsReads, OpenVpnReads, WireguardReads,
     WireguardClientReads, TailscaleReads, FlowStatsReads, ServicesReads, FirewallReads,
     DnsLanReads, RepeaterQosReads, FanReads}

Reads ==
    [route \in UNION {DOMAIN table : table \in Tables} |->
        (CHOOSE table \in Tables : route \in DOMAIN table)[route]]

-----------------------------------------------------------------------------
(* What a route makes of a reply. *)

IsDict(reply) == reply.value \in DictValues \cup {"envelope"}
IsList(reply) == reply.value \in {"list", "empty_list"}
HasKey(reply) == reply.value = "other"
HasScalar(reply) == HasKey(reply) /\ reply.scalar

TypeOf(reply) ==
    IF IsDict(reply) THEN "dict" ELSE IF IsList(reply) THEN "list" ELSE "None"

Bool(true) == Got("bool", IF true THEN {"yes"} ELSE {})

ReadField(type, reply) ==
    IF ~IsDict(reply) THEN Raised("AttributeError")
    ELSE IF HasScalar(reply) THEN Got("scalar", {})
    ELSE Got(type, IF HasKey(reply) THEN reply.entries ELSE {})

\* A loop over response[key] of what should be an object.
Indexed(reply, got) ==
    CASE HasScalar(reply) \/ ~IsDict(reply) -> Raised("TypeError")
      [] HasKey(reply) /\ ~reply.scalar -> got
      [] OTHER -> Raised("KeyError")

\* The entries of ping_result are the lines with "bytes from"; a scalar cannot be
\* searched for them.
ping(reply) ==
    IF HasScalar(reply) THEN Raised("TypeError")
    ELSE Bool(IF HasKey(reply) THEN reply.entries # {} ELSE reply.value # "empty_list")

wan_upstream_router_detected(reply) == Bool(HasKey(reply) /\ reply.entries # {})

tailscale_auth_url(reply) ==
    IF HasKey(reply) THEN ReadField("str", reply) ELSE Got("None", {})

\* Mutation: the object is unwrapped without asking whether it is one.
UnwrapAlways(reply) == ReadField("list", reply)

\* tailscale_exit_node_list and flow_stats_top_apps: an envelope or a bare list.
UnwrapOrBare(reply) ==
    IF IsDict(reply) THEN ReadField("list", reply)
    ELSE Got("list", IF IsList(reply) THEN reply.entries ELSE {})

\* An entry of the wifi configuration or status: an interface and its password.
Redact(ifaces) == {[iface EXCEPT !.key = Redacted] : iface \in ifaces}

router_status(reply) ==
    IF TypeOf(reply) = "None" \/ HasScalar(reply) THEN Raised("TypeError")
    ELSE Got(TypeOf(reply),
             IF HasKey(reply) THEN Redact(reply.entries) ELSE reply.entries)

\* Mutation: the keys are shown unless the caller asks to have them redacted.
wifi_ifaces_swapped(redact_keys, reply) ==
    LET read == ReadField("dict", reply)
    IN  IF HasScalar(reply) THEN Raised("TypeError")
        ELSE IF redact_keys THEN read ELSE [read EXCEPT !.entries = Redact(@)]

wifi_ifaces(redact_keys, reply) ==
    LET read == ReadField("dict", reply)
    IN  IF HasScalar(reply) THEN Raised("TypeError")
        ELSE IF redact_keys THEN [read EXCEPT !.entries = Redact(@)] ELSE read

\* Mutation: clients that went offline are still reported as connected.
EveryClient(reply) == Indexed(reply, Got("dict", reply.entries))

connected_clients(reply) ==
    Indexed(reply, Got("dict", {c \in reply.entries : c.online}))

blocked_client_macs(reply) ==
    Indexed(reply, Got("set", {c.mac : c \in {d \in reply.entries : d.blocked}}))

\* The entries of config_list are groups with their peers.
wireguard_client_list(reply) ==
    Indexed(reply, Got("list", UNION {{[group |-> item.group, peer |-> peer] :
                                          peer \in item.peers} : item \in reply.entries}))

ReadOwn(route, reply) ==
    CASE route = "ping" -> ping(reply)
      [] route = "wan_upstream_router_detected" -> wan_upstream_router_detected(reply)
      [] route = "tailscale_auth_url" -> tailscale_auth_url(reply)
      [] route \in {"tailscale_exit_node_list", "flow_stats_top_apps"} -> UnwrapOrBare(reply)
      [] route = "router_status" -> router_status(reply)
      [] route = "wifi_ifaces" -> wifi_ifaces(TRUE, reply)
      [] route = "wifi_ifaces_showing" -> wifi_ifaces(FALSE, reply)
      [] route = "connected_clients" -> connected_clients(reply)
      [] route = "blocked_client_macs" -> blocked_client_macs(reply)
      [] route = "wireguard_client_list" -> wireguard_client_list(reply)

Read(route, reply) ==
    LET read == Reads[route]
    IN  CASE read.reads = "whole" -> Got(TypeOf(reply), reply.entries)
          [] read.reads = "field" -> ReadField(read.type, reply)
          [] read.reads = "own" -> ReadOwn(route, reply)
=============================================================================
