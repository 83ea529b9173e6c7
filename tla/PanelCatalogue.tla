--------------------------- MODULE PanelCatalogue ---------------------------
(***************************************************************************)
(* The configuration panels of the device page, read off one by one        *)
(* (components/config).  For each form of a panel:                         *)
(*                                                                         *)
(*   ...Form    the fields its handlers load and send, and when            *)
(*   ...Needs   the fields its validation refuses to be empty              *)
(*   ...Dialog  the fields it has an input for                             *)
(*   ...Table   what its table offers for a row                            *)
(*                                                                         *)
(* and for the panel the forms it shows, and whether its review bar has a  *)
(* discard button.  What the attributes mean is said in PanelForm.         *)
(***************************************************************************)

-----------------------------------------------------------------------------
(* The vocabulary.                                                         *)

Policy(F, send) ==
  {[name |-> f, send |-> send, need |-> "no", fill |-> FALSE, hide |-> FALSE,
    miss |-> "absent", vs |-> "opened", types |-> "always"] : f \in F}

Always(F) == Policy(F, "always")
OrDefault(F) == Policy(F, "filled")    \* x || 'default'
IfSet(F) == Policy(F, "ifset")         \* if (x) props.x = x
Diff(F) == Policy(F, "diff")           \* if (x !== entry.x) props.x = x
DiffSet(F) == Policy(F, "diffset")     \* if (x && x !== entry.x) props.x = x

Filled(P) == {[p EXCEPT !.fill = TRUE] : p \in P}             \* entry.x || 'default'
AddOnly(P) == {[p EXCEPT !.types = "add"] : p \in P}          \* disabled when editing
ToAdd(P) == {[p EXCEPT !.need = "add"] : p \in P}
Shown(P) == {[p EXCEPT !.vs = "shown"] : p \in P}
BlankIfMissing(P) == {[p EXCEPT !.miss = "blank"] : p \in P}  \* x !== (entry.x || '')
SameIfMissing(P) == {[p EXCEPT !.miss = "same"] : p \in P}    \* both with the same default
Secret(F) == {[p EXCEPT !.hide = TRUE] : p \in IfSet(F)}
Flag(F) == Filled(Policy(F, "ifother"))    \* if (x) props.x = 'true'; a value other than the default

Table(ops) == [ops |-> ops, guard |-> FALSE]
StaticRows(ops) == [ops |-> ops, guard |-> TRUE]    \* entry.dynamic !== 'true' && ...

\* How the fields of a form behave; a field that is not sent has an input only.
Fields(load, form, needs, dialog, table) ==
  {[ops |-> table.ops, guard |-> table.guard, load |-> load, send |-> p.send,
    need |-> IF p.name \in needs THEN "yes" ELSE p.need,
    fill |-> p.fill, hide |-> p.hide, miss |-> p.miss, vs |-> p.vs,
    types |-> IF p.name \in dialog THEN p.types ELSE "never"]
   : p \in form \cup Policy(dialog \ {q.name : q \in form}, "never")}

Panel(fields) == [discards |-> FALSE, fields |-> fields]
PanelWithDiscard(fields) == [discards |-> TRUE, fields |-> fields]

Full == {"add", "edit", "remove"}

-----------------------------------------------------------------------------
AddressNeeds == {"address", "interface"}
AddressForm == Always({"address", "interface"})
AddressDialog == {"address", "interface"}
AddressTable == StaticRows(Full)
AddressPanel == Panel(Fields("opener", AddressForm, AddressNeeds, AddressDialog, AddressTable))

RouteNeeds == {"dst-address", "gateway"}
RouteForm == Always({"dst-address", "gateway"}) \cup Flag({"distance"}) \cup IfSet({"routing-mark"})
RouteDialog == {"dst-address", "gateway", "distance", "routing-mark"}
RoutesTable == StaticRows(Full)
RoutesPanel == Panel(Fields("opener", RouteForm, RouteNeeds, RouteDialog, RoutesTable))

ArpNeeds == {"address", "mac-address", "interface"}
ArpForm == Always({"address", "mac-address", "interface"})
ArpDialog == {"address", "mac-address", "interface"}
ArpTable == StaticRows({"add", "remove"})
ArpPanel == Panel(Fields("opener", ArpForm, ArpNeeds, ArpDialog, ArpTable))

PoolNeeds == {"name", "ranges"}
PoolForm == Always({"name", "ranges"}) \cup IfSet({"next-pool"})
PoolDialog == {"name", "ranges", "next-pool"}
PoolTable == Table(Full)
PoolPanel == Panel(Fields("opener", PoolForm, PoolNeeds, PoolDialog, PoolTable))

-----------------------------------------------------------------------------
FilterForm ==
  Filled(Always({"chain", "action"})) \cup Flag({"disabled"}) \cup
  IfSet({"protocol", "src-address", "dst-address", "src-port", "dst-port",
         "in-interface", "out-interface", "comment"})
FilterRuleDialog ==
  {"chain", "action", "protocol", "src-address", "dst-address", "src-port", "dst-port",
   "in-interface", "out-interface", "comment", "disabled"}
FilterRulesTable == Table(Full \cup {"toggle"})

NatForm ==
  Filled(Always({"chain", "action"})) \cup Flag({"disabled"}) \cup
  IfSet({"protocol", "src-address", "dst-address", "src-port", "dst-port",
         "to-addresses", "to-ports", "comment"})
NatRuleDialog ==
  {"chain", "action", "protocol", "src-address", "dst-address", "src-port", "dst-port",
   "to-addresses", "to-ports", "comment", "disabled"}
NatRulesTable == Table(Full \cup {"toggle"})

FirewallPanel ==
  Panel(Fields("opener", FilterForm, {}, FilterRuleDialog, FilterRulesTable) \cup
        Fields("opener", NatForm, {}, NatRuleDialog, NatRulesTable))

MangleForm ==
  Filled(Always({"chain", "action"})) \cup
  IfSet({"src-address", "dst-address", "protocol", "dst-port", "new-connection-mark",
         "new-packet-mark", "new-routing-mark", "comment"})
MangleDialog ==
  {"chain", "action", "src-address", "dst-address", "protocol", "dst-port",
   "new-connection-mark", "new-packet-mark", "new-routing-mark", "comment"}
MangleTable == Table(Full)
ManglePanel == Panel(Fields("opener", MangleForm, {"chain", "action"}, MangleDialog, MangleTable))

\* The bulk import adds one change per line, as the dialog does for one.
AddressListForm == Always({"list", "address"}) \cup IfSet({"comment"})
AddressListDialog == {"list", "address", "comment"}
AddressListTable == StaticRows({"add", "remove"})
AddressListPanel ==
  Panel(Fields("opener", AddressListForm, {"list", "address"}, AddressListDialog, AddressListTable))

\* The dialog edits a copy of the settings, and the differences are taken to
\* the settings as they are when it is saved.
ConnTrackForm == Shown(DiffSet({"max-entries", "timeout"}) \cup Filled(DiffSet({"enabled"})))
ConnTrackDialog == {"enabled", "max-entries", "timeout"}
ConnTrackPanel == Panel(Fields("opener", ConnTrackForm, {}, ConnTrackDialog, Table({"edit"})))

-----------------------------------------------------------------------------
(* The dialogs of the interfaces panel load their form in onOpenChange.    *)

IpAddressForm == Always({"address", "interface"}) \cup Filled(Always({"disabled"}))
IpAddressDialog == {"address", "interface", "disabled"}
IpAddressesTab == Table(Full \cup {"toggle"})

VlanForm == Always({"name", "vlan-id", "interface"}) \cup Filled(Always({"disabled"}))
VlanDialog == {"name", "vlan-id", "interface", "disabled"}
VlansTab == Table(Full \cup {"toggle"})

BridgeForm == Always({"name"}) \cup Filled(Always({"protocol-mode"}))
BridgeDialog == {"name", "protocol-mode"}
BridgesTab == Table(Full \cup {"toggle"})

BridgeMemberForm == Always({"interface", "bridge"}) \cup Filled(Always({"pvid"}))
BridgeMemberDialog == {"interface", "bridge", "pvid"}
BridgeMembers == Table(Full)

InterfacesPanel ==
  Panel(Fields("handler", IpAddressForm, {"address", "interface"}, IpAddressDialog, IpAddressesTab) \cup
        Fields("handler", VlanForm, {"name", "vlan-id", "interface"}, VlanDialog, VlansTab) \cup
        Fields("handler", BridgeForm, {"name"}, BridgeDialog, BridgesTab) \cup
        Fields("handler", BridgeMemberForm, {"interface", "bridge"}, BridgeMemberDialog, BridgeMembers))

BridgePortForm ==
  DiffSet({"interface", "bridge"}) \cup
  Filled(DiffSet({"pvid", "frame-types", "ingress-filtering", "path-cost", "priority", "edge", "hw"}))
BridgePortDialog ==
  {"interface", "bridge", "pvid", "frame-types", "ingress-filtering", "hw", "path-cost", "priority", "edge"}
BridgePortTable == Table(Full)
BridgePortPanel ==
  Panel(Fields("opener", BridgePortForm, {"interface", "bridge"}, BridgePortDialog, BridgePortTable))

\* The toggle is the VLAN filtering of the bridge.
BridgeVlanForm == Diff({"bridge", "vlan-ids", "tagged", "untagged"})
BridgeVlanDialog == {"bridge", "vlan-ids", "tagged", "untagged"}
BridgeVlanTable == Table(Full \cup {"toggle"})
BridgeVlanPanel ==
  Panel(Fields("opener", BridgeVlanForm, {"vlan-ids", "bridge"}, BridgeVlanDialog, BridgeVlanTable))
-----------------------------------------------------------------------------
ServerForm ==
  Always({"name", "interface", "address-pool"}) \cup Filled(OrDefault({"lease-time"})) \cup Flag({"disabled"})
ServerDialog == {"name", "interface", "address-pool", "lease-time", "disabled"}
ServersTab == Table(Full \cup {"toggle"})

DhcpPoolForm == Always({"name", "ranges"})
DhcpPoolDialog == {"name", "ranges"}
PoolsTab == Table(Full)

\* The toggle makes a lease static.
LeaseForm == Always({"address", "mac-address"}) \cup IfSet({"server", "comment"})
LeaseDialog == {"address", "mac-address", "server", "comment"}
LeasesTab == Table({"add", "remove", "toggle"})

NetworkForm == Always({"address", "gateway"}) \cup IfSet({"dns-server", "domain"})
NetworkDialog == {"address", "gateway", "dns-server", "domain"}
NetworksTab == Table(Full)

DhcpPanel ==
  Panel(Fields("opener", ServerForm, {"name", "interface", "address-pool"}, ServerDialog, ServersTab) \cup
        Fields("opener", DhcpPoolForm, {"name", "ranges"}, DhcpPoolDialog, PoolsTab) \cup
        Fields("opener", LeaseForm, {"address", "mac-address"}, LeaseDialog, LeasesTab) \cup
        Fields("opener", NetworkForm, {"address", "gateway"}, NetworkDialog, NetworksTab))

DhcpClientForm ==
  AddOnly(Always({"interface"})) \cup IfSet({"comment"}) \cup
  Filled(Always({"use-peer-dns", "use-peer-ntp", "add-default-route"}))
DhcpClientDialog == {"interface", "use-peer-dns", "use-peer-ntp", "add-default-route", "comment"}
DhcpClientTable == Table(Full \cup {"toggle"})
DhcpClientPanel ==
  Panel(Fields("opener", DhcpClientForm, {"interface"}, DhcpClientDialog, DhcpClientTable))

\* The settings are an overlay: what is edited is sent, and nothing else.
ResolverForm == Always({"servers", "allow-remote-requests", "max-udp-packet-size", "cache-size"})
ResolverSettings == {"servers", "allow-remote-requests", "max-udp-packet-size", "cache-size"}

StaticNeeds == {"name", "address"}
StaticForm == Always({"name", "address"}) \cup Filled(Always({"type"})) \cup IfSet({"ttl"}) \cup Flag({"disabled"})
StaticDialog == {"name", "address", "type", "ttl", "disabled"}
StaticTable == Table(Full)

DnsPanel ==
  Panel(Fields("overlay", ResolverForm, {}, ResolverSettings, Table({"edit"})) \cup
        Fields("opener", StaticForm, StaticNeeds, StaticDialog, StaticTable))

-----------------------------------------------------------------------------
(* The dialogs of the queue and wireless panels load their form in         *)
(* onOpenChange; these panels can discard what is staged.                  *)

SimpleQueueForm ==
  Always({"name", "target", "max-limit"}) \cup Filled(OrDefault({"priority"})) \cup
  Filled(Always({"disabled"})) \cup IfSet({"burst-limit", "burst-threshold", "burst-time"})
SimpleQueueDialog ==
  {"name", "target", "max-limit", "burst-limit", "burst-threshold", "burst-time", "priority", "disabled"}
SimpleQueuesTable == Table(Full \cup {"toggle"})

QueueTreeForm ==
  Always({"name"}) \cup Filled(OrDefault({"parent", "priority"})) \cup
  IfSet({"packet-mark", "max-limit"}) \cup Filled(IfSet({"queue"}))
QueueTreeDialog == {"name", "parent", "packet-mark", "queue", "priority", "max-limit"}
QueueTreeView == Table(Full)

QueuesPanel ==
  PanelWithDiscard(
    Fields("handler", SimpleQueueForm, {"name", "target"}, SimpleQueueDialog, SimpleQueuesTable) \cup
    Fields("handler", QueueTreeForm, {"name"}, QueueTreeDialog, QueueTreeView))

WirelessForm ==
  IfSet({"ssid", "band", "channel-width", "frequency", "security-profile", "security.passphrase"}) \cup
  Filled(Always({"disabled"}))
WirelessEditDialog ==
  {"ssid", "band", "channel-width", "frequency", "security-profile", "security.passphrase", "disabled"}
WirelessInterfacesTable == Table({"edit", "remove", "toggle"})

SecurityProfileForm ==
  AddOnly(Always({"name"})) \cup Filled(Always({"mode"})) \cup Always({"authentication-types"}) \cup
  Secret({"wpa-pre-shared-key", "wpa2-pre-shared-key"})
SecurityProfileDialog ==
  {"name", "mode", "authentication-types", "wpa-pre-shared-key", "wpa2-pre-shared-key"}
SecurityProfilesTable == Table(Full)

WifiPanel ==
  PanelWithDiscard(
    Fields("handler", WirelessForm, {}, WirelessEditDialog, WirelessInterfacesTable) \cup
    Fields("handler", SecurityProfileForm, {"name"}, SecurityProfileDialog, SecurityProfilesTable))

-----------------------------------------------------------------------------
ScriptForm == Always({"name", "source"})
ScriptDialog == {"name", "source"}
ScriptsTab == Table(Full)

SchedulerForm == Always({"name", "on-event"}) \cup Filled(Always({"start-time", "interval"}))
SchedulerDialog == {"name", "start-time", "interval", "on-event"}
SchedulerTab == Table(Full \cup {"toggle"})

ScriptsPanel ==
  Panel(Fields("opener", ScriptForm, {"name", "source"}, ScriptDialog, ScriptsTab) \cup
        Fields("opener", SchedulerForm, {"name", "on-event"}, SchedulerDialog, SchedulerTab))

IdentityForm == Always({"name"})
IdentityTab == {"name"}
ClockForm == Always({"time-zone-name"})
NtpForm == Filled(Always({"enabled"})) \cup IfSet({"primary-ntp"})
ClockTab == {"time-zone-name", "enabled", "primary-ntp"}
SystemPanel ==
  Panel(Fields("opener", IdentityForm, {"name"}, IdentityTab, Table({"edit"})) \cup
        Fields("opener", ClockForm \cup NtpForm, {"time-zone-name"}, ClockTab, Table({"edit"})))

UserNeeds == {"name", "group"}
UserForm ==
  Always({"name"}) \cup Filled(Always({"group"})) \cup ToAdd(Secret({"password"})) \cup IfSet({"allowed-address"})
UserDialog == {"name", "password", "group", "allowed-address"}
UsersTable == Table(Full)
UsersPanel == Panel(Fields("opener", UserForm, UserNeeds, UserDialog, UsersTable))

ServiceForm == DiffSet({"port"}) \cup Diff({"address"}) \cup Filled(Diff({"disabled"}))
ServiceDialog == {"port", "address", "disabled"}
ServiceTable == Table({"edit", "toggle"})
ServicesPanel == Panel(Fields("opener", ServiceForm, {}, ServiceDialog, ServiceTable))

\* The toggle is the SNMP agent.  The protocols of a community are loaded and
\* sent, and have no input.
SnmpSettingsForm ==
  Shown(BlankIfMissing(
    Diff({"contact", "location", "engine-id", "trap-target", "trap-community"}) \cup Filled(Diff({"trap-version"}))))
SnmpSettingsDialog == {"contact", "location", "engine-id", "trap-target", "trap-community", "trap-version"}
CommunityForm ==
  Diff({"name", "addresses"}) \cup
  Filled(Diff({"read-access", "write-access", "security", "authentication-protocol", "encryption-protocol"}))
CommunityDialog == {"name", "addresses", "read-access", "write-access", "security"}
CommunityTable == Table(Full)
SnmpPanel ==
  Panel(Fields("opener", SnmpSettingsForm, {}, SnmpSettingsDialog, Table({"edit", "toggle"})) \cup
        Fields("opener", CommunityForm, {"name"}, CommunityDialog, CommunityTable))

-----------------------------------------------------------------------------
ProfileForm ==
  Always({"name"}) \cup IfSet({"local-address", "remote-address", "dns-server", "rate-limit", "bridge"})
ProfileDialog == {"name", "local-address", "remote-address", "dns-server", "rate-limit", "bridge"}
ProfilesTab == Table(Full)

SecretForm ==
  Always({"name"}) \cup Filled(Always({"service", "profile"})) \cup
  Secret({"password"}) \cup IfSet({"caller-id", "remote-address"})
SecretDialog == {"name", "password", "service", "profile", "caller-id", "remote-address"}
SecretsTab == Table(Full)

PppPanel ==
  Panel(Fields("opener", ProfileForm, {"name"}, ProfileDialog, ProfilesTab) \cup
        Fields("opener", SecretForm, {"name"}, SecretDialog, SecretsTab))

PeerForm == Always({"address"}) \cup Filled(Always({"auth-method", "exchange-mode"})) \cup Secret({"secret"})
PeerDialog == {"address", "auth-method", "exchange-mode", "secret"}
PeersTab == Table(Full)

PolicyForm == Always({"src-address", "dst-address"}) \cup Filled(Always({"tunnel", "action", "level", "proposal"}))
PolicyDialog == {"src-address", "dst-address", "tunnel", "action", "proposal"}
PoliciesTab == Table(Full)

ProposalForm == Always({"name", "auth-algorithms", "enc-algorithms", "pfs-group"})
ProposalDialog == {"name", "auth-algorithms", "enc-algorithms", "pfs-group"}
ProposalsTab == Table(Full)

IpsecPanel ==
  Panel(Fields("opener", PeerForm, {"address"}, PeerDialog, PeersTab) \cup
        Fields("opener", PolicyForm, {}, PolicyDialog, PoliciesTab) \cup
        Fields("opener", ProposalForm, {"name"}, ProposalDialog, ProposalsTab))

-----------------------------------------------------------------------------
StandardPanels ==
  {AddressPanel, RoutesPanel, ArpPanel, PoolPanel, FirewallPanel, ManglePanel, AddressListPanel,
   ConnTrackPanel, InterfacesPanel, BridgePortPanel, BridgeVlanPanel, DhcpPanel, DhcpClientPanel,
   DnsPanel, QueuesPanel, WifiPanel, ScriptsPanel, SystemPanel, UsersPanel, ServicesPanel, SnmpPanel,
   PppPanel, IpsecPanel}
=============================================================================
