-------------------------- MODULE SimpleCatalogue --------------------------
(***************************************************************************)
(* The panels of the simple mode (components/simple-config): most of their *)
(* forms are part of the page and follow the row of the device.            *)
(***************************************************************************)
EXTENDS PanelCatalogue

-----------------------------------------------------------------------------
(* The WAN form of the kind detected or chosen: its effect copies the      *)
(* client's row, and without one nothing does and the client is added.  A  *)
(* static address and its gateway are added, and the DNS servers that can  *)
(* be typed with them are in no change.                                    *)

WanDhcpForm ==
  Always({"interface"}) \cup Filled(Always({"use-peer-dns", "use-peer-ntp", "add-default-route"}))
WanPppoeForm ==
  IfSet({"user", "interface", "service-name"}) \cup Secret({"password"}) \cup Filled(Always({"use-peer-dns"}))
WanInputs == {"interface", "use-peer-dns", "use-peer-ntp", "add-default-route", "user", "password", "service-name"}
WanStaticForm == Always({"address", "interface", "gateway"})
WanStaticInputs == {"address", "interface", "gateway", "dns-servers"}
InternetSetupPanel ==
  Panel(Fields("effect", WanDhcpForm \cup WanPppoeForm, {}, WanInputs, Table({"edit"})) \cup
        Fields("held", WanDhcpForm \cup WanPppoeForm, {}, WanInputs, Table({"add"})) \cup
        Fields("held", WanStaticForm, {"address", "interface", "gateway"}, WanStaticInputs, Table({"add"})))

LanForm == Shown(Diff({"address", "ranges", "gateway", "dns-server", "lease-time"}))
LanInputs == {"address", "ranges", "gateway", "dns-server", "lease-time"}
LanDhcpPanel == Panel(Fields("effect", LanForm, {}, LanInputs, Table({"edit"})))

\* A form per interface, loaded when the interface is first seen and never
\* again; the passphrase is loaded empty and sent if set.
WifiForm ==
  Shown(SameIfMissing(
    Diff({"ssid", "band", "channel-width", "frequency", "security-profile"}) \cup Filled(Diff({"disabled"}))))
  \cup Secret({"passphrase"})
WifiInputs == {"ssid", "band", "channel-width", "frequency", "security-profile", "disabled", "passphrase"}
WifiSimplePanel == Panel(Fields("once", WifiForm, {}, WifiInputs, Table({"edit"})))

IdentityDiff == Shown(BlankIfMissing(Diff({"name"})))
TimeDiff ==
  Shown(BlankIfMissing(Diff({"time-zone-name", "server-dns-names"})) \cup SameIfMissing(Filled(Diff({"enabled"}))))
SystemInputs == {"name", "time-zone-name", "server-dns-names", "enabled"}
SystemSimplePanel == Panel(Fields("effect", IdentityDiff \cup TimeDiff, {}, SystemInputs, Table({"edit"})))

-----------------------------------------------------------------------------
SimpleResolverForm == Always({"servers", "allow-remote-requests", "cache-size"})
SimpleResolverInputs == {"servers", "allow-remote-requests", "cache-size"}
SimpleStaticForm == Always({"name", "address"}) \cup Filled(Always({"type"}))
SimpleStaticDialog == {"name", "address", "type"}
SimpleStaticTable == Table(Full)
DnsSimplePanel ==
  Panel(Fields("overlay", SimpleResolverForm, {}, SimpleResolverInputs, Table({"edit"})) \cup
        Fields("opener", SimpleStaticForm, {"name", "address"}, SimpleStaticDialog, SimpleStaticTable))

\* A rule's state is loaded and sent, and has no input.
RuleForm ==
  Filled(Always({"chain", "action"})) \cup Flag({"protocol", "disabled"}) \cup
  IfSet({"dst-port", "src-address", "comment"})
RuleDialog == {"chain", "action", "protocol", "dst-port", "src-address", "comment"}
RulesTable == Table(Full \cup {"toggle"})
AddrForm == Always({"list", "address"}) \cup IfSet({"comment"})
AddrDialog == {"list", "address", "comment"}
AddrTable == Table({"add", "remove"})
FirewallBasicsPanel ==
  Panel(Fields("opener", RuleForm, {}, RuleDialog, RulesTable) \cup
        Fields("opener", AddrForm, {"list", "address"}, AddrDialog, AddrTable))

\* The internal port defaults to the external one.
ForwardForm ==
  Filled(Always({"protocol"})) \cup Always({"dst-port", "to-addresses"}) \cup OrDefault({"to-ports"}) \cup
  IfSet({"comment"}) \cup Flag({"disabled"})
ForwardDialog == {"comment", "protocol", "dst-port", "to-addresses", "to-ports"}
ForwardTable == Table(Full \cup {"toggle"})
PortForwardingPanel ==
  Panel(Fields("opener", ForwardForm, {"dst-port", "to-addresses"}, ForwardDialog, ForwardTable))

-----------------------------------------------------------------------------
\* What the device page shows: the panels of the standard mode under its
\* tabs, those of the simple mode under its categories.
SimplePanels ==
  {InternetSetupPanel, LanDhcpPanel, WifiSimplePanel, PortForwardingPanel, FirewallBasicsPanel,
   DnsSimplePanel, SystemSimplePanel}

DevicePage == StandardPanels \cup SimplePanels
PageFields == UNION {p.fields : p \in DevicePage}
PageDiscards == {p.discards : p \in DevicePage}
=============================================================================
