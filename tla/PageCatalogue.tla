--------------------------- MODULE PageCatalogue ----------------------------
(***************************************************************************)
(* The record pages of the console, as RecordPage tells them apart.  A     *)
(* page has one entry for each of its forms; each entry has all the row    *)
(* buttons of the page.  A button behind a confirmation is listed as the   *)
(* button that the confirmation is.                                        *)
(***************************************************************************)

\* A form whose fields are set by each opening and whose mutation belongs to
\* a component that stays mounted.
Dialog ==
  [adds |-> TRUE, edits |-> TRUE, load |-> "fresh", hook |-> "page", after |-> "close",
   hides |-> {}, clears |-> FALSE, holds |-> FALSE, rows |-> {}]

\* A form mounted when it is opened, with its mutation.
Mounted == [Dialog EXCEPT !.hook = "dialog"]

OnlyAdds(form) == [form EXCEPT !.edits = FALSE]
OnlyEdits(form) == [form EXCEPT !.adds = FALSE]

\* A create form that stays mounted with its fields, set by nothing.
Lasting == [OnlyAdds(Dialog) EXCEPT !.load = "keyed"]

Page(forms, rows) == {[form EXCEPT !.rows = rows] : form \in forms}

\* A page without a form of this kind.
Buttons(rows) == Page({[Dialog EXCEPT !.adds = FALSE, !.edits = FALSE]}, rows)

-----------------------------------------------------------------------------
(* Alerts.                                                                 *)

RuleFormDialog == Mounted
ChannelFormDialog == Mounted

\* Switching a rule, deleting a rule or a channel; testing a channel.
AlertRulesPage == Page({RuleFormDialog, ChannelFormDialog}, {"free", "quiet"})

\* The effect on [rule, open] sets the fields.
AlertRuleFormDialog == Dialog

AlertRulesTab == Page({AlertRuleFormDialog}, {"free"})

\* Acknowledging and silencing.
AlertRow == {"free"}
AlertsPage == Buttons(AlertRow)
DeviceAlertsSection == Buttons({"free"})

AlertEventsTable == Buttons({"serial"})

-----------------------------------------------------------------------------
(* Settings, users and tenants.                                            *)

\* openCreate and openEdit set the form.
CredentialForm == Dialog
CredentialProfilesPage == Page({CredentialForm}, {"free"})

\* openCreate, openClone and openEdit set every field, a saved profile leads
\* back to the list.  The test panel and the MIB upload work beside the form.
SNMPProfileForm == Dialog
ProfileTestPanel == {"quiet"}
SNMPProfileEditorPage == Page({SNMPProfileForm}, {"free"} \cup ProfileTestPanel)

\* The fields are reset when a key has been created, not when the dialog is
\* closed.
CreateKeyForm == [Lasting EXCEPT !.clears = TRUE]
ApiKeysPage == Page({CreateKeyForm}, {"serial"})

SMTPSettingsSection ==
  Page({[OnlyEdits(Dialog) EXCEPT !.load = "page", !.after = "stay"]}, {"quiet"})

\* handleClose resets the fields, and closes.
CreateUserForm == OnlyAdds(Dialog)
UserList == Page({CreateUserForm}, {"free"})

CreateTenantForm == OnlyAdds(Dialog)
TenantList == Page({CreateTenantForm}, {"free"})

\* A step of the first-time setup is gone when it is done.
CreateTenantStep == OnlyAdds(Mounted)
AddDeviceStep == OnlyAdds(Mounted)
SetupSteps == Page({CreateTenantStep, AddDeviceStep}, {})

\* The effect on [editWindow, open] sets the fields.
MaintenanceForm == Dialog
MaintenanceList == Page({MaintenanceForm}, {"serial"})

-----------------------------------------------------------------------------
(* Sites, VPN, certificates and templates.                                 *)

\* key={editSector?.id ?? 'new'}, and closing keeps editSector.
SectorFormDialog == [Dialog EXCEPT !.load = "keyed", !.hook = "key"]

\* Deleting a sector; assigning a device.
APCard == {"free"}
SiteSectorView == Page({SectorFormDialog}, {"serial"} \cup APCard)

\* The create dialog has no key; that of the edit dialog changes when it is
\* closed, which mounts it anew.
SiteFormDialog == {Lasting, OnlyEdits(Mounted)}
SiteTable == {"serial"}
SitesPage == Page(SiteFormDialog, SiteTable)

\* Adding a device keeps the selection when the dialog is closed.
AddPeerDialog == [Lasting EXCEPT !.clears = TRUE]

\* Enabling and deleting the VPN; switching it, removing a peer.
VpnPage == Page({AddPeerDialog}, {"serial", "free"})

\* Sign and deploy, and close 1.5 s after.  Each outcome is shown instead of
\* the fields; Try Again sets them as a new opening does.
DeployCertDialog == [OnlyAdds(Mounted) EXCEPT !.after = "later", !.hides = {"ok", "failed"}]

\* An answer of either kind replaces the selection by the results.
BulkDeployDialog == [OnlyAdds(Mounted) EXCEPT !.after = "stay", !.hides = {"ok", "failed"}]

\* Deploying, rotating and revoking, the last two confirmed.
CertConfirmDialog == {"serial"}
DeviceCertTable == Page({DeployCertDialog, BulkDeployDialog}, {"serial"} \cup CertConfirmDialog)
CAStatusCard == Buttons({"serial"})

\* handleEdit awaits the template before it shows the editor; the editor has
\* no key and takes its fields when it is mounted.
TemplateEditor == [Mounted EXCEPT !.load = "fetched"]
TemplatesPage == Page({TemplateEditor}, {"serial"})

-----------------------------------------------------------------------------
(* Devices.                                                                *)

\* Mounted with the page, which stays for another device that is cached.
EditDeviceDialog == [OnlyEdits(Dialog) EXCEPT !.load = "kept"]

\* The site, groups and tags, deleting; plain text is confirmed.
TlsModeSelector == {"free", "serial"}
DeviceDetailPage == Page({EditDeviceDialog}, TlsModeSelector)

\* Both tabs close the dialog a second after the device was added.
AddDeviceForm == [OnlyAdds(Dialog) EXCEPT !.after = "later"]
BulkAddForm == [OnlyAdds(Mounted) EXCEPT !.after = "stay", !.hides = {"ok"}]
AddDevice == Page({AddDeviceForm, BulkAddForm}, {})

\* Assigning the selected devices to a site; deleting a device.
BulkAssignDialog == [Lasting EXCEPT !.clears = TRUE]
FleetTable == Page({BulkAssignDialog}, {"free"})

ScanResultsList == OnlyAdds(Mounted)
ScanPage == Page({ScanResultsList}, {})

\* Closing the dialog leaves a running upgrade request alone.
UpgradeDialog == OnlyEdits(Mounted)
VersionGroupCard == Page({UpgradeDialog}, {})

\* The restore cannot be closed while it runs.  Backup and checkpoint.
RestoreButton == [OnlyEdits(Dialog) EXCEPT !.holds = TRUE]
ConfigTab == Page({RestoreButton}, {"serial"})
RollbackAlert == Buttons({"serial"})

\* The raw editor: the fields are set when the page mounts, before there is
\* an entry to show.
EntryForm == [Dialog EXCEPT !.load = "kept"]
ConfigEditorPage == Page({EntryForm}, {"serial"})

-----------------------------------------------------------------------------
Screens ==
  UNION {AlertRulesPage, AlertRulesTab, AlertsPage, DeviceAlertsSection, AlertEventsTable,
         CredentialProfilesPage, SNMPProfileEditorPage, ApiKeysPage, SMTPSettingsSection,
         UserList, TenantList, SetupSteps, MaintenanceList, SiteSectorView, SitesPage, VpnPage,
         DeviceCertTable, CAStatusCard, TemplatesPage, DeviceDetailPage, AddDevice, FleetTable,
         ScanPage, VersionGroupCard, ConfigTab, RollbackAlert, ConfigEditorPage}
=============================================================================
