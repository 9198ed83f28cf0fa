---------------------------- MODULE Provisioning ----------------------------
(***************************************************************************)
(* What an installation is set up with and keeps, and what it reads of its *)
(* system: Https, Settings, LegacyFiles, IrRemote and Readings.  They      *)
(* share no state, so a behaviour moves one of them and leaves the others  *)
(* where they start: their product has nothing to add.                     *)
(***************************************************************************)
EXTENDS Https, Settings, LegacyFiles, IrRemote, Readings

VARIABLE focus   \* the part that moves

provisioning_vars == <<focus, https_vars, settings_vars, contents, ir_vars, readings_vars>>

ProvisioningInit ==
  /\ focus \in {"https", "settings", "files", "ir", "mdstat", "stats"}
  /\ HttpsInit /\ SettingsInit /\ FilesInit /\ IrInit /\ ReadingsInit
  /\ focus # "stats" => route = None

ProvisioningNext ==
  \/ /\ focus = "https" /\ HttpsNext
     /\ UNCHANGED <<focus, settings_vars, contents, ir_vars, readings_vars>>
  \/ /\ focus = "settings" /\ SettingsNext
     /\ UNCHANGED <<focus, https_vars, contents, ir_vars, readings_vars>>
  \/ /\ focus = "files" /\ AddLine
     /\ UNCHANGED <<focus, https_vars, settings_vars, ir_vars, readings_vars>>
  \/ /\ focus = "ir" /\ IrNext
     /\ UNCHANGED <<focus, https_vars, settings_vars, contents, readings_vars>>
  \/ /\ focus = "mdstat" /\ Assemble
     /\ UNCHANGED <<focus, https_vars, settings_vars, contents, ir_vars>>
  \/ /\ focus = "stats" /\ Stats
     /\ UNCHANGED <<focus, https_vars, settings_vars, contents, ir_vars>>

ProvisioningSpec == ProvisioningInit /\ [][ProvisioningNext]_provisioning_vars

(* The type invariants of the parts. *)
ProvisioningTypeOK == HttpsTypeOK /\ SettingsTypeOK /\ IrTypeOK /\ ReadingsTypeOK
=============================================================================
