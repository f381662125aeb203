----------------------------- MODULE ClientDisk -----------------------------
(***************************************************************************)
(* The parts of the client that keep files, side by side: installs over    *)
(* the package cache, virtual packages, the infrastructure configurations  *)
(* and the settings.  They use files of their own, so a step is one of one *)
(* part.                                                                   *)
(***************************************************************************)
EXTENDS PackageInstall, VirtualPackages, ConfigManager, ClientConfig

diskVars == <<vars, layerVars, configVars, settingVars>>

DiskInit == Init /\ LayersInit /\ ConfigInit /\ SettingsInit

InstallsMove == Next /\ UNCHANGED <<layerVars, configVars, settingVars>>
LayersMove   == LayersNext /\ UNCHANGED <<vars, configVars, settingVars>>
ConfigsMove  == ConfigNext /\ UNCHANGED <<vars, layerVars, settingVars>>
SettingsMove == SettingsNext /\ UNCHANGED <<vars, layerVars, configVars>>

DiskNext == InstallsMove \/ LayersMove \/ ConfigsMove \/ SettingsMove

DiskSpec == DiskInit /\ [][DiskNext]_diskVars

\* The type invariants of the parts.
DiskTypeOK == TypeOK /\ LayersTypeOK /\ ConfigTypeOK /\ SettingsTypeOK
=============================================================================
