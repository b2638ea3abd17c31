------------------------------- MODULE MCHost -------------------------------
(***************************************************************************)
(* Instances of Host for TLC.                                              *)
(***************************************************************************)
EXTENDS Host

\* user add and user remove meet the files of each other component.
AccountScope == {"userAdd", "userRemove", "grantSudo", "revokeSudo", "setGroups"}
LockScope    == {"userAdd", "userRemove", "lock", "unlock"}
LogoutScope  == {"userRemove", "logout"}
CronScope    == {"userAdd", "userRemove", "cronAdd", "cronRemove", "cronModify",
                 "cronEnable", "cronDisable", "cronRun"}
DaemonScope  == {"userAdd", "userRemove", "daemonInstall", "daemonAdd",
                 "daemonModify", "daemonRemove", "daemonControl"}
UpdateScope  == {"autoUpdates", "package", "reboot"}
ConfigScope  == {"config", "configReset"}
CacheScope   == {"cacheInstall", "cacheRemove", "cacheControl", "reboot"}
KeyScope     == {"userAdd", "keyAdd", "keyRemove"}
MostSteps == {"useradd", "group", "dropin", "deluser", "kill", "usermod", "savelocks",
              "dellock", "write", "supervisorctl", "package",
              "timer", "delete", "service"}
AllScopes == {AccountScope, LockScope, LogoutScope, KeyScope, CronScope, DaemonScope,
              UpdateScope, ConfigScope, CacheScope}
SomeValues == {1, 2}
OneValue == {1}
KeyScopes == {KeyScope}
NoSteps == {}
=============================================================================
