----------------------------- MODULE MCProject -----------------------------
(***************************************************************************)
(* Instances of Project for TLC.                                           *)
(***************************************************************************)
EXTENDS Project

\* Everything but TLS, and everything but the runtimes.
PoolCommands == AllCommands \ {"sslAdd", "sslRemove"}
TlsCommands  == AllCommands \ {"runtimeSet"}
\* Commands that honour State.VhostDisabled.
KeepOffCommands == AllCommands \ {"redirect"}
Redirects == {"add", "remove", "enable", "disable", "redirect"}
Switches  == {"add", "remove", "modify", "runtimeSet", "enable", "disable"}

NotDry   == {}
DryPools == {"runtimeSet", "redirect"}
DryTls   == {"sslAdd", "sslRemove"}

NoFaults   == {}
\* The failures that a command undoes itself: not those of Enable once the old
\* link is gone ("link"), nor those that leave half a file.
UndoneFaults == {"ensure", "pool", "write", "nginx"}
NoDeleteFaults == AllFaults \ {"delete"}
NoSaveFaults   == AllFaults \ {"save"}
RollbackFaults == AllFaults \ {"poolfile", "resave"}

NoCrash     == {}
NotRemoving == AllCommands \ {"remove"}
TlsCrashes  == {"add", "vhostAdd", "sslAdd", "sslRemove"}
=============================================================================
