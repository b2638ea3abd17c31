---------------------------- MODULE MCSshAccess ----------------------------
(***************************************************************************)
(* Instances of SshAccess for TLC.                                         *)
(***************************************************************************)
EXTENDS SshAccess

BothBackends == {"ufw", "firewalld"}
OldPort == {22}
NewPort == {2222}
TwoPorts == {22, 2222}
Never == {FALSE}
Either == BOOLEAN
Always == {TRUE}

SomeMain == {<<>>, <<22>>}
SomeOld  == {<<>>, <<22>>}

Unforced == {}
NoFaults == {}
ReloadFault == {"fwReload"}
\* Anywhere but between a change of firewalld and its reload.
Crashes == Labels \ {"fwReload"}
NoCrash == {}
UndoneFaults == AllFaults \ {"fwReload", "undo"}
=============================================================================
