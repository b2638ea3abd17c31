----------------------------- MODULE MCPrograms -----------------------------
(***************************************************************************)
(* Instances of Programs for TLC: versions 1 and 2 are of one major        *)
(* version, 3 is of the next, and the plugin published as 2 says it is 3.  *)
(***************************************************************************)
EXTENDS Programs, TLC

SomeVersions == {1, 2, 3}
MajorOf(v) == IF v = 3 THEN 2 ELSE 1
SaysOf(v) == IF v = 2 THEN 3 ELSE v
Alike == Permutations(Procs)
AnyFault == {"registry", "download", "unpack", "metadata", "rename", "copy", "record", "unlink", "crash"}
=============================================================================
