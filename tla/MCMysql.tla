------------------------------ MODULE MCMysql -------------------------------
(***************************************************************************)
(* Instances of Mysql for TLC.                                             *)
(***************************************************************************)
EXTENDS Mysql, TLC

Everything == AllCommands
RootCommands == {"configSet", "install", "reset"}
\* A drop-in that cannot be written again, or removed, stays as it is: the
\* undo of remote access is checked without.
MostFaults == AllFaults \ {"write", "unlink"}
NoFaults == {}
NoCrash  == {}
Crashes  == {"sql", "connect", "save", "write", "restart", "shutdown"}
LocalFlags == {"", "localhost", "127.0.0.1", "%"}
OnlyUsers == Users
\* No command tells one password from another.
AnyPassword == Permutations(Passwords)
=============================================================================
