----------------------------- MODULE Replacement -----------------------------
(***************************************************************************)
(* What installing and updating programs promises: whatever stops or runs  *)
(* at the same time, the path of a program holds the program it held, or   *)
(* another one that is complete and was published, or nothing.             *)
(***************************************************************************)
CONSTANTS
  Targets,   \* paths of programs
  Complete,  \* contents that are whole and published, or a link to a program
  Nothing    \* no file

VARIABLE dest

Init == dest \in [Targets -> Complete \cup {Nothing}]
Replaces(t) == \E c \in Complete : dest' = [dest EXCEPT ![t] = c]
Removes(t) == dest' = [dest EXCEPT ![t] = Nothing]
Next == \E t \in Targets : Replaces(t) \/ Removes(t)
Spec == Init /\ [][Next]_dest
=============================================================================
