------------------------------- MODULE Lists --------------------------------
(***************************************************************************)
(* Lists from which a loop drops elements: the rules of a firewall, the    *)
(* Port lines of sshd, the hosts of a database account.                    *)
(***************************************************************************)
EXTENDS Naturals, Sequences

Elems(s) == {s[i] : i \in DOMAIN s}

\* The elements of s that are in K, in their order.
Kept(s, K) ==
  LET kept[n \in 0..Len(s)] ==
        IF n = 0 THEN <<>>
        ELSE IF s[n] \in K THEN Append(kept[n - 1], s[n]) ELSE kept[n - 1]
  IN  kept[Len(s)]
=============================================================================
