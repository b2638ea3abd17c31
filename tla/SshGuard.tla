------------------------------ MODULE SshGuard ------------------------------
(***************************************************************************)
(* The SSH lockout check of internal/services/firewall (sshguard.go and    *)
(* protect.go), and what the two firewalls really do with a list of rules. *)
(*                                                                         *)
(* A rule is what parseUFWRules and parseFirewalldRules read: an action, a *)
(* port (or a service name, or none), a protocol and a source.  Only       *)
(* inbound TCP is modelled.                                                *)
(***************************************************************************)
EXTENDS Lists

CONSTANTS
  Ports,       \* TCP ports
  DefaultPort, \* 22
  Addrs,       \* addresses a client may have
  Anywhere,    \* the source of a rule that names none
  AnyPort,     \* the port of a rule that names none
  SshName      \* the service "ssh" or the profile "OpenSSH"

ASSUME GuardAssumption ==
  /\ DefaultPort \in Ports
  /\ Anywhere \notin Addrs
  /\ {AnyPort, SshName} \cap Ports = {} /\ AnyPort # SshName

Rule == [act : {"allow", "deny"}, port : Ports \cup {AnyPort, SshName},
         proto : {"", "tcp"}, from : Addrs \cup {Anywhere}]

\* ruleMatchesSSHTCP: a rule without a port is not about SSH.
MatchesSsh(r, p) == r.port = p \/ (p = DefaultPort /\ r.port = SshName)

\* sshTCPReachable: some allow comes before every deny from anywhere.  A deny
\* of one address is passed over, an allow of one address counts.
SshReachable(rules, p) ==
  \E i \in DOMAIN rules :
    /\ rules[i].act = "allow" /\ MatchesSsh(rules[i], p)
    /\ \A j \in 1..(i - 1) :
         ~(/\ rules[j].act = "deny" /\ MatchesSsh(rules[j], p)
           /\ rules[j].from = Anywhere)

\* Mutant of InsertDeny: the new deny is last.
AppendDeny(rules, d) == Append(rules, d)

\* insertDenyBeforeAllows.
InsertDeny(rules, d) ==
  LET allows == {i \in DOMAIN rules : rules[i].act = "allow"}
      k == IF allows = {} THEN Len(rules) + 1
           ELSE CHOOSE i \in allows : \A j \in allows : i <= j
  IN  SubSeq(rules, 1, k - 1) \o <<d>> \o SubSeq(rules, k, Len(rules))

\* withoutIndex, withoutService, withoutPort.
Without(rules, r) == Kept(rules, Rule \ {r})

\* hasSSHAllowRule.
HasSshAllow(rules, a, p) ==
  \E i \in DOMAIN rules :
    rules[i].act = "allow" /\ rules[i].from = a /\ rules[i].port = p

(***************************************************************************)
(* The firewalls.  ufw takes the first rule that covers a packet; firewalld *)
(* takes every deny before any allow.                                      *)
(***************************************************************************)
Covers(r, a, p) ==
  (MatchesSsh(r, p) \/ r.port = AnyPort) /\ r.from \in {a, Anywhere}

UfwLets(rules, deny, a, p) ==
  \/ \E i \in DOMAIN rules :
       /\ rules[i].act = "allow" /\ Covers(rules[i], a, p)
       /\ \A j \in 1..(i - 1) : Covers(rules[j], a, p) => rules[j].act = "allow"
  \/ ~deny /\ \A i \in DOMAIN rules : ~Covers(rules[i], a, p)

FirewalldLets(rules, deny, a, p) ==
  LET covering == {i \in DOMAIN rules : Covers(rules[i], a, p)}
  IN  /\ \A i \in covering : rules[i].act = "allow"
      /\ covering = {} => ~deny
=============================================================================
