--------------------------- MODULE SshGuardProofs ---------------------------
(***************************************************************************)
(* What the lockout check of the firewall is worth, for every list of      *)
(* rules (SshGuard, WithRule), what set-port keeps, and that no command    *)
(* closes the last way in (SshAccess).                                     *)
(***************************************************************************)
EXTENDS SshAccess, ListsProofs, FiniteSetTheorems

\* The list a new deny is checked in: the deny stands somewhere in it, nothing
\* before it allows, and the other rules are there in their order.
LEMMA InsertDenyShape ==
  ASSUME NEW rules \in Seq(Rule), NEW d \in Rule
  PROVE  \E k \in DOMAIN InsertDeny(rules, d) :
           /\ InsertDeny(rules, d)[k] = d
           /\ \A i \in DOMAIN InsertDeny(rules, d) :
                i < k => InsertDeny(rules, d)[i].act # "allow"
           /\ DOMAIN InsertDeny(rules, d) = 1..(Len(rules) + 1)
           /\ \A i \in 1..(k - 1) : InsertDeny(rules, d)[i] = rules[i]
           /\ \A i \in k..Len(rules) : InsertDeny(rules, d)[i + 1] = rules[i]
<1> DEFINE allows == {i \in DOMAIN rules : rules[i].act = "allow"}
           k == IF allows = {} THEN Len(rules) + 1
                ELSE CHOOSE i \in allows : \A j \in allows : i <= j
           new == SubSeq(rules, 1, k - 1) \o <<d>> \o SubSeq(rules, k, Len(rules))
<1>1. InsertDeny(rules, d) = new
  BY DEF InsertDeny
<1>2. Len(rules) \in Nat /\ DOMAIN rules = 1..Len(rules)
  OBVIOUS
<1>3. k \in 1..(Len(rules) + 1) /\ \A i \in 1..(k - 1) : rules[i].act # "allow"
  <2>1. CASE allows = {}
    BY <2>1, <1>2
  <2>2. CASE allows # {}
    <3>1. \E i \in allows : \A j \in allows : i <= j
      <4>1. allows \subseteq Nat
        BY <1>2
      <4> HIDE DEF allows
      <4> QED
        BY <4>1, <2>2, LeastExists
    <3>2. k \in allows /\ \A j \in allows : k <= j
      BY <2>2, <3>1
    <3> HIDE DEF k
    <3>3. k \in 1..Len(rules)
      BY <3>2, <1>2
    <3>4. \A i \in 1..(k - 1) : i \in DOMAIN rules /\ ~(k <= i)
      BY <3>3, <1>2
    <3> QED
      BY <3>2, <3>3, <3>4
  <2> QED
    BY <2>1, <2>2
<1> HIDE DEF k
<1> DEFINE front == SubSeq(rules, 1, k - 1)
           back == SubSeq(rules, k, Len(rules))
<1>f. /\ front \in Seq(Rule) /\ Len(front) = k - 1
      /\ \A i \in 1..(k - 1) : front[i] = rules[i]
  BY <1>2, <1>3
<1>b. /\ back \in Seq(Rule) /\ Len(back) = Len(rules) + 1 - k
      /\ \A i \in 1..Len(back) : back[i] = rules[k + i - 1]
  BY <1>2, <1>3
<1>n. new = (front \o <<d>>) \o back
  OBVIOUS
<1> HIDE DEF front, back, new
<1>c. /\ front \o <<d>> \in Seq(Rule) /\ Len(front \o <<d>>) = k
      /\ (front \o <<d>>)[k] = d
      /\ \A i \in 1..(k - 1) : (front \o <<d>>)[i] = rules[i]
  BY <1>3, <1>f
<1> DEFINE upto == front \o <<d>>
<1> HIDE DEF upto
<1>4. /\ DOMAIN new = 1..(Len(rules) + 1)
      /\ \A i \in 1..k : new[i] = upto[i]
      /\ \A i \in 1..Len(back) : new[k + i] = back[i]
  <2>1. new = upto \o back /\ upto \in Seq(Rule) /\ Len(upto) = k
    BY <1>n, <1>c DEF upto
  <2>2. /\ Len(upto \o back) = Len(rules) + 1 /\ upto \o back \in Seq(Rule)
        /\ \A i \in 1..Len(upto) : (upto \o back)[i] = upto[i]
        /\ \A i \in 1..Len(back) : (upto \o back)[k + i] = back[i]
    <3>1. Len(upto \o back) = Len(upto) + Len(back)
      BY <2>1, <1>b
    <3>2. k + (Len(rules) + 1 - k) = Len(rules) + 1
      BY <1>2, <1>3
    <3>3. \A i \in 1..Len(upto) : (upto \o back)[i] = upto[i]
      BY <2>1, <1>b
    <3>4. \A i \in 1..Len(back) : (upto \o back)[Len(upto) + i] = back[i]
      BY <2>1, <1>b
    <3>5. upto \o back \in Seq(Rule)
      BY <2>1, <1>b
    <3> QED
      BY <3>1, <3>2, <3>3, <3>4, <3>5, <2>1, <1>b
  <2> QED
    BY <2>1, <2>2
<1>5. new[k] = d
  BY <1>3, <1>4, <1>c DEF upto
<1>6. \A i \in 1..(k - 1) : new[i] = rules[i]
  BY <1>3, <1>4, <1>c DEF upto
<1>7. \A i \in DOMAIN new : i < k => new[i].act # "allow"
  <2> SUFFICES ASSUME NEW i \in DOMAIN new, i < k PROVE new[i].act # "allow"
    OBVIOUS
  <2>1. i \in 1..(k - 1)
    BY <1>3, <1>4
  <2> QED
    BY <1>3, <1>6, <2>1
<1>8. k \in DOMAIN new
  BY <1>3, <1>4
<1>9. ASSUME NEW i \in k..Len(rules) PROVE new[i + 1] = rules[i]
  <2>1. /\ i - k + 1 \in 1..Len(back) /\ k + (i - k + 1) = i + 1
        /\ k + (i - k + 1) - 1 = i
    BY <1>2, <1>3, <1>b
  <2> QED BY <2>1, <1>4, <1>b
<1> QED
  BY <1>1, <1>4, <1>5, <1>6, <1>7, <1>8, <1>9

\* What a deny of a port was let through for: it is not about sshd's port.
\* insertDenyBeforeAllows puts it before every allow, so one that were would be
\* refused by sshTCPReachable whatever the other rules are (Deny, guardSSH).
THEOREM AcceptedDenySparesSsh ==
  ASSUME NEW rules \in Seq(Rule), NEW d \in Rule, NEW p \in Ports,
         d.act = "deny", d.from = Anywhere,
         SshReachable(InsertDeny(rules, d), p)
  PROVE  ~MatchesSsh(d, p)
<1> DEFINE new == InsertDeny(rules, d)
<1>1. PICK k \in DOMAIN new :
        new[k] = d /\ \A i \in DOMAIN new : i < k => new[i].act # "allow"
  BY InsertDenyShape
<1>2. PICK i \in DOMAIN new :
        /\ new[i].act = "allow"
        /\ \A j \in 1..(i - 1) :
             ~(new[j].act = "deny" /\ MatchesSsh(new[j], p) /\ new[j].from = Anywhere)
  BY DEF SshReachable
<1>3. DOMAIN new \subseteq Nat \ {0}
  BY DEF InsertDeny
<1>4. k < i
  <2>1. ~(i < k)
    BY <1>1, <1>2
  <2>2. i # k
    BY <1>1, <1>2
  <2> QED
    BY <1>3, <2>1, <2>2
<1>5. k \in 1..(i - 1)
  BY <1>3, <1>4
<1> QED
  BY <1>1, <1>2, <1>5

\* Such a deny takes nobody's access to sshd away, on either firewall, whether
\* it is appended or replaces a rule (addRule, firewalldDeny).
THEOREM AcceptedDenyKeepsAccess ==
  ASSUME NEW rules \in Seq(Rule), NEW d \in Rule, NEW p \in Ports,
         NEW policy \in BOOLEAN, NEW a \in Addrs,
         d.act = "deny", d.from = Anywhere, d.port # AnyPort,
         SshReachable(InsertDeny(rules, d), p)
  PROVE  /\ UfwLets(rules, policy, a, p) => UfwLets(WithRule(rules, d), policy, a, p)
         /\ FirewalldLets(rules, policy, a, p)
              => FirewalldLets(WithRule(rules, d), policy, a, p)
<1> DEFINE new == WithRule(rules, d)
<1>1. ~Covers(d, a, p)
  BY AcceptedDenySparesSsh DEF Covers
<1>2. DOMAIN rules = 1..Len(rules) /\ Len(rules) \in Nat
  OBVIOUS
<1>3. \A i \in DOMAIN rules :
        Same(rules[i], d) => rules[i].port = d.port /\ rules[i].from = d.from
  BY DEF Same
<1>4. \A i \in DOMAIN rules : Same(rules[i], d) => ~Covers(rules[i], a, p)
  BY <1>1, <1>3 DEF Covers, MatchesSsh
<1>5. /\ DOMAIN rules \subseteq DOMAIN new
      /\ \A i \in DOMAIN rules : new[i] = rules[i] \/ (new[i] = d /\ Same(rules[i], d))
      /\ \A i \in DOMAIN new \ DOMAIN rules : new[i] = d
      /\ DOMAIN new \subseteq 1..(Len(rules) + 1)
  <2>1. CASE \E i \in DOMAIN rules : Same(rules[i], d)
    <3>1. new = [i \in DOMAIN rules |-> IF Same(rules[i], d) THEN d ELSE rules[i]]
      BY <2>1 DEF WithRule
    <3> HIDE DEF new
    <3> QED
      BY <3>1, <1>2
  <2>2. CASE ~ \E i \in DOMAIN rules : Same(rules[i], d)
    <3>1. new = Append(rules, d)
      BY <2>2 DEF WithRule
    <3>2. /\ DOMAIN Append(rules, d) = 1..(Len(rules) + 1)
          /\ \A i \in DOMAIN rules : Append(rules, d)[i] = rules[i]
          /\ Append(rules, d)[Len(rules) + 1] = d
      BY <1>2
    <3> HIDE DEF new
    <3> QED
      BY <3>1, <3>2, <1>2
  <2> QED
    BY <2>1, <2>2
<1> HIDE DEF new
<1>6. /\ \A i \in DOMAIN new : Covers(new[i], a, p) => i \in DOMAIN rules /\ new[i] = rules[i]
      /\ \A i \in DOMAIN rules : Covers(rules[i], a, p) => new[i] = rules[i]
  BY <1>1, <1>4, <1>5
<1>7. UfwLets(rules, policy, a, p) => UfwLets(new, policy, a, p)
  <2>1. ASSUME NEW i \in DOMAIN rules, rules[i].act = "allow", Covers(rules[i], a, p),
               \A j \in 1..(i - 1) : Covers(rules[j], a, p) => rules[j].act = "allow"
        PROVE  UfwLets(new, policy, a, p)
    <3>1. i \in DOMAIN new /\ new[i] = rules[i]
      BY <2>1, <1>5, <1>6
    <3>2. \A j \in 1..(i - 1) : j \in DOMAIN new
      BY <1>2, <1>5
    <3> QED
      BY <2>1, <3>1, <3>2, <1>6 DEF UfwLets
  <2>2. ASSUME ~policy, \A i \in DOMAIN rules : ~Covers(rules[i], a, p)
        PROVE  UfwLets(new, policy, a, p)
    BY <2>2, <1>6 DEF UfwLets
  <2> QED
    BY <2>1, <2>2 DEF UfwLets
<1>8. FirewalldLets(rules, policy, a, p) => FirewalldLets(new, policy, a, p)
  <2>1. {i \in DOMAIN new : Covers(new[i], a, p)} = {i \in DOMAIN rules : Covers(rules[i], a, p)}
    BY <1>5, <1>6
  <2> QED
    BY <2>1, <1>6 DEF FirewalldLets
<1> QED
  BY <1>7, <1>8 DEF new

\* A list that the check lets pass lets some address in on sshd's port under ufw,
\* whatever the policy is, if no deny names an address or leaves the port out:
\* those sshTCPReachable passes over.
THEOREM AcceptedRulesLetIn ==
  ASSUME NEW rules \in Seq(Rule), NEW p \in Ports, NEW policy \in BOOLEAN,
         Addrs # {}, SshReachable(rules, p),
         \A i \in DOMAIN rules :
           rules[i].act = "deny" => rules[i].from = Anywhere /\ rules[i].port # AnyPort
  PROVE  \E a \in Addrs : UfwLets(rules, policy, a, p)
<1>1. PICK i \in DOMAIN rules :
        /\ rules[i].act = "allow" /\ MatchesSsh(rules[i], p)
        /\ \A j \in 1..(i - 1) :
             ~(rules[j].act = "deny" /\ MatchesSsh(rules[j], p) /\ rules[j].from = Anywhere)
  BY DEF SshReachable
<1>2. rules[i] \in Rule
  OBVIOUS
<1>3. PICK a \in Addrs : rules[i].from \in {a, Anywhere}
  BY <1>2 DEF Rule
<1>4. \A j \in 1..(i - 1) : j \in DOMAIN rules /\ rules[j] \in Rule
  OBVIOUS
<1>5. \A j \in 1..(i - 1) : Covers(rules[j], a, p) => rules[j].act = "allow"
  BY <1>1, <1>4 DEF Covers, Rule
<1> QED
  BY <1>1, <1>3, <1>5 DEF UfwLets, Covers

-----------------------------------------------------------------------------
(***************************************************************************)
(* The types of SshAccess, and what a command may be at each step.         *)
(***************************************************************************)
Ops == {"add", "del", "policy", "start", "stop"}
EditType == [op : Ops, rule : Rule, deny : BOOLEAN]
FilesSet == [managed : Seq(Ports), legacy : Seq(Ports), dropIn : Seq(Ports)]
FwSet == [active : BOOLEAN, stored : Seq(Rule), run : Seq(Rule),
          sdeny : BOOLEAN, rdeny : BOOLEAN]
JobSet == [cmd : AllCommands \cup {"none"}, port : Ports, allowFw : BOOLEAN,
           close : BOOLEAN, dry : BOOLEAN, force : BOOLEAN, stage : {"both", "new"},
           then : {"exit", "label", "closeFw"}, old : Seq(Ports), snap : FilesSet]

Typed ==
  /\ host \in [backend : Backends, main : MainPorts, socket : Sockets]
  /\ fw \in FwSet /\ files \in FilesSet
  /\ listen \in (SUBSET Ports) \ {{}}
  /\ pc \in Labels \cup {"idle"} /\ job \in JobSet /\ todo \in Seq(EditType)

SetPorting == job.cmd = "setPort"
Editing == At("edit") \/ At("fwReload")

\* Which job runs at which step.
Flow ==
  /\ Editing <=> todo # <<>>
  /\ IF Idle THEN job = NoJob ELSE job.cmd # "none" /\ outcome = "none"
  /\ pc \in {"label", "migrate", "ports", "dropIn", "restart", "banner", "undo"}
       => SetPorting /\ job.then = "label"
  /\ At("closeFw") => SetPorting /\ job.allowFw /\ job.stage = "new"
  /\ At("applied") <=> job.cmd = "directive"
  /\ job.then = "exit" <=> ~SetPorting
  /\ job.then = "closeFw" => (Editing \/ At("closeFw")) /\ job.allowFw /\ job.stage = "new"
  /\ job.stage = "new" => job.close /\ SetPorting
  /\ job.then = "label" /\ pc \in {"edit", "fwReload", "label", "migrate"}
       => job.stage = "both"
  /\ job.then = "label" /\ Editing => job.allowFw
  /\ (job.then = "label" /\ Editing) \/ pc \in {"label", "migrate", "dropIn", "restart", "banner"}
       => ~job.dry
  /\ At("dropIn") => host.socket

-----------------------------------------------------------------------------
\* The rules that commands name, and lists of them.
IsRule(r, act, p, from) == r \in Rule /\ r.act = act /\ r.port = p /\ r.from = from

LEMMA PortRuleTyped ==
  ASSUME NEW p \in Ports \cup {AnyPort}, NEW from \in Addrs \cup {Anywhere}
  PROVE  /\ IsRule(PortRule("allow", p, from, "tcp"), "allow", p, from)
         /\ IsRule(PortRule("allow", p, from, ""), "allow", p, from)
         /\ IsRule(PortRule("deny", p, from, ""), "deny", p, from)
BY DEF PortRule, Rule, IsRule

LEMMA EditsTyped ==
  ASSUME NEW r \in Rule, NEW d \in BOOLEAN
  PROVE  /\ AddRule(r) \in EditType /\ DelRule(r) \in EditType
         /\ AddRule(r).op = "add" /\ DelRule(r).op = "del"
         /\ AddRule(r).rule = r /\ DelRule(r).rule = r
BY DEF AddRule, DelRule, Edit, EditType, Ops

LEMMA ServiceTyped == SshService \in Rule /\ SshService.act = "allow"
BY DEF SshService, Rule

LEMMA PoliciesTyped ==
  /\ Start \in EditType /\ Start.op = "start" /\ Stop \in EditType /\ Stop.op = "stop"
  /\ \A d \in BOOLEAN : Policy(d) \in EditType /\ Policy(d).op = "policy" /\ Policy(d).deny = d
BY ServiceTyped DEF Start, Stop, Policy, Edit, EditType, Ops

LEMMA WithRuleTyped ==
  ASSUME NEW rules \in Seq(Rule), NEW r \in Rule
  PROVE  /\ WithRule(rules, r) \in Seq(Rule)
         /\ Elems(WithRule(rules, r)) \subseteq Elems(rules) \cup {r}
         /\ r \in Elems(WithRule(rules, r))
         /\ Len(WithRule(rules, r)) <= Len(rules) + 1
<1>1. CASE \E i \in DOMAIN rules : Same(rules[i], r)
  <2> DEFINE new == [i \in DOMAIN rules |-> IF Same(rules[i], r) THEN r ELSE rules[i]]
  <2>1. WithRule(rules, r) = new
    BY <1>1 DEF WithRule
  <2>2. /\ Len(rules) \in Nat /\ DOMAIN rules = 1..Len(rules)
        /\ \A i \in 1..Len(rules) : rules[i] \in Rule
    OBVIOUS
  <2>3. new \in [1..Len(rules) -> Rule]
    BY <2>2
  <2>4. new \in Seq(Rule) /\ Len(new) = Len(rules)
    BY <2>2, <2>3
  <2>5. \A i \in DOMAIN new : new[i] \in Elems(rules) \cup {r}
    BY <2>2 DEF Elems
  <2>6. \E i \in DOMAIN new : new[i] = r
    BY <1>1
  <2> HIDE DEF new
  <2> QED BY <2>1, <2>2, <2>4, <2>5, <2>6 DEF Elems
<1>2. CASE ~ \E i \in DOMAIN rules : Same(rules[i], r)
  <2>1. WithRule(rules, r) = rules \o <<r>>
    BY <1>2, OneMore DEF WithRule
  <2>2. rules \o <<r>> \in Seq(Rule) /\ Len(rules \o <<r>>) = Len(rules) + 1
    BY OneMore
  <2>3. Elems(rules \o <<r>>) = Elems(rules) \cup {r}
    BY ElemsOneMore
  <2>4. Len(rules) + 1 <= Len(rules) + 1
    OBVIOUS
  <2> QED BY <2>1, <2>2, <2>3, <2>4
<1> QED BY <1>1, <1>2

LEMMA WithoutTyped ==
  ASSUME NEW rules \in Seq(Rule), NEW r
  PROVE  /\ Without(rules, r) \in Seq(Rule)
         /\ Elems(Without(rules, r)) = Elems(rules) \ {r}
         /\ Len(Without(rules, r)) <= Len(rules)
<1>1. Elems(rules) \subseteq Rule
  BY DEF Elems
<1> QED BY <1>1, KeptShape DEF Without

\* What is listed are running rules.
LEMMA ListedTyped ==
  ASSUME fw \in FwSet
  PROVE  /\ Listed \in Seq(Rule) /\ Elems(Listed) \subseteq Elems(fw.run)
         /\ fw.active => Elems(Listed) = Elems(fw.run)
         /\ fw.active /\ ~Firewalld => Listed = fw.run
<1> DEFINE plain == Kept(fw.run, Rule \ RichRule)
           rich == Kept(fw.run, RichRule)
<1>1. fw.run \in Seq(Rule)
  BY DEF FwSet
<1>2. Elems(fw.run) \subseteq Rule
  BY <1>1 DEF Elems
<1>3. plain \in Seq(Rule) /\ Elems(plain) = Elems(fw.run) \cap (Rule \ RichRule)
  BY <1>1, KeptShape
<1>4. rich \in Seq(Rule) /\ Elems(rich) = Elems(fw.run) \cap RichRule
  BY <1>1, KeptShape
<1> HIDE DEF plain, rich
<1>a. plain \o rich \in Seq(Rule) /\ Elems(plain \o rich) = Elems(plain) \cup Elems(rich)
  BY <1>3, <1>4, ElemsConcat
<1>5. plain \o rich \in Seq(Rule) /\ Elems(plain \o rich) = Elems(fw.run)
  BY <1>a, <1>2, <1>3, <1>4
<1>6. <<>> \in Seq(Rule) /\ Elems(<<>>) = {}
  BY EmptyList, ElemsShort
<1> QED BY <1>1, <1>5, <1>6 DEF Listed, plain, rich

-----------------------------------------------------------------------------
\* The first port of a configuration, and what sshd makes of its files.
FirstPort(f) ==
  IF f.managed # <<>> THEN f.managed[1]
  ELSE IF f.legacy # <<>> THEN f.legacy[1]
  ELSE IF host.main # <<>> THEN host.main[1] ELSE DefaultPort

LEMMA PortLists ==
  ASSUME Typed
  PROVE  /\ host.main \in Seq(Ports)
         /\ files.managed \in Seq(Ports) /\ files.legacy \in Seq(Ports)
         /\ files.dropIn \in Seq(Ports) /\ job.old \in Seq(Ports)
         /\ job.snap \in FilesSet
BY AccessAssumption DEF Typed, FilesSet, JobSet

LEMMA PortsHeard ==
  ASSUME Typed, NEW f \in FilesSet
  PROVE  /\ Effective(f) \subseteq Ports /\ Effective(f) # {}
         /\ f.managed \in Seq(Ports) /\ f.legacy \in Seq(Ports) /\ f.dropIn \in Seq(Ports)
         /\ FirstPort(f) \in Ports
<1>1. /\ f.managed \in Seq(Ports) /\ f.legacy \in Seq(Ports) /\ f.dropIn \in Seq(Ports)
      /\ host.main \in Seq(Ports) /\ DefaultPort \in Ports
  BY PortLists, GuardAssumption DEF FilesSet
<1>2. \A s \in Seq(Ports) : Elems(s) \subseteq Ports /\ (s # <<>> => s[1] \in Ports /\ Elems(s) # {})
  <2>1. \A s \in Seq(Ports) : s # <<>> => 1 \in DOMAIN s
    OBVIOUS
  <2> QED BY <2>1 DEF Elems
<1> QED BY <1>1, <1>2 DEF Effective, FirstPort

LEMMA CurrentPortsTyped ==
  ASSUME Typed
  PROVE  /\ CurrentPorts \in Seq(Ports) /\ CurrentPorts # <<>>
         /\ SshPort = FirstPort(files) /\ SshPort \in Ports
<1>1. /\ files.managed \in Seq(Ports) /\ files.legacy \in Seq(Ports)
      /\ host.main \in Seq(Ports) /\ DefaultPort \in Ports
  BY PortLists, GuardAssumption
<1>2. <<DefaultPort>> \in Seq(Ports) /\ <<DefaultPort>> # <<>> /\ <<DefaultPort>>[1] = DefaultPort
  BY <1>1
<1>3. CurrentPorts \in Seq(Ports) /\ CurrentPorts # <<>>
  BY <1>1, <1>2 DEF CurrentPorts
<1>4. SshPort = FirstPort(files)
  BY <1>2 DEF SshPort, CurrentPorts, FirstPort
<1>5. 1 \in DOMAIN CurrentPorts
  BY <1>3
<1> QED BY <1>3, <1>4, <1>5 DEF SshPort

LEMMA MigratedTyped ==
  ASSUME Typed, NEW f \in FilesSet
  PROVE  /\ Migrated(f) \in FilesSet /\ Migrated(f).legacy = <<>>
         /\ Migrated(f).dropIn = f.dropIn
         /\ Elems(Migrated(f).managed) = Elems(f.managed) \cup Elems(f.legacy)
         /\ Migrated(f).managed
              = f.managed \o Kept(f.legacy, Ports \ Elems(f.managed))
<1> DEFINE more == Kept(f.legacy, Ports \ Elems(f.managed))
<1>1. f.managed \in Seq(Ports) /\ f.legacy \in Seq(Ports) /\ f.dropIn \in Seq(Ports)
  BY DEF FilesSet
<1>2. more \in Seq(Ports) /\ Elems(more) = Elems(f.legacy) \cap (Ports \ Elems(f.managed))
  BY <1>1, KeptShape
<1>3. Migrated(f) = [f EXCEPT !.legacy = <<>>, !.managed = f.managed \o more]
  BY DEF Migrated
<1> HIDE DEF more
<1>4. /\ f.managed \o more \in Seq(Ports)
      /\ Elems(f.managed \o more) = Elems(f.managed) \cup Elems(more)
  BY <1>1, <1>2, ElemsConcat
<1>5. Elems(f.legacy) \subseteq Ports
  BY <1>1 DEF Elems
<1>6. <<>> \in Seq(Ports)
  BY EmptyList
<1>7. /\ Migrated(f).managed = f.managed \o more /\ Migrated(f).legacy = <<>>
      /\ Migrated(f).dropIn = f.dropIn /\ Migrated(f) \in FilesSet
  BY <1>1, <1>3, <1>4, <1>6 DEF FilesSet
<1> QED BY <1>2, <1>4, <1>5, <1>7 DEF more

LEMMA WantedTyped ==
  ASSUME Typed
  PROVE  /\ Wanted \in Seq(Ports) /\ Wanted # <<>> /\ job.port \in Elems(Wanted)
         /\ job.stage = "new" => Wanted = <<job.port>>
         /\ job.stage = "both" => Elems(Wanted) = Elems(job.old) \cup {job.port}
<1>1. job.port \in Ports /\ job.old \in Seq(Ports) /\ job.stage \in {"both", "new"}
  BY DEF Typed, JobSet
<1>2. <<job.port>> \in Seq(Ports) /\ <<job.port>> # <<>>
  BY <1>1
<1>3. /\ Append(job.old, job.port) \in Seq(Ports) /\ Append(job.old, job.port) # <<>>
      /\ Append(job.old, job.port) = job.old \o <<job.port>>
  BY <1>1, OneMore
<1>4. Elems(job.old \o <<job.port>>) = Elems(job.old) \cup {job.port}
  BY <1>1, ElemsOneMore
<1>5. job.port \in Elems(job.old) => job.old # <<>>
  BY ElemsShort
<1>6. Elems(<<job.port>>) = {job.port}
  BY ElemsShort
<1> QED BY <1>1, <1>2, <1>3, <1>4, <1>5, <1>6 DEF Wanted

-----------------------------------------------------------------------------
(***************************************************************************)
(* What each command sets out to change in the firewall.                   *)
(***************************************************************************)
\* The addresses that a deny names, and those that an allow of a port names: the
\* session's and those of --from.
Denied == DenyIps \cup (DenyFrom \ {Anywhere})
Named  == (AllowFrom \cup Clients) \cap Addrs

\* The rules that commands add: a deny names a port or an address, an allow of
\* one address leaves the port out or is one of those.
Known(r) ==
  /\ r \in Rule
  /\ IF r.act = "deny"
     THEN \/ r.from = Anywhere /\ r.port \in DenyPorts
          \/ r.from \in Denied
     ELSE r.port = AnyPort \/ r.from = Anywhere \/ r.from \in Named

LEMMA DeniedTyped == Denied \subseteq Addrs /\ Anywhere \notin Denied /\ Named \subseteq Addrs
BY AccessAssumption, GuardAssumption DEF Denied, Named

Adding(e) == e \in EditType /\ e.op = "add" /\ e.rule.act = "allow" /\ Known(e.rule)

Plan(c, force, edits) ==
  \/ c = "enable" /\ \A e \in Elems(edits) : e.op = "start" \/ Adding(e)
  \/ c = "disable" /\ edits = <<Stop>>
  \/ c \in {"allow", "allowIp", "setPort"} /\ \A e \in Elems(edits) : Adding(e)
  \/ \E pre \in Seq(EditType), d \in Rule :
       /\ edits = pre \o <<AddRule(d)>> /\ \A e \in Elems(pre) : Adding(e)
       /\ Known(d) /\ d.act = "deny"
       /\ \/ c = "denyIp" /\ d.from \in Denied
          \/ c = "deny" /\ d.port \in DenyPorts /\ Guard(force, InsertDeny(Listed, d))
  \/ \E r \in Rule : /\ c = "remove" /\ edits = <<DelRule(r)>>
                     /\ Guard(force, Without(Listed, r))
  \/ \E d \in BOOLEAN : /\ c = "defaults" /\ edits = <<Policy(d)>>
                        /\ d /\ ~fw.sdeny => Guard(force, Listed)

FwJob(c, force) == [NoJob EXCEPT !.cmd = c, !.force = force]
EnableJob(ssh) == [NoJob EXCEPT !.cmd = "enable", !.allowFw = ssh]
IsPlain(j, c, force) ==
  /\ j \in JobSet /\ j.cmd = c /\ j.force = force
  /\ j.stage = "both" /\ j.then = "exit" /\ ~j.dry /\ ~j.close

LEMMA NoJobTyped == NoJob \in JobSet
BY GuardAssumption DEF JobSet, NoJob, NoFiles, FilesSet

LEMMA PlainJobs ==
  ASSUME NEW c \in AllCommands, NEW force \in BOOLEAN
  PROVE  IsPlain(FwJob(c, force), c, force)
<1>1. FwJob(c, force) \in JobSet
  BY NoJobTyped DEF FwJob, JobSet
<1>2. FwJob(c, force).cmd = c /\ FwJob(c, force).force = force
  BY DEF FwJob, NoJob
<1>3. /\ FwJob(c, force).stage = "both" /\ FwJob(c, force).then = "exit"
      /\ ~FwJob(c, force).dry /\ ~FwJob(c, force).close
  BY DEF FwJob, NoJob
<1> QED BY <1>1, <1>2, <1>3 DEF IsPlain

LEMMA EnableJobs ==
  ASSUME NEW ssh \in BOOLEAN
  PROVE  EnableJob(ssh) \in JobSet /\ IsPlain(EnableJob(ssh), "enable", FALSE)
<1>1. EnableJob(ssh) \in JobSet
  BY NoJobTyped DEF EnableJob, JobSet, AllCommands
<1>2. EnableJob(ssh).cmd = "enable" /\ EnableJob(ssh).force = FALSE
  BY DEF EnableJob, NoJob
<1>3. /\ EnableJob(ssh).stage = "both" /\ EnableJob(ssh).then = "exit"
      /\ ~EnableJob(ssh).dry /\ ~EnableJob(ssh).close
  BY DEF EnableJob, NoJob
<1> QED BY <1>1, <1>2, <1>3 DEF IsPlain

LEMMA ProtectAdds ==
  ASSUME Typed, NEW client \in Clients, NEW rules
  PROVE  /\ Protect(client, rules) \in Seq(EditType)
         /\ \A e \in Elems(Protect(client, rules)) : Adding(e)
<1> DEFINE r == PortRule("allow", SshPort, client, "tcp")
<1>r. client \in Addrs => IsRule(r, "allow", SshPort, client)
  BY CurrentPortsTyped, PortRuleTyped
<1>1. CASE Protect(client, rules) = <<>>
  BY <1>1, EmptyList, ElemsShort
<1>2. CASE client # NoClient /\ Protect(client, rules) = <<AddRule(r)>>
  <2>1. client \in Addrs
    BY <1>2, AccessAssumption
  <2>2. r \in Rule /\ r.act = "allow" /\ r.from = client
    BY <2>1, <1>r DEF IsRule
  <2> HIDE DEF r
  <2>3. AddRule(r) \in EditType /\ AddRule(r).op = "add" /\ AddRule(r).rule = r
    BY <2>2, EditsTyped
  <2>4. Adding(AddRule(r))
    BY <2>1, <2>2, <2>3, <1>2 DEF Adding, Known, Named
  <2>5. <<AddRule(r)>> \in Seq(EditType) /\ Elems(<<AddRule(r)>>) = {AddRule(r)}
    BY <2>3, ElemsShort
  <2> QED BY <1>2, <2>4, <2>5
<1> QED BY <1>1, <1>2 DEF Protect

\* A list of allows with one edit more.
LEMMA ProtectThen ==
  ASSUME Typed, NEW client \in Clients, NEW rules, NEW x \in EditType
  PROVE  /\ Protect(client, rules) \o <<x>> \in Seq(EditType)
         /\ Protect(client, rules) \o <<x>> # <<>>
         /\ Elems(Protect(client, rules) \o <<x>>) = Elems(Protect(client, rules)) \cup {x}
         /\ Adding(x) => \A e \in Elems(Protect(client, rules) \o <<x>>) : Adding(e)
<1> DEFINE pre == Protect(client, rules)
<1>1. pre \in Seq(EditType) /\ \A e \in Elems(pre) : Adding(e)
  BY ProtectAdds
<1> HIDE DEF pre
<1>2. pre \o <<x>> \in Seq(EditType) /\ pre \o <<x>> # <<>>
  BY <1>1, OneMore
<1>3. Elems(pre \o <<x>>) = Elems(pre) \cup {x}
  BY <1>1, ElemsOneMore
<1> QED BY <1>1, <1>2, <1>3 DEF pre

\* What each command that only changes the firewall sets out to do.
LEMMA PlainStart ==
  ASSUME Typed, FirewallStart
  PROVE  \E c \in AllCommands \ {"setPort", "directive"}, force \in BOOLEAN, j \in JobSet,
            edits \in Seq(EditType) :
           /\ IsPlain(j, c, force) /\ Begin(j, edits, "edit") /\ edits # <<>>
           /\ Plan(c, force, edits) /\ force \in Forces(c)
<1> DEFINE Cmds == AllCommands \ {"setPort", "directive"}
           Goal(c, force, j, edits) ==
             /\ IsPlain(j, c, force) /\ Begin(j, edits, "edit") /\ edits # <<>>
             /\ Plan(c, force, edits) /\ force \in Forces(c)
<1>c. {"allow", "allowIp", "deny", "denyIp", "remove", "defaults", "enable", "disable"} \subseteq Cmds
  BY DEF AllCommands
<1>j. \A c \in Cmds, force \in BOOLEAN :
        FwJob(c, force) \in JobSet /\ IsPlain(FwJob(c, force), c, force)
  BY PlainJobs DEF IsPlain
<1>f. \A c : FALSE \in Forces(c) /\ Forces(c) \subseteq BOOLEAN
  BY DEF Forces
<1>l. Listed \in Seq(Rule) /\ fw.run \in Seq(Rule) /\ fw.stored \in Seq(Rule)
  BY ListedTyped DEF Typed, FwSet
<1>e. \A a \in Addrs : a \in Addrs \cup {Anywhere}
  OBVIOUS
<1> HIDE DEF Cmds
<1>1. ASSUME NEW p \in AllowPorts, NEW from \in AllowFrom, NEW client \in Clients,
             Change("allow", FALSE, Protect(client, Listed) \o
                    <<AddRule(PortRule("allow", p, from, ""))>>)
      PROVE  \E c \in Cmds, force \in BOOLEAN, j \in JobSet, edits \in Seq(EditType) :
               Goal(c, force, j, edits)
  <2> DEFINE r == PortRule("allow", p, from, "")
             edits == Protect(client, Listed) \o <<AddRule(r)>>
  <2>1. IsRule(r, "allow", p, from)
    BY PortRuleTyped, AccessAssumption
  <2>f. from = Anywhere \/ from \in Named
    BY AccessAssumption DEF Named
  <2> HIDE DEF r
  <2>2. AddRule(r) \in EditType /\ Adding(AddRule(r))
    BY <2>1, <2>f, EditsTyped DEF IsRule, Adding, Known
  <2>3. edits \in Seq(EditType) /\ edits # <<>> /\ \A e \in Elems(edits) : Adding(e)
    BY <2>2, ProtectThen
  <2>4. Begin(FwJob("allow", FALSE), edits, "edit")
    BY <1>1, <1>j DEF Change, FwJob, r
  <2> HIDE DEF edits
  <2>5. Goal("allow", FALSE, FwJob("allow", FALSE), edits)
    BY <1>j, <1>c, <1>f, <2>3, <2>4, <1>f DEF Plan
  <2> HIDE DEF Goal
  <2> QED BY <2>3, <2>5, <1>j, <1>c
<1>2. ASSUME NEW a \in Addrs, NEW client \in Clients,
             Change("allowIp", FALSE, Protect(client, Listed) \o
                    <<AddRule(PortRule("allow", AnyPort, a, ""))>>)
      PROVE  \E c \in Cmds, force \in BOOLEAN, j \in JobSet, edits \in Seq(EditType) :
               Goal(c, force, j, edits)
  <2> DEFINE r == PortRule("allow", AnyPort, a, "")
             edits == Protect(client, Listed) \o <<AddRule(r)>>
  <2>1. IsRule(r, "allow", AnyPort, a)
    BY PortRuleTyped
  <2> HIDE DEF r
  <2>2. AddRule(r) \in EditType /\ Adding(AddRule(r))
    BY <2>1, EditsTyped DEF IsRule, Adding, Known
  <2>3. edits \in Seq(EditType) /\ edits # <<>> /\ \A e \in Elems(edits) : Adding(e)
    BY <2>2, ProtectThen
  <2>4. Begin(FwJob("allowIp", FALSE), edits, "edit")
    BY <1>2, <1>j DEF Change, FwJob, r
  <2> HIDE DEF edits
  <2>5. Goal("allowIp", FALSE, FwJob("allowIp", FALSE), edits)
    BY <1>j, <1>c, <1>f, <2>3, <2>4, <1>f DEF Plan
  <2> HIDE DEF Goal
  <2> QED BY <2>3, <2>5, <1>j, <1>c
<1>3. ASSUME NEW p \in DenyPorts, NEW from \in DenyFrom, NEW client \in Clients,
             NEW force \in Forces("deny"),
             Guard(force, InsertDeny(Listed, PortRule("deny", p, from, ""))),
             Change("deny", force, Protect(client, Listed) \o
                    <<AddRule(PortRule("deny", p, from, ""))>>)
      PROVE  \E c \in Cmds, fo \in BOOLEAN, j \in JobSet, edits \in Seq(EditType) :
               Goal(c, fo, j, edits)
  <2> DEFINE r == PortRule("deny", p, from, "")
             pre == Protect(client, Listed)
             edits == pre \o <<AddRule(r)>>
  <2>1. IsRule(r, "deny", p, from)
    BY PortRuleTyped, AccessAssumption
  <2>f. from = Anywhere \/ from \in Denied
    BY DEF Denied
  <2>g. Guard(force, InsertDeny(Listed, r))
    BY <1>3
  <2>4. Begin(FwJob("deny", force), edits, "edit")
    BY <1>3, <1>j DEF Change, FwJob
  <2> HIDE DEF r
  <2>2. AddRule(r) \in EditType /\ r \in Rule /\ Known(r) /\ r.act = "deny"
        /\ r.port \in DenyPorts
    BY <2>1, <2>f, EditsTyped DEF IsRule, Known
  <2>3. edits \in Seq(EditType) /\ edits # <<>>
    BY <2>2, ProtectThen
  <2>6. pre \in Seq(EditType) /\ \A e \in Elems(pre) : Adding(e)
    BY ProtectAdds
  <2> HIDE DEF pre
  <2>7. Plan("deny", force, edits)
    BY <2>2, <2>6, <2>g DEF Plan
  <2> HIDE DEF edits
  <2>5. Goal("deny", force, FwJob("deny", force), edits)
    BY <1>j, <1>c, <1>f, <2>3, <2>4, <2>7
  <2> HIDE DEF Goal
  <2> QED BY <2>3, <2>5, <1>j, <1>c, <1>f
<1>4. ASSUME NEW a \in DenyIps, NEW client \in Clients,
             Change("denyIp", FALSE, Protect(client, Listed) \o
                    <<AddRule(PortRule("deny", AnyPort, a, ""))>>)
      PROVE  \E c \in Cmds, fo \in BOOLEAN, j \in JobSet, edits \in Seq(EditType) :
               Goal(c, fo, j, edits)
  <2> DEFINE r == PortRule("deny", AnyPort, a, "")
             pre == Protect(client, Listed)
             edits == pre \o <<AddRule(r)>>
  <2>1. IsRule(r, "deny", AnyPort, a)
    BY PortRuleTyped, AccessAssumption
  <2>4. Begin(FwJob("denyIp", FALSE), edits, "edit")
    BY <1>4, <1>j DEF Change, FwJob
  <2> HIDE DEF r
  <2>2. AddRule(r) \in EditType /\ r \in Rule /\ Known(r) /\ r.act = "deny"
        /\ r.from \in Denied
    BY <2>1, EditsTyped DEF IsRule, Known, Denied
  <2>3. edits \in Seq(EditType) /\ edits # <<>>
    BY <2>2, ProtectThen
  <2>6. pre \in Seq(EditType) /\ \A e \in Elems(pre) : Adding(e)
    BY ProtectAdds
  <2> HIDE DEF pre
  <2>7. Plan("denyIp", FALSE, edits)
    BY <2>2, <2>6 DEF Plan
  <2> HIDE DEF edits
  <2>5. Goal("denyIp", FALSE, FwJob("denyIp", FALSE), edits)
    BY <1>j, <1>c, <1>f, <2>3, <2>4, <2>7, <1>f
  <2> HIDE DEF Goal
  <2> QED BY <2>3, <2>5, <1>j, <1>c
<1>5. ASSUME NEW r \in Elems(Listed), NEW force \in Forces("remove"),
             Guard(force, Without(Listed, r)), Change("remove", force, <<DelRule(r)>>)
      PROVE  \E c \in Cmds, fo \in BOOLEAN, j \in JobSet, edits \in Seq(EditType) :
               Goal(c, fo, j, edits)
  <2>1. r \in Rule
    BY <1>l DEF Elems
  <2>d. DelRule(r) \in EditType
    BY <2>1, EditsTyped
  <2>2. <<DelRule(r)>> \in Seq(EditType) /\ <<DelRule(r)>> # <<>>
    BY <2>d
  <2>4. Begin(FwJob("remove", force), <<DelRule(r)>>, "edit")
    BY <1>5, <1>j DEF Change, FwJob
  <2>5. Goal("remove", force, FwJob("remove", force), <<DelRule(r)>>)
    BY <1>j, <1>c, <1>f, <1>5, <2>1, <2>2, <2>4 DEF Plan
  <2> HIDE DEF Goal
  <2> QED BY <2>2, <2>5, <1>j, <1>c, <1>f
<1>6. ASSUME NEW d \in BOOLEAN, NEW force \in Forces("defaults"),
             d /\ ~fw.sdeny => Guard(force, Listed), Change("defaults", force, <<Policy(d)>>)
      PROVE  \E c \in Cmds, fo \in BOOLEAN, j \in JobSet, edits \in Seq(EditType) :
               Goal(c, fo, j, edits)
  <2>2. <<Policy(d)>> \in Seq(EditType) /\ <<Policy(d)>> # <<>>
    BY PoliciesTyped
  <2>4. Begin(FwJob("defaults", force), <<Policy(d)>>, "edit")
    BY <1>6, <1>j DEF Change, FwJob
  <2>5. Goal("defaults", force, FwJob("defaults", force), <<Policy(d)>>)
    BY <1>j, <1>c, <1>f, <1>6, <2>2, <2>4 DEF Plan
  <2> HIDE DEF Goal
  <2> QED BY <2>2, <2>5, <1>j, <1>c, <1>f
<1>7. ASSUME Disable
      PROVE  \E c \in Cmds, fo \in BOOLEAN, j \in JobSet, edits \in Seq(EditType) :
               Goal(c, fo, j, edits)
  <2>2. <<Stop>> \in Seq(EditType) /\ <<Stop>> # <<>>
    BY PoliciesTyped
  <2>4. Begin(FwJob("disable", FALSE), <<Stop>>, "edit")
    BY <1>7, <1>j DEF Change, FwJob, Disable
  <2>5. Goal("disable", FALSE, FwJob("disable", FALSE), <<Stop>>)
    BY <1>j, <1>c, <1>f, <2>2, <2>4, <1>f DEF Plan
  <2> HIDE DEF Goal
  <2> QED BY <2>2, <2>5, <1>j, <1>c
<1>8. ASSUME Enable
      PROVE  \E c \in Cmds, fo \in BOOLEAN, j \in JobSet, edits \in Seq(EditType) :
               Goal(c, fo, j, edits)
  <2>1. PICK client \in Clients, ssh \in BOOLEAN :
          LET allow == IF ssh THEN <<AddRule(PortRule("allow", SshPort, Anywhere, "tcp"))>>
                       ELSE <<>>
          IN  Begin([NoJob EXCEPT !.cmd = "enable", !.allowFw = ssh],
                    IF Firewalld
                    THEN <<Start>> \o Protect(client, IF fw.active THEN fw.run ELSE fw.stored)
                         \o allow
                    ELSE Protect(client, Listed) \o allow \o <<Start>>, "edit")
    BY <1>8 DEF Enable
  <2> DEFINE r == PortRule("allow", SshPort, Anywhere, "tcp")
             allow == IF ssh THEN <<AddRule(r)>> ELSE <<>>
             known == Protect(client, IF fw.active THEN fw.run ELSE fw.stored)
             listed == Protect(client, Listed)
             edits == IF Firewalld THEN <<Start>> \o known \o allow
                                   ELSE listed \o allow \o <<Start>>
  <2>2. Begin(EnableJob(ssh), edits, "edit")
    BY <2>1 DEF EnableJob
  <2>3. IsRule(r, "allow", SshPort, Anywhere)
    BY CurrentPortsTyped, PortRuleTyped
  <2>4. /\ known \in Seq(EditType) /\ listed \in Seq(EditType)
        /\ \A e \in Elems(known) \cup Elems(listed) : Adding(e)
    BY ProtectAdds
  <2> HIDE DEF r, known, listed
  <2>5. AddRule(r) \in EditType /\ Adding(AddRule(r))
    BY <2>3, EditsTyped DEF IsRule, Adding, Known
  <2>6. allow \in Seq(EditType) /\ \A e \in Elems(allow) : Adding(e)
    <3>1. Elems(<<AddRule(r)>>) = {AddRule(r)} /\ Elems(<<>>) = {}
      BY ElemsShort
    <3>2. <<AddRule(r)>> \in Seq(EditType) /\ <<>> \in Seq(EditType)
      BY <2>5
    <3> QED BY <2>5, <3>1, <3>2
  <2> HIDE DEF allow
  <2>7. <<Start>> \in Seq(EditType) /\ <<Start>> # <<>>
    BY PoliciesTyped
  <2>8. Elems(<<Start>>) = {Start} /\ Start.op = "start"
    BY PoliciesTyped, ElemsShort
  <2> DEFINE Fine(s) == s \in Seq(EditType) /\ \A e \in Elems(s) : e.op = "start" \/ Adding(e)
  <2>9. \A s \in Seq(EditType), u \in Seq(EditType) : Fine(s) /\ Fine(u) => Fine(s \o u)
    BY ElemsConcat
  <2>10. Fine(<<Start>>) /\ Fine(known) /\ Fine(listed) /\ Fine(allow)
    BY <2>4, <2>6, <2>7, <2>8
  <2>11. Fine(<<Start>> \o known \o allow) /\ Fine(listed \o allow \o <<Start>>)
    <3>1. /\ Fine(<<Start>> \o known) /\ Fine(listed \o allow)
      BY <2>9, <2>10
    <3> HIDE DEF Fine
    <3>2. <<Start>> \o known \in Seq(EditType) /\ listed \o allow \in Seq(EditType)
      BY <3>1 DEF Fine
    <3> QED BY <2>9, <2>10, <3>1, <3>2, <2>4, <2>6, <2>7
  <2>12. edits # <<>>
    <3>1. <<Start>> \o known # <<>> /\ <<Start>> \o known \in Seq(EditType)
      BY <2>4, <2>7, ElemsConcat
    <3>2. listed \o allow \in Seq(EditType)
      BY <2>4, <2>6, ElemsConcat
    <3>3. <<Start>> \o known \o allow # <<>> /\ listed \o allow \o <<Start>> # <<>>
      BY <3>1, <3>2, <2>6, <2>7, ElemsConcat
    <3> QED BY <3>3
  <2>13. Fine(edits)
    BY <2>11
  <2> HIDE DEF edits
  <2>16. EnableJob(ssh) \in JobSet /\ IsPlain(EnableJob(ssh), "enable", FALSE)
    BY EnableJobs
  <2>14. Goal("enable", FALSE, EnableJob(ssh), edits)
    BY <2>2, <2>12, <2>13, <2>16, <1>f DEF Plan
  <2>15. edits \in Seq(EditType)
    BY <2>13
  <2> HIDE DEF Goal
  <2> QED BY <2>14, <2>15, <2>16, <1>c
<1>9. \E c \in Cmds, force \in BOOLEAN, j \in JobSet, edits \in Seq(EditType) :
        Goal(c, force, j, edits)
  <2> HIDE DEF Goal
  <2>1. CASE Allow
    BY <2>1, <1>1 DEF Allow
  <2>2. CASE AllowIp
    BY <2>2, <1>2 DEF AllowIp
  <2>3. CASE Deny
    BY <2>3, <1>3 DEF Deny
  <2>4. CASE DenyIp
    BY <2>4, <1>4 DEF DenyIp
  <2>5. CASE Remove
    BY <2>5, <1>5 DEF Remove
  <2>6. CASE SetDefaults
    BY <2>6, <1>6 DEF SetDefaults
  <2> QED
    BY <2>1, <2>2, <2>3, <2>4, <2>5, <2>6, <1>7, <1>8 DEF FirewallStart
<1> QED BY <1>9 DEF Cmds

\* What set-port sets out to do.
IsPort(j) ==
  /\ j \in JobSet /\ j.cmd = "setPort" /\ j.port \in NewPorts
  /\ j.allowFw \in CloseWith /\ j.dry \in DryIn
  /\ j.stage = "both" /\ j.then = "label" /\ j.old = CurrentPorts /\ j.snap = files
  /\ j.force = (j.close /\ ~j.allowFw)
PortJob(p, allowFw, close, dry) ==
  [NoJob EXCEPT !.cmd = "setPort", !.port = p, !.allowFw = allowFw,
                !.close = close, !.dry = dry, !.force = close /\ ~allowFw,
                !.then = "label", !.old = CurrentPorts, !.snap = files]
NewRule(j) == PortRule("allow", j.port, Anywhere, "tcp")

LEMMA PortJobs ==
  ASSUME Typed, NEW p \in NewPorts, NEW allowFw \in CloseWith, NEW close \in BOOLEAN,
         NEW dry \in DryIn
  PROVE  LET j == PortJob(p, allowFw, close, dry)
         IN  j \in JobSet /\ IsPort(j) /\ j.port = p /\ j.allowFw = allowFw /\ j.dry = dry
<1> DEFINE j == PortJob(p, allowFw, close, dry)
<1>1. /\ p \in Ports /\ allowFw \in BOOLEAN /\ dry \in BOOLEAN
      /\ CurrentPorts \in Seq(Ports) /\ files \in FilesSet
  BY CurrentPortsTyped, AccessAssumption DEF Typed
<1>2. j \in JobSet
  BY <1>1, NoJobTyped DEF PortJob, JobSet, AllCommands
<1>3. j.cmd = "setPort" /\ j.port = p /\ j.allowFw = allowFw /\ j.dry = dry
  BY DEF PortJob, NoJob
<1>4. j.stage = "both" /\ j.then = "label" /\ j.old = CurrentPorts /\ j.snap = files
  BY DEF PortJob, NoJob
<1>5. j.force = (j.close /\ ~j.allowFw)
  BY DEF PortJob, NoJob
<1> HIDE DEF j
<1> QED BY <1>2, <1>3, <1>4, <1>5 DEF IsPort, j

LEMMA PortStart ==
  ASSUME Typed, SetPort
  PROVE  \E j \in JobSet, edits \in Seq(EditType), first \in {"edit", "ports", "label"} :
           /\ IsPort(j) /\ Begin(j, edits, first) /\ \A e \in Elems(edits) : Adding(e)
           /\ IF j.allowFw /\ ~j.dry
              THEN /\ first = "edit" /\ edits # <<>>
                   /\ edits[Len(edits)] = AddRule(NewRule(j))
              ELSE edits = <<>> /\ first = IF j.dry THEN "ports" ELSE "label"
<1>1. PICK p \in NewPorts, allowFw \in CloseWith, close \in BOOLEAN, dry \in DryIn,
           client \in Clients :
        LET edits == IF allowFw /\ ~dry
                     THEN Protect(client, Listed) \o
                          <<AddRule(PortRule("allow", p, Anywhere, "tcp"))>>
                     ELSE <<>>
        IN  Begin(PortJob(p, allowFw, close, dry), edits,
                  IF edits # <<>> THEN "edit" ELSE IF dry THEN "ports" ELSE "label")
  BY DEF SetPort, PortJob
<1> DEFINE j == PortJob(p, allowFw, close, dry)
           r == PortRule("allow", p, Anywhere, "tcp")
           pre == Protect(client, Listed)
           opens == pre \o <<AddRule(r)>>
           edits == IF allowFw /\ ~dry THEN opens ELSE <<>>
           first == IF edits # <<>> THEN "edit" ELSE IF dry THEN "ports" ELSE "label"
<1>2. Begin(j, edits, first)
  BY <1>1
<1>3. j \in JobSet /\ IsPort(j) /\ j.port = p /\ j.allowFw = allowFw /\ j.dry = dry
  BY PortJobs
<1>4. r = NewRule(j)
  BY <1>3 DEF NewRule
<1>5. IsRule(r, "allow", p, Anywhere)
  BY PortRuleTyped, AccessAssumption
<1> HIDE DEF r, j
<1>6. AddRule(r) \in EditType /\ Adding(AddRule(r))
  BY <1>5, EditsTyped DEF IsRule, Adding, Known
<1>7. opens \in Seq(EditType) /\ opens # <<>> /\ \A e \in Elems(opens) : Adding(e)
  BY <1>6, ProtectThen
<1>8. opens[Len(opens)] = AddRule(r)
  <2>1. pre \in Seq(EditType)
    BY ProtectAdds
  <2> HIDE DEF pre
  <2> QED BY <2>1, <1>6, OneMore
<1> HIDE DEF opens
<1>9. <<>> \in Seq(EditType) /\ Elems(<<>>) = {}
  BY EmptyList, ElemsShort
<1>10. edits \in Seq(EditType) /\ \A e \in Elems(edits) : Adding(e)
  BY <1>7, <1>9
<1>11. IF j.allowFw /\ ~j.dry
       THEN first = "edit" /\ edits # <<>> /\ edits[Len(edits)] = AddRule(NewRule(j))
       ELSE edits = <<>> /\ first = IF j.dry THEN "ports" ELSE "label"
  BY <1>3, <1>4, <1>7, <1>8
<1>12. first \in {"edit", "ports", "label"}
  OBVIOUS
<1> HIDE DEF edits, first
<1> QED BY <1>2, <1>3, <1>10, <1>11, <1>12

-----------------------------------------------------------------------------
(***************************************************************************)
(* Types and flow are kept by every step.                                  *)
(***************************************************************************)
FlowVars == <<pc, job, todo, outcome>>

\* The next step of a running command: it goes on, or it ends.
LEMMA Advances ==
  ASSUME Typed, Flow, Editing, Advance
  PROVE  /\ Head(todo) \in EditType /\ Head(todo) = todo[1]
         /\ \/ /\ todo' = Tail(todo) /\ Tail(todo) # <<>> /\ Tail(todo) \in Seq(EditType)
               /\ pc' = "edit" /\ UNCHANGED <<job, outcome>>
            \/ Len(todo) = 1 /\ job.then = "exit" /\ Exit("ok")
            \/ /\ Len(todo) = 1 /\ job.then # "exit" /\ pc' = job.then /\ todo' = <<>>
               /\ UNCHANGED <<job, outcome>>
<1>1. todo \in Seq(EditType) /\ todo # <<>>
  BY DEF Typed, Flow
<1>2. Len(todo) \in Nat /\ Len(todo) >= 1
  BY <1>1
<1>3. Tail(todo) \in Seq(EditType) /\ Head(todo) \in EditType /\ (Len(todo) > 1 <=> Tail(todo) # <<>>)
  BY <1>1, ElemsTail
<1>4. Head(todo) = todo[1]
  BY <1>1
<1>5. CASE Len(todo) > 1
  BY <1>3, <1>4, <1>5 DEF Advance
<1>6. CASE ~(Len(todo) > 1) /\ job.then = "exit"
  <2>1. Len(todo) = 1
    BY <1>2, <1>6
  <2>2. Exit("ok")
    BY <1>6 DEF Advance
  <2> QED BY <1>3, <1>4, <1>6, <2>1, <2>2, Zenon
<1>7. CASE ~(Len(todo) > 1) /\ job.then # "exit"
  BY <1>2, <1>3, <1>4, <1>7 DEF Advance
<1> QED BY <1>5, <1>6, <1>7

LEMMA ExitKeeps ==
  ASSUME NEW r, Exit(r)
  PROVE  /\ pc' \in Labels \cup {"idle"} /\ job' \in JobSet /\ todo' \in Seq(EditType)
         /\ Flow'
<1>1. <<>> \in Seq(EditType)
  BY EmptyList
<1>2. job' = NoJob /\ pc' = "idle" /\ todo' = <<>>
  BY DEF Exit
<1>3. NoJob.cmd = "none" /\ NoJob.then = "exit" /\ NoJob.stage = "both"
  BY DEF NoJob
<1> QED BY <1>1, <1>2, <1>3, NoJobTyped DEF Flow, Idle, At, Editing, SetPorting

\* A command begins.
Begins(j, edits, first) ==
  /\ j \in JobSet /\ edits \in Seq(EditType) /\ j.stage = "both"
  /\ \/ /\ j.cmd \in AllCommands \ {"setPort", "directive"} /\ j.then = "exit"
        /\ first = "edit" /\ edits # <<>>
     \/ /\ j.cmd = "setPort" /\ j.then = "label"
        /\ IF j.allowFw /\ ~j.dry THEN first = "edit" /\ edits # <<>>
           ELSE edits = <<>> /\ first = IF j.dry THEN "ports" ELSE "label"

LEMMA BeginKeeps ==
  ASSUME NEW j, NEW edits, NEW first, Begin(j, edits, first), Begins(j, edits, first)
  PROVE  /\ pc' \in Labels \cup {"idle"} /\ job' \in JobSet /\ todo' \in Seq(EditType)
         /\ Flow'
<1>1. job' = j /\ todo' = edits /\ pc' = first /\ outcome' = "none"
  BY DEF Begin
<1>2. j.cmd # "none" /\ j.dry \in BOOLEAN /\ j.allowFw \in BOOLEAN
  BY DEF Begins, AllCommands, JobSet
<1>3. /\ pc' \in Labels \cup {"idle"} /\ job' \in JobSet /\ todo' \in Seq(EditType)
  BY <1>1 DEF Begins, Labels
<1>4. CASE j.cmd = "setPort"
  <2>1. j.then = "label" /\ j.stage = "both" /\ j.cmd # "directive"
    BY <1>4 DEF Begins
  <2>2. CASE j.allowFw /\ ~j.dry
    <3>1. pc' = "edit" /\ todo' # <<>> /\ job'.allowFw /\ ~job'.dry
      BY <1>1, <1>4, <2>2 DEF Begins
    <3> QED BY <1>1, <1>2, <1>3, <1>4, <2>1, <3>1 DEF Flow, Idle, At, Editing, SetPorting
  <2>3. CASE ~(j.allowFw /\ ~j.dry) /\ j.dry
    <3>1. pc' = "ports" /\ todo' = <<>>
      BY <1>1, <1>4, <2>3 DEF Begins
    <3> QED BY <1>1, <1>2, <1>3, <1>4, <2>1, <3>1 DEF Flow, Idle, At, Editing, SetPorting
  <2>4. CASE ~(j.allowFw /\ ~j.dry) /\ ~j.dry
    <3>1. pc' = "label" /\ todo' = <<>> /\ ~job'.dry
      BY <1>1, <1>4, <2>4 DEF Begins
    <3> QED BY <1>1, <1>2, <1>3, <1>4, <2>1, <3>1 DEF Flow, Idle, At, Editing, SetPorting
  <2> QED BY <2>2, <2>3, <2>4
<1>5. CASE j.cmd # "setPort"
  <2>1. /\ j.then = "exit" /\ j.stage = "both" /\ j.cmd # "directive"
        /\ pc' = "edit" /\ todo' # <<>>
    BY <1>1, <1>5 DEF Begins
  <2> QED BY <1>1, <1>2, <1>3, <1>5, <2>1 DEF Flow, Idle, At, Editing, SetPorting
<1> QED BY <1>3, <1>4, <1>5

FlowTyped == pc \in Labels \cup {"idle"} /\ job \in JobSet /\ todo \in Seq(EditType) /\ Flow

LEMMA AdvanceKeeps ==
  ASSUME Typed, Flow, Editing, Advance
  PROVE  FlowTyped'
<1>1. CASE /\ todo' = Tail(todo) /\ Tail(todo) # <<>> /\ Tail(todo) \in Seq(EditType)
           /\ pc' = "edit" /\ UNCHANGED <<job, outcome>>
  BY <1>1 DEF Typed, Flow, FlowTyped, Labels, Idle, At, Editing, SetPorting
<1>2. CASE Exit("ok")
  BY <1>2, ExitKeeps DEF FlowTyped
<1>3. CASE job.then # "exit" /\ pc' = job.then /\ todo' = <<>> /\ UNCHANGED <<job, outcome>>
  <2>1. job.then \in {"label", "closeFw"} /\ <<>> \in Seq(EditType)
    BY <1>3, EmptyList DEF Typed, JobSet
  <2>2. pc' \in Labels \cup {"idle"} /\ job' \in JobSet /\ todo' \in Seq(EditType)
    BY <1>3, <2>1 DEF Typed, Labels
  <2>3. Flow'
    BY <1>3, <2>1 DEF Flow, Idle, At, Editing, SetPorting
  <2> QED BY <2>2, <2>3 DEF FlowTyped
<1> QED BY <1>1, <1>2, <1>3, Advances

\* A running command goes on to step p, with the same job.
LEMMA GotoKeeps ==
  ASSUME Typed, Flow, NEW p, Goto(p), host' = host, ~Idle,
         \/ At("edit") /\ p = "fwReload"
         \/ At("label") /\ p = "migrate"
         \/ At("migrate") /\ p = "ports"
         \/ At("ports") /\ p \in {"dropIn", "restart"} /\ ~job.dry
              /\ (p = "dropIn" => host.socket)
         \/ At("ports") /\ p = "closeFw" /\ job.allowFw /\ job.stage = "new"
         \/ At("dropIn") /\ p = "restart"
         \/ At("restart") /\ p = "banner"
         \/ pc \in {"ports", "dropIn", "restart", "banner"} /\ p = "undo"
         \/ At("banner") /\ p = "closeFw" /\ job.allowFw /\ job.stage = "new"
  PROVE  FlowTyped'
<1>1. pc' = p /\ job' = job /\ todo' = todo /\ outcome' = outcome
  BY DEF Goto
<1>2. pc' \in Labels \cup {"idle"} /\ job' \in JobSet /\ todo' \in Seq(EditType)
  BY <1>1 DEF Typed, Labels, At
<1>3. Flow'
  BY <1>1 DEF Flow, Idle, At, Editing, SetPorting
<1> QED BY <1>2, <1>3 DEF FlowTyped

LEMMA StageKeeps ==
  ASSUME Typed, Flow, At("ports") \/ At("banner"), job.close, Stage("new", "ports"), host' = host
  PROVE  FlowTyped' /\ job'.stage = "new" /\ job'.port = job.port /\ job'.allowFw = job.allowFw
         /\ job'.snap = job.snap /\ job'.old = job.old /\ job'.cmd = job.cmd
         /\ job'.then = job.then /\ job'.dry = job.dry /\ job'.close = job.close
<1>1. /\ job' = [job EXCEPT !.stage = "new"] /\ pc' = "ports" /\ todo' = todo
      /\ outcome' = outcome /\ job \in JobSet
  BY DEF Stage, Typed
<1>2. /\ job'.cmd = job.cmd /\ job'.then = job.then /\ job'.allowFw = job.allowFw
      /\ job'.close = job.close /\ job'.dry = job.dry /\ job'.port = job.port
  BY <1>1 DEF JobSet
<1>3. job'.stage = "new" /\ job'.snap = job.snap /\ job'.old = job.old
  BY <1>1 DEF JobSet
<1>4. job' \in JobSet
  BY <1>1 DEF JobSet
<1>5. pc' \in Labels \cup {"idle"} /\ todo' \in Seq(EditType)
  BY <1>1 DEF Typed, Labels
<1>6. ~Idle /\ SetPorting /\ job.then = "label" /\ todo = <<>> /\ outcome = "none"
  BY DEF Flow, Idle, At, Editing
<1>7. Flow'
  BY <1>1, <1>2, <1>3, <1>6 DEF Flow, Idle, At, Editing, SetPorting
<1> QED BY <1>2, <1>3, <1>4, <1>5, <1>7 DEF FlowTyped

\* closeFw takes the next old port.
CloseNext ==
  LET left == Kept(job.old, Ports \ {job.port})
      rule == PortRule("allow", Head(left), Anywhere, "tcp")
  IN  /\ left # <<>> /\ Firewalld /\ ~job.dry /\ Guard(FALSE, Without(Listed, rule))
      /\ job' = [job EXCEPT !.old = Tail(left), !.then = "closeFw"]
      /\ todo' = <<DelRule(rule)>> /\ pc' = "edit" /\ UNCHANGED outcome

LEMMA ClosePlans ==
  ASSUME Typed, Flow, At("closeFw"), CloseNext
  PROVE  /\ FlowTyped'
         /\ \E q \in Ports \ {job.port} :
              LET rule == PortRule("allow", q, Anywhere, "tcp")
              IN  /\ rule \in Rule /\ rule.port = q /\ rule.act = "allow"
                  /\ todo' = <<DelRule(rule)>> /\ DelRule(rule) \in EditType
                  /\ Guard(FALSE, Without(Listed, rule))
         /\ Firewalld /\ ~job.dry /\ pc' = "edit" /\ outcome' = outcome
         /\ job'.cmd = job.cmd /\ job'.then = "closeFw" /\ job'.stage = job.stage
         /\ job'.allowFw = job.allowFw /\ job'.port = job.port /\ job'.close = job.close
         /\ job'.snap = job.snap /\ job'.dry = job.dry
         /\ Once(job.old) => Once(job'.old)
<1> DEFINE left == Kept(job.old, Ports \ {job.port})
           rule == PortRule("allow", Head(left), Anywhere, "tcp")
<1>1. job \in JobSet /\ job.old \in Seq(Ports) /\ job.port \in Ports
  BY DEF Typed, JobSet
<1>2. /\ left \in Seq(Ports) /\ Elems(left) = Elems(job.old) \cap (Ports \ {job.port})
      /\ Once(job.old) => Once(left)
  BY <1>1, KeptShape
<1>3. /\ left # <<>> /\ Firewalld /\ ~job.dry /\ Guard(FALSE, Without(Listed, rule))
      /\ job' = [job EXCEPT !.old = Tail(left), !.then = "closeFw"]
      /\ todo' = <<DelRule(rule)>> /\ pc' = "edit" /\ outcome' = outcome
  BY DEF CloseNext
<1> HIDE DEF left
<1>4. /\ Head(left) \in Ports /\ Tail(left) \in Seq(Ports)
      /\ Elems(left) = {Head(left)} \cup Elems(Tail(left))
  BY <1>2, <1>3, ElemsTail
<1>5. Once(left) => Once(Tail(left))
  <2>1. \A i \in DOMAIN Tail(left) : i + 1 \in DOMAIN left /\ Tail(left)[i] = left[i + 1]
    BY <1>2, <1>3, TailAt
  <2>2. \A i \in DOMAIN Tail(left) : i \in Nat
    BY <1>4
  <2> QED BY <2>1, <2>2 DEF Once
<1>6. Head(left) \in Ports \ {job.port}
  BY <1>2, <1>4
<1>7. IsRule(rule, "allow", Head(left), Anywhere)
  BY <1>6, PortRuleTyped
<1>8. DelRule(rule) \in EditType
  BY <1>7, EditsTyped DEF IsRule
<1>9. /\ job'.cmd = job.cmd /\ job'.stage = job.stage /\ job'.allowFw = job.allowFw
      /\ job'.port = job.port /\ job'.close = job.close /\ job'.dry = job.dry
  BY <1>1, <1>3 DEF JobSet
<1>10. job'.then = "closeFw" /\ job'.snap = job.snap /\ job'.old = Tail(left)
  BY <1>1, <1>3 DEF JobSet
<1>11. job' \in JobSet
  BY <1>1, <1>3, <1>4 DEF JobSet
<1>12. todo' \in Seq(EditType) /\ todo' # <<>>
  <2> HIDE DEF rule
  <2> QED BY <1>3, <1>8
<1>13. SetPorting /\ job.allowFw /\ job.stage = "new" /\ job.close /\ ~Idle /\ outcome = "none"
  BY DEF Flow, At, Idle, SetPorting
<1>14. Flow'
  BY <1>3, <1>9, <1>10, <1>12, <1>13 DEF Flow, Idle, At, Editing, SetPorting
<1>15. FlowTyped'
  BY <1>3, <1>11, <1>12, <1>14 DEF FlowTyped, Labels
<1>16. \E q \in Ports \ {job.port} :
         LET r == PortRule("allow", q, Anywhere, "tcp")
         IN  /\ r \in Rule /\ r.port = q /\ r.act = "allow"
             /\ todo' = <<DelRule(r)>> /\ DelRule(r) \in EditType
             /\ Guard(FALSE, Without(Listed, r))
  BY <1>3, <1>6, <1>7, <1>8 DEF IsRule
<1> QED BY <1>2, <1>3, <1>5, <1>9, <1>10, <1>15, <1>16

LEMMA StartKeeps ==
  ASSUME Typed, Flow, FirewallStart \/ SshdStart
  PROVE  FlowTyped' /\ UNCHANGED <<host, fw, listen>> /\ Idle /\ job = NoJob
         /\ files' \in {files, Migrated(files)}
<1>1. CASE FirewallStart
  <2>1. PICK c \in AllCommands \ {"setPort", "directive"}, force \in BOOLEAN, j \in JobSet,
             edits \in Seq(EditType) :
          IsPlain(j, c, force) /\ Begin(j, edits, "edit") /\ edits # <<>>
    BY <1>1, PlainStart
  <2>2. Begins(j, edits, "edit")
    BY <2>1 DEF Begins, IsPlain
  <2>3. Idle /\ UNCHANGED <<host, fw, files, listen>>
    BY <2>1 DEF Begin
  <2> QED BY <2>1, <2>2, <2>3, BeginKeeps DEF FlowTyped, Flow
<1>2. CASE SetPort
  <2>1. PICK j \in JobSet, edits \in Seq(EditType), first \in {"edit", "ports", "label"} :
          /\ IsPort(j) /\ Begin(j, edits, first)
          /\ IF j.allowFw /\ ~j.dry THEN first = "edit" /\ edits # <<>>
             ELSE edits = <<>> /\ first = IF j.dry THEN "ports" ELSE "label"
    BY <1>2, PortStart
  <2>2. Begins(j, edits, first)
    BY <2>1 DEF Begins, IsPort
  <2>3. Idle /\ UNCHANGED <<host, fw, files, listen>>
    BY <2>1 DEF Begin
  <2> QED BY <2>1, <2>2, <2>3, BeginKeeps DEF FlowTyped, Flow
<1>3. CASE Directive
  <2>1. /\ Idle /\ job' = [NoJob EXCEPT !.cmd = "directive"] /\ pc' = "applied"
        /\ outcome' = "none" /\ UNCHANGED <<host, fw, listen, todo>>
        /\ files' = Migrated(files)
    BY <1>3 DEF Directive
  <2>2. job' \in JobSet /\ job'.cmd = "directive"
    BY <2>1, NoJobTyped DEF JobSet, AllCommands
  <2>3. job'.then = "exit" /\ job'.stage = "both"
    BY <2>1 DEF NoJob
  <2>4. todo = <<>> /\ todo \in Seq(EditType)
    BY <2>1 DEF Flow, Typed, Idle, At, Editing
  <2>5. Flow'
    BY <2>1, <2>2, <2>3, <2>4 DEF Flow, Idle, At, Editing, SetPorting
  <2> QED BY <2>1, <2>2, <2>4, <2>5 DEF FlowTyped, Flow, Labels
<1> QED BY <1>1, <1>2, <1>3 DEF SshdStart

LEMMA FirewallKeeps ==
  ASSUME Typed, Flow, FirewallStep
  PROVE  FlowTyped' /\ UNCHANGED <<host, files, listen>> /\ fw' \in FwSet
<1>1. CASE EditFirewall
  <2>1. At("edit") /\ UNCHANGED <<host, files, listen>> /\ Editing /\ ~Idle
    BY <1>1 DEF EditFirewall, At, Editing, Idle
  <2>2. todo \in Seq(EditType) /\ todo # <<>> /\ fw \in FwSet
    BY <2>1 DEF Typed, Flow
  <2>3. Head(todo) \in EditType
    BY <2>2, ElemsTail
  <2>4. /\ EditedRules(Head(todo)) \in Seq(Rule) /\ EditedDeny(Head(todo)) \in BOOLEAN
    BY <2>2, <2>3, WithRuleTyped, WithoutTyped DEF EditedRules, EditedDeny, EditType, FwSet
  <2>5. \/ fw' = fw \/ fw' = [fw EXCEPT !.active = FALSE]
        \/ fw' = [fw EXCEPT !.active = TRUE, !.run = fw.stored, !.rdeny = fw.sdeny]
        \/ fw' = [fw EXCEPT !.stored = EditedRules(Head(todo)), !.run = EditedRules(Head(todo)),
                            !.sdeny = EditedDeny(Head(todo)), !.rdeny = EditedDeny(Head(todo))]
        \/ fw' = [fw EXCEPT !.stored = EditedRules(Head(todo)), !.sdeny = EditedDeny(Head(todo))]
    BY <1>1 DEF EditFirewall
  <2>6. fw' \in FwSet
    BY <2>2, <2>4, <2>5 DEF FwSet
  <2>7. Exit("error") \/ Advance \/ Goto("fwReload")
    BY <1>1 DEF EditFirewall
  <2>8. FlowTyped'
    <3>1. CASE Exit("error")
      BY <3>1, ExitKeeps DEF FlowTyped
    <3>2. CASE Advance
      BY <3>2, <2>1, AdvanceKeeps
    <3>3. CASE Goto("fwReload")
      BY <3>3, <2>1, GotoKeeps
    <3> QED BY <2>7, <3>1, <3>2, <3>3
  <2> QED BY <2>1, <2>6, <2>8
<1>2. CASE ReloadFirewall
  <2>1. At("fwReload") /\ UNCHANGED <<host, files, listen>> /\ Editing
    BY <1>2 DEF ReloadFirewall, At, Editing
  <2>2. /\ fw' = fw \/ fw' = [fw EXCEPT !.run = fw.stored, !.rdeny = fw.sdeny]
        /\ Exit("error") \/ Advance
    BY <1>2 DEF ReloadFirewall
  <2>3. fw' \in FwSet
    BY <2>2 DEF Typed, FwSet
  <2>4. FlowTyped'
    BY <2>1, <2>2, ExitKeeps, AdvanceKeeps DEF FlowTyped
  <2> QED BY <2>1, <2>3, <2>4
<1> QED BY <1>1, <1>2 DEF FirewallStep

\* What a step of sshd's part does to the files and to sshd.
LEMMA SshdKeeps ==
  ASSUME Typed, Flow, SshdStep
  PROVE  /\ FlowTyped' /\ UNCHANGED <<host, fw>> /\ ~Idle
         /\ \/ files' \in {files, Migrated(files), job.snap}
            \/ files' = [files EXCEPT !.managed = Wanted]
            \/ files' = [files EXCEPT !.dropIn = Wanted]
         /\ listen' \in {listen, Effective(files), Effective(files')}
<1>1. CASE ApplyDirective
  <2>1. /\ At("applied") /\ UNCHANGED <<host, fw, files>>
        /\ listen' \in {listen, Effective(files)}
        /\ Exit("ok") \/ Exit("error")
    BY <1>1 DEF ApplyDirective
  <2>2. FlowTyped'
    BY <2>1, ExitKeeps DEF FlowTyped
  <2>3. ~Idle
    BY <2>1 DEF At, Idle
  <2> QED BY <2>1, <2>2, <2>3
<1>2. CASE LabelPort
  <2>1. At("label") /\ ~Idle /\ UNCHANGED <<host, fw, files, listen>>
        /\ (Exit("error") \/ Goto("migrate"))
    BY <1>2 DEF LabelPort, At, Idle
  <2>2. FlowTyped'
    BY <2>1, ExitKeeps, GotoKeeps DEF FlowTyped
  <2> QED BY <2>1, <2>2
<1>3. CASE MigrateLegacy
  <2>1. At("migrate") /\ ~Idle /\ UNCHANGED <<host, fw, listen>>
        /\ files' \in {files, Migrated(files)}
        /\ (Exit("error") \/ Goto("ports"))
    BY <1>3 DEF MigrateLegacy, At, Idle
  <2>2. FlowTyped'
    BY <2>1, ExitKeeps, GotoKeeps DEF FlowTyped
  <2> QED BY <2>1, <2>2
<1>n. ASSUME At("ports") \/ At("dropIn"), NotWritten, host' = host
      PROVE  FlowTyped' /\ files' \in {files, job.snap}
  <2>1. CASE files' = job.snap /\ Exit("error")
    BY <2>1, ExitKeeps DEF FlowTyped
  <2>2. CASE files' = files /\ Goto("undo")
    <3>1. ~Idle /\ pc \in {"ports", "dropIn"}
      BY <1>n DEF At, Idle
    <3>2. FlowTyped'
      BY <1>n, <2>2, <3>1, GotoKeeps
    <3> QED BY <2>2, <3>2
  <2> QED BY <1>n, <2>1, <2>2 DEF NotWritten, RestoreFiles
<1>4. CASE WritePorts
  <2>1. At("ports") /\ ~Idle /\ UNCHANGED <<host, fw, listen>>
    BY <1>4 DEF WritePorts, At, Idle
  <2>2. CASE NotWritten
    BY <2>1, <2>2, <1>n
  <2>3. CASE /\ files' = [files EXCEPT !.managed = Wanted]
             /\ host.socket /\ ~job.dry /\ Goto("dropIn")
    BY <2>1, <2>3, GotoKeeps
  <2>4. CASE files' = [files EXCEPT !.managed = Wanted] /\ Listening
    <3>1. CASE ~job.dry /\ Goto("restart")
      BY <2>1, <2>4, <3>1, GotoKeeps
    <3>2. CASE job.close /\ Stage("new", "ports")
      BY <2>1, <2>4, <3>2, StageKeeps
    <3>3. CASE job.stage = "new" /\ job.allowFw /\ Goto("closeFw")
      BY <2>1, <2>4, <3>3, GotoKeeps
    <3>4. CASE Exit("ok")
      BY <2>1, <2>4, <3>4, ExitKeeps DEF FlowTyped
    <3>5. job.stage \in {"both", "new"}
      BY DEF Typed, JobSet
    <3>6. CASE ~job.dry
      BY <2>4, <3>1, <3>6 DEF Listening
    <3>7. CASE job.dry /\ job.close /\ job.stage = "both"
      BY <2>4, <3>2, <3>7 DEF Listening
    <3>8. CASE job.dry /\ ~(job.close /\ job.stage = "both")
      <4>1. IF job.close /\ job.allowFw THEN Goto("closeFw") ELSE Exit("ok")
        BY <2>4, <3>8 DEF Listening
      <4> QED BY <3>3, <3>4, <3>5, <3>8, <4>1
    <3> QED BY <3>6, <3>7, <3>8
  <2> QED BY <1>4, <2>2, <2>3, <2>4 DEF WritePorts
<1>5. CASE WriteDropIn
  <2>1. At("dropIn") /\ ~Idle /\ UNCHANGED <<host, fw, listen>>
    BY <1>5 DEF WriteDropIn, At, Idle
  <2>2. CASE NotWritten
    BY <2>1, <2>2, <1>n
  <2>3. CASE files' = [files EXCEPT !.dropIn = Wanted] /\ Goto("restart")
    BY <2>1, <2>3, GotoKeeps
  <2> QED BY <1>5, <2>2, <2>3 DEF WriteDropIn
<1>6. CASE RestartSshd
  <2>1. At("restart") /\ ~Idle /\ UNCHANGED <<host, fw, files>>
        /\ listen' \in {listen, Effective(files)} /\ (Goto("banner") \/ Goto("undo"))
    BY <1>6 DEF RestartSshd, At, Idle
  <2>2. CASE Goto("banner")
    BY <2>1, <2>2, GotoKeeps
  <2>3. CASE Goto("undo")
    <3>1. pc \in {"ports", "dropIn", "restart", "banner"}
      BY <2>1 DEF At
    <3> QED BY <2>1, <2>3, <3>1, GotoKeeps
  <2> QED BY <2>1, <2>2, <2>3
<1>7. CASE CheckBanner
  <2>1. At("banner") /\ ~Idle /\ UNCHANGED <<host, fw, files, listen>>
    BY <1>7 DEF CheckBanner, At, Idle
  <2>2. CASE Goto("undo")
    <3>1. pc \in {"ports", "dropIn", "restart", "banner"}
      BY <2>1 DEF At
    <3> QED BY <2>1, <2>2, <3>1, GotoKeeps
  <2>3. CASE job.close /\ Stage("new", "ports")
    BY <2>1, <2>3, StageKeeps
  <2>4. CASE Exit("ok")
    BY <2>1, <2>4, ExitKeeps DEF FlowTyped
  <2>5. CASE job.stage = "new" /\ job.allowFw /\ Goto("closeFw")
    BY <2>1, <2>5, GotoKeeps
  <2> QED BY <1>7, <2>2, <2>3, <2>4, <2>5 DEF CheckBanner
<1>8. CASE UndoPort
  <2>1. /\ At("undo") /\ ~Idle /\ UNCHANGED <<host, fw>> /\ files' = job.snap
        /\ listen' \in {listen, Effective(files')} /\ Exit("error")
    BY <1>8 DEF UndoPort, RestoreFiles, At, Idle
  <2> QED BY <2>1, ExitKeeps DEF FlowTyped
<1>9. CASE CloseFirewall
  <2>1. /\ At("closeFw") /\ ~Idle /\ UNCHANGED <<host, fw, files, listen>>
        /\ Exit("ok") \/ Exit("error") \/ CloseNext
    BY <1>9 DEF CloseFirewall, CloseNext, At, Idle
  <2>2. FlowTyped'
    <3>1. CASE CloseNext
      BY <2>1, <3>1, ClosePlans
    <3> QED BY <2>1, <3>1, ExitKeeps DEF FlowTyped
  <2> QED BY <2>1, <2>2
<1> QED BY <1>1, <1>2, <1>3, <1>4, <1>5, <1>6, <1>7, <1>8, <1>9 DEF SshdStep

LEMMA TypedInit == Init => Typed /\ Flow
<1> SUFFICES ASSUME Init PROVE Typed /\ Flow
  OBVIOUS
<1>1. /\ host \in [backend : Backends, main : MainPorts, socket : Sockets]
      /\ files \in [managed : {<<>>}, legacy : OldDropIns, dropIn : {<<>>}]
      /\ listen = Effective(files)
      /\ pc = "idle" /\ job = NoJob /\ todo = <<>> /\ outcome = "none"
  BY DEF Init
<1>2. <<>> \in Seq(Ports) /\ <<>> \in Seq(EditType) /\ <<>> \in Seq(Rule)
  BY EmptyList
<1>3. files \in FilesSet
  BY <1>1, <1>2, AccessAssumption DEF FilesSet
<1>4. fw \in FwSet
  <2>1. SshService \in Rule
    BY ServiceTyped
  <2>2. <<SshService>> \in Seq(Rule)
    BY <2>1
  <2>3. \E rules \in Seq(Rule) :
          fw = [active |-> FALSE, stored |-> rules, run |-> rules,
                sdeny |-> TRUE, rdeny |-> TRUE]
    BY <1>2, <2>2 DEF Init
  <2> QED BY <2>3 DEF FwSet
<1>5. DefaultPort \in Ports /\ host.main \in Seq(Ports)
  BY <1>1, GuardAssumption, AccessAssumption
<1>6. \A s \in Seq(Ports) : Elems(s) \subseteq Ports /\ (s # <<>> => Elems(s) # {})
  <2>1. \A s \in Seq(Ports) : s # <<>> => 1 \in DOMAIN s
    OBVIOUS
  <2> QED BY <2>1 DEF Elems
<1>7. files.managed \in Seq(Ports) /\ files.legacy \in Seq(Ports) /\ files.dropIn \in Seq(Ports)
  BY <1>3 DEF FilesSet
<1>8. listen \in (SUBSET Ports) \ {{}}
  BY <1>1, <1>5, <1>6, <1>7 DEF Effective
<1>9. Typed
  BY <1>1, <1>2, <1>3, <1>4, <1>8, NoJobTyped DEF Typed
<1>10. NoJob.cmd = "none" /\ NoJob.then = "exit" /\ NoJob.stage = "both"
  BY DEF NoJob
<1>11. Flow
  BY <1>1, <1>10 DEF Flow, Idle, At, Editing, SetPorting
<1> QED BY <1>9, <1>11

LEMMA HeardTyped ==
  ASSUME Typed, host' = host, NEW f, f \in FilesSet, listen' = Effective(f)
  PROVE  listen' \in (SUBSET Ports) \ {{}}
BY PortsHeard

LEMMA TypedStep ==
  ASSUME Typed, Flow, [Next]_vars
  PROVE  Typed' /\ Flow' /\ host' = host
<1>t. /\ host \in [backend : Backends, main : MainPorts, socket : Sockets]
      /\ fw \in FwSet /\ files \in FilesSet /\ listen \in (SUBSET Ports) \ {{}}
  BY DEF Typed
<1>m. Migrated(files) \in FilesSet /\ job.snap \in FilesSet
  BY <1>t, MigratedTyped, PortLists
<1>1. CASE UNCHANGED vars
  BY <1>1 DEF vars, Typed, Flow, Idle, At, Editing, SetPorting
<1>2. CASE FirewallStart \/ SshdStart
  <2>1. /\ FlowTyped' /\ UNCHANGED <<host, fw, listen>> /\ files' \in {files, Migrated(files)}
    BY <1>2, StartKeeps
  <2> QED BY <1>t, <1>m, <2>1 DEF Typed, FlowTyped
<1>3. CASE FirewallStep
  <2>1. FlowTyped' /\ UNCHANGED <<host, files, listen>> /\ fw' \in FwSet
    BY <1>3, FirewallKeeps
  <2> QED BY <1>t, <2>1 DEF Typed, FlowTyped
<1>4. CASE SshdStep
  <2>1. /\ FlowTyped' /\ UNCHANGED <<host, fw>>
        /\ \/ files' \in {files, Migrated(files), job.snap}
           \/ files' = [files EXCEPT !.managed = Wanted]
           \/ files' = [files EXCEPT !.dropIn = Wanted]
        /\ listen' \in {listen, Effective(files), Effective(files')}
    BY <1>4, SshdKeeps
  <2>2. files' \in FilesSet
    <3>1. Wanted \in Seq(Ports)
      BY WantedTyped
    <3> QED BY <1>t, <1>m, <2>1, <3>1 DEF FilesSet
  <2>3. /\ Effective(files) \in (SUBSET Ports) \ {{}}
        /\ Effective(files') \in (SUBSET Ports) \ {{}}
    BY <1>t, <2>2, PortsHeard
  <2>4. listen' \in (SUBSET Ports) \ {{}}
    BY <1>t, <2>1, <2>3
  <2> QED BY <1>t, <2>1, <2>2, <2>4 DEF Typed, FlowTyped
<1>5. CASE Crash
  <2>1. Exit("crashed") /\ UNCHANGED <<host, fw, files, listen>>
    BY <1>5 DEF Crash
  <2> QED BY <1>t, <2>1, ExitKeeps DEF Typed
<1>6. CASE Reboot
  <2>1. /\ fw' = [fw EXCEPT !.run = fw.stored, !.rdeny = fw.sdeny]
        /\ listen' = Effective(files) /\ UNCHANGED <<host, files, pc, job, todo, outcome>>
    BY <1>6 DEF Reboot
  <2>2. fw' \in FwSet
    BY <1>t, <2>1 DEF FwSet
  <2>3. listen' \in (SUBSET Ports) \ {{}}
    BY <1>t, <2>1, PortsHeard
  <2>4. Flow'
    BY <2>1 DEF Flow, Idle, At, Editing, SetPorting
  <2> QED BY <1>t, <2>1, <2>2, <2>3, <2>4 DEF Typed
<1> QED BY <1>1, <1>2, <1>3, <1>4, <1>5, <1>6 DEF Next

LEMMA TypedAlways == Spec => [](Typed /\ Flow)
BY TypedInit, TypedStep, PTL DEF Spec

-----------------------------------------------------------------------------
(***************************************************************************)
(* A set-port that fails leaves the files as they were.                    *)
(***************************************************************************)
\* Until set-port writes, the files are the ones it remembers.
Snapped ==
  job.then = "label" /\ pc \in {"edit", "fwReload", "label", "migrate"} => files = job.snap

LEMMA EndedJob ==
  ASSUME NEW r, Exit(r)
  PROVE  /\ pc' = "idle" /\ todo' = <<>> /\ outcome' = r
         /\ job'.then = "exit" /\ job'.cmd = "none" /\ job'.stage = "both"
BY DEF Exit, NoJob

\* The steps that change the firewall know the job only by where they go next.
LEMMA FirewallMoves ==
  ASSUME Typed, Flow, FirewallStep
  PROVE  /\ Editing /\ ~Idle /\ UNCHANGED <<host, files, listen>>
         /\ \/ \E r \in {"ok", "error"} : Exit(r)
            \/ pc' \in {"edit", "fwReload", job.then} /\ UNCHANGED <<job, outcome>>
<1>1. At("edit") \/ At("fwReload")
  BY DEF FirewallStep, EditFirewall, ReloadFirewall
<1>2. Editing /\ ~Idle
  BY <1>1 DEF Editing, At, Idle
<1>3. UNCHANGED <<host, files, listen>>
  BY DEF FirewallStep, EditFirewall, ReloadFirewall
<1>4. Exit("error") \/ Goto("fwReload") \/ Advance
  BY DEF FirewallStep, EditFirewall, ReloadFirewall
<1>5. CASE Advance
  BY <1>2, <1>3, <1>5, Advances
<1>6. CASE Goto("fwReload")
  BY <1>2, <1>3, <1>6 DEF Goto
<1>7. CASE Exit("error")
  BY <1>2, <1>3, <1>7
<1> QED BY <1>4, <1>5, <1>6, <1>7

\* Where sshd's part goes when it does not end: never back to the steps before
\* the files are written, except for the port that is closed.
LEMMA SshdGoes ==
  ASSUME Typed, Flow, SshdStep
  PROVE  \/ \E r \in {"ok", "error"} : Exit(r)
         \/ At("label") /\ Goto("migrate") /\ files' = files
         \/ /\ pc' \in {"ports", "dropIn", "restart", "banner", "undo", "closeFw"}
            /\ outcome' = outcome
         \/ At("closeFw") /\ CloseNext
<1>n. NotWritten => Exit("error") \/ Goto("undo")
  BY DEF NotWritten
<1>l. Listening => Exit("ok") \/ Goto("restart") \/ Stage("new", "ports") \/ Goto("closeFw")
  BY DEF Listening
<1> DEFINE Goes(p) == pc' = p /\ outcome' = outcome
<1>g. \A p : Goto(p) => Goes(p)
  BY DEF Goto
<1>s. Stage("new", "ports") => Goes("ports")
  BY DEF Stage
<1>1. CASE ApplyDirective
  BY <1>1 DEF ApplyDirective
<1>2. CASE LabelPort
  BY <1>2 DEF LabelPort
<1>3. CASE MigrateLegacy
  BY <1>3, <1>g DEF MigrateLegacy
<1>4. CASE WritePorts
  BY <1>4, <1>n, <1>l, <1>g, <1>s DEF WritePorts
<1>5. CASE WriteDropIn
  BY <1>5, <1>n, <1>g DEF WriteDropIn
<1>6. CASE RestartSshd
  BY <1>6, <1>g DEF RestartSshd
<1>7. CASE CheckBanner
  BY <1>7, <1>g, <1>s DEF CheckBanner
<1>8. CASE UndoPort
  BY <1>8 DEF UndoPort
<1>9. CASE CloseFirewall
  BY <1>9 DEF CloseFirewall, CloseNext
<1> QED BY <1>1, <1>2, <1>3, <1>4, <1>5, <1>6, <1>7, <1>8, <1>9 DEF SshdStep

LEMMA SnappedStep ==
  ASSUME Typed, Flow, Snapped, [Next]_vars
  PROVE  Snapped'
<1>1. CASE UNCHANGED vars
  BY <1>1 DEF vars, Snapped
<1>2. CASE FirewallStart
  <2>1. PICK c \in AllCommands, force \in BOOLEAN, j \in JobSet, edits \in Seq(EditType) :
          IsPlain(j, c, force) /\ Begin(j, edits, "edit")
    BY <1>2, PlainStart
  <2> QED BY <2>1 DEF Begin, IsPlain, Snapped
<1>3. CASE Directive
  BY <1>3 DEF Directive, NoJob, Snapped
<1>4. CASE SetPort
  <2>1. PICK j \in JobSet, edits \in Seq(EditType), first \in {"edit", "ports", "label"} :
          IsPort(j) /\ Begin(j, edits, first)
    BY <1>4, PortStart
  <2> QED BY <2>1 DEF Begin, IsPort, Snapped
<1>5. CASE FirewallStep
  <2>1. /\ Editing /\ UNCHANGED <<host, files, listen>>
        /\ \/ \E r \in {"ok", "error"} : Exit(r)
           \/ pc' \in {"edit", "fwReload", job.then} /\ UNCHANGED <<job, outcome>>
    BY <1>5, FirewallMoves
  <2> QED BY <2>1, EndedJob DEF Snapped, Editing, At
<1>6. CASE SshdStep
  <2>1. CASE \E r \in {"ok", "error"} : Exit(r)
    BY <2>1, EndedJob DEF Snapped
  <2>2. CASE At("label") /\ Goto("migrate") /\ files' = files
    BY <2>2 DEF Goto, Snapped, At
  <2>3. CASE pc' \in {"ports", "dropIn", "restart", "banner", "undo", "closeFw"}
    BY <2>3 DEF Snapped
  <2>4. CASE At("closeFw") /\ CloseNext
    BY <2>4, ClosePlans DEF Snapped
  <2> QED BY <1>6, <2>1, <2>2, <2>3, <2>4, SshdGoes
<1>7. CASE Crash
  BY <1>7, EndedJob DEF Crash, Snapped
<1>8. CASE Reboot
  BY <1>8 DEF Reboot, Snapped
<1> QED BY <1>1, <1>2, <1>3, <1>4, <1>5, <1>6, <1>7, <1>8 DEF Next, SshdStart

\* A set-port that fails before it closes the firewall leaves sshd's files as it
\* found them, whichever step fails and wherever it is killed on the way
\* (SetPort, applyPorts, restore).
THEOREM PortUndone == Spec => SetPortUndone
<1> DEFINE A == /\ job.cmd = "setPort" /\ outcome' = "error"
                /\ ~At("closeFw") /\ job.then # "closeFw"
                => files' = job.snap
<1>1. Init => Snapped
  BY DEF Init, NoJob, Snapped
<1>2. Typed /\ Flow /\ Snapped /\ [Next]_vars => Snapped'
  BY SnappedStep DEF vars, Snapped
<1>3. ASSUME Typed, Flow, Snapped, [Next]_vars PROVE A
  <2> SUFFICES ASSUME job.cmd = "setPort", outcome' = "error",
                      ~At("closeFw"), job.then # "closeFw"
               PROVE  files' = job.snap
    OBVIOUS
  <2>a. job # NoJob
    BY DEF NoJob
  <2>b. ~Idle /\ outcome = "none" /\ ~At("applied")
    BY <1>3, <2>a DEF Flow
  <2>c. job.then # "exit" /\ job.then \in {"exit", "label", "closeFw"}
    BY <1>3 DEF Flow, SetPorting, Typed, JobSet
  <2>1. ~Idle /\ outcome = "none" /\ job.then = "label" /\ ~At("applied")
    BY <2>b, <2>c
  <2>2. CASE UNCHANGED vars \/ FirewallStart \/ SshdStart \/ Crash \/ Reboot
    <3>1. FirewallStart \/ SshdStart => Idle
      BY <1>3, StartKeeps
    <3>2. Crash => outcome' = "crashed"
      BY EndedJob DEF Crash
    <3> QED BY <2>1, <2>2, <3>1, <3>2 DEF vars, Reboot
  <2>3. CASE FirewallStep
    <3>1. Editing /\ files' = files
      BY <1>3, <2>3, FirewallMoves
    <3> QED BY <1>3, <2>1, <3>1 DEF Snapped, Editing, At
  <2>4. CASE SshdStep
    <3>1. CASE LabelPort \/ (MigrateLegacy /\ files' = files)
      BY <1>3, <2>1, <3>1 DEF LabelPort, MigrateLegacy, Snapped, At
    <3>2. CASE MigrateLegacy /\ Goto("ports")
      BY <2>1, <3>2 DEF Goto
    <3>3. CASE NotWritten
      BY <2>1, <3>3 DEF NotWritten, RestoreFiles, Goto
    <3>4. CASE Goto("dropIn") \/ Goto("restart") \/ Goto("banner") \/ Goto("undo")
               \/ Goto("closeFw") \/ Stage("new", "ports") \/ Exit("ok")
      BY <2>1, <3>4 DEF Goto, Stage, Exit
    <3>5. CASE UndoPort
      BY <3>5 DEF UndoPort, RestoreFiles
    <3>6. Listening => Exit("ok") \/ Goto("restart") \/ Stage("new", "ports") \/ Goto("closeFw")
      BY DEF Listening
    <3>7. CASE WritePorts
      BY <3>3, <3>4, <3>6, <3>7 DEF WritePorts
    <3>8. CASE WriteDropIn \/ RestartSshd \/ CheckBanner
      BY <3>3, <3>4, <3>8 DEF WriteDropIn, RestartSshd, CheckBanner
    <3>9. ~ApplyDirective /\ ~CloseFirewall
      BY <2>1 DEF ApplyDirective, CloseFirewall
    <3>10. MigrateLegacy => files' = files \/ Goto("ports")
      BY DEF MigrateLegacy
    <3> QED BY <2>4, <3>1, <3>2, <3>5, <3>7, <3>8, <3>9, <3>10 DEF SshdStep
  <2> QED BY <1>3, <2>2, <2>3, <2>4 DEF Next
<1>4. Typed /\ Flow /\ Snapped /\ [Next]_vars => [A]_vars
  BY <1>3
<1> QED
  BY <1>1, <1>2, <1>4, TypedAlways, PTL DEF Spec, SetPortUndone

-----------------------------------------------------------------------------
(***************************************************************************)
(* No Port is written twice, and the rules stay within their bound.        *)
(***************************************************************************)
OnceFiles(f) == Once(f.managed) /\ Once(f.legacy) /\ Once(f.dropIn)
Distinct == OnceFiles(files) /\ OnceFiles(job.snap) /\ Once(job.old)
MainDistinct == \A s \in MainPorts \cup OldDropIns : Once(s)

LEMMA OnceShort == Once(<<>>) /\ \A x : Once(<<x>>)
BY DEF Once

LEMMA OnceSize ==
  ASSUME NEW s \in Seq(Ports), Once(s)
  PROVE  s \in PortSeqs
<1>1. Len(s) \in Nat /\ s \in [1..Len(s) -> Ports] /\ DOMAIN s = 1..Len(s)
  OBVIOUS
<1>2. s \in Injection(1..Len(s), Ports)
  BY <1>1 DEF Injection, IsInjective, Once
<1>3. IsFiniteSet(Ports)
  BY AccessAssumption
<1>4. Cardinality(1..Len(s)) <= Cardinality(Ports)
  BY <1>2, <1>3, FS_Injection
<1>5. Cardinality(1..Len(s)) = Len(s)
  BY <1>1, FS_Interval
<1>6. Cardinality(Ports) \in Nat
  BY <1>3, FS_CardinalityType
<1>7. Len(s) \in 0..Cardinality(Ports)
  BY <1>1, <1>4, <1>5, <1>6
<1> QED BY <1>1, <1>7 DEF PortSeqs

LEMMA OncePorts ==
  ASSUME Typed, Distinct, MainDistinct
  PROVE  /\ Once(CurrentPorts) /\ Once(Wanted) /\ OnceFiles(Migrated(files))
<1>1. /\ host.main \in MainPorts /\ job.old \in Seq(Ports) /\ job.port \in Ports
      /\ files.managed \in Seq(Ports) /\ files.legacy \in Seq(Ports) /\ files \in FilesSet
  BY PortLists DEF Typed, JobSet
<1>2. Once(host.main) /\ Once(files.managed) /\ Once(files.legacy) /\ Once(files.dropIn)
      /\ Once(job.old)
  BY <1>1 DEF Distinct, OnceFiles, MainDistinct
<1>3. Once(CurrentPorts)
  BY <1>2, OnceShort DEF CurrentPorts
<1>4. Once(Wanted)
  <2>1. CASE job.port \in Elems(job.old) \/ job.stage = "new"
    BY <2>1, <1>2, OnceShort DEF Wanted
  <2>2. CASE job.port \notin Elems(job.old)
    <3>1. Append(job.old, job.port) = job.old \o <<job.port>>
      BY <1>1, OneMore
    <3>2. Elems(<<job.port>>) = {job.port}
      BY ElemsShort
    <3>3. Elems(job.old) \cap Elems(<<job.port>>) = {}
      BY <2>2, <3>2
    <3>4. <<job.port>> \in Seq(Ports)
      BY <1>1
    <3>5. Once(<<job.port>>)
      BY OnceShort
    <3>6. Once(job.old \o <<job.port>>)
      BY <1>1, <1>2, <3>3, <3>4, <3>5, OnceConcat
    <3> QED BY <2>2, <3>1, <3>6, OnceShort DEF Wanted
  <2> QED BY <2>1, <2>2
<1>5. OnceFiles(Migrated(files))
  <2> DEFINE more == Kept(files.legacy, Ports \ Elems(files.managed))
  <2>1. /\ more \in Seq(Ports) /\ Elems(more) = Elems(files.legacy) \cap (Ports \ Elems(files.managed))
        /\ Once(more)
    BY <1>1, <1>2, KeptShape
  <2>2. /\ Migrated(files).managed = files.managed \o more /\ Migrated(files).legacy = <<>>
        /\ Migrated(files).dropIn = files.dropIn
    BY <1>1, MigratedTyped
  <2> HIDE DEF more
  <2>3. Elems(files.managed) \cap Elems(more) = {}
    BY <2>1
  <2>4. Once(files.managed \o more)
    BY <1>1, <1>2, <2>1, <2>3, OnceConcat
  <2> QED BY <1>2, <2>2, <2>4, OnceShort DEF OnceFiles
<1> QED BY <1>3, <1>4, <1>5

\* The files a step leaves behind.
LEMMA FilesMoves ==
  ASSUME Typed, Flow, [Next]_vars
  PROVE  \/ files' \in {files, Migrated(files), job.snap}
         \/ files' = [files EXCEPT !.managed = Wanted]
         \/ files' = [files EXCEPT !.dropIn = Wanted]
<1>1. CASE FirewallStart \/ SshdStart
  BY <1>1, StartKeeps
<1>2. CASE FirewallStep
  BY <1>2, FirewallMoves
<1>3. CASE SshdStep
  BY <1>3, SshdKeeps
<1>4. CASE Crash \/ Reboot \/ UNCHANGED vars
  BY <1>4 DEF Crash, Reboot, vars
<1> QED BY <1>1, <1>2, <1>3, <1>4 DEF Next

\* The ports and files that a job remembers.
LEMMA JobMoves ==
  ASSUME Typed, Flow, [Next]_vars
  PROVE  \/ job' = NoJob
         \/ job'.old = <<>> /\ job'.snap = NoFiles
         \/ job'.old = CurrentPorts /\ job'.snap = files
         \/ job'.old = job.old /\ job'.snap = job.snap
         \/ job'.snap = job.snap /\ (Once(job.old) => Once(job'.old))
<1>e. \A r : Exit(r) => job' = NoJob
  BY DEF Exit
<1>g. \A p : Goto(p) => job' = job
  BY DEF Goto
<1>1. CASE FirewallStart
  <2>1. \E c, force : job' = FwJob(c, force) \/ job' = EnableJob(force)
    BY <1>1 DEF FirewallStart, Allow, AllowIp, Deny, DenyIp, Remove, SetDefaults, Enable,
       Disable, Change, Begin, FwJob, EnableJob
  <2>2. \A c, force : /\ FwJob(c, force).old = <<>> /\ FwJob(c, force).snap = NoFiles
                      /\ EnableJob(force).old = <<>> /\ EnableJob(force).snap = NoFiles
    BY DEF FwJob, EnableJob, NoJob
  <2> QED BY <2>1, <2>2
<1>2. CASE Directive
  BY <1>2 DEF Directive, NoJob
<1>3. CASE SetPort
  <2>1. PICK j \in JobSet, edits \in Seq(EditType), first \in {"edit", "ports", "label"} :
          IsPort(j) /\ Begin(j, edits, first)
    BY <1>3, PortStart
  <2> QED BY <2>1 DEF Begin, IsPort
<1>4. CASE FirewallStep
  BY <1>4, <1>e, FirewallMoves
<1>5. CASE SshdStep
  <2>1. CASE CloseFirewall
    <3>1. CASE CloseNext /\ At("closeFw")
      BY <3>1, ClosePlans
    <3> QED BY <2>1, <1>e, <3>1 DEF CloseFirewall, CloseNext
  <2>s. Stage("new", "ports") => job'.old = job.old /\ job'.snap = job.snap
    BY DEF Stage, Typed, JobSet
  <2>n. NotWritten => job' \in {job, NoJob}
    BY <1>e, <1>g DEF NotWritten
  <2>l. Listening => job' \in {job, NoJob} \/ Stage("new", "ports")
    BY <1>e, <1>g DEF Listening
  <2>2. CASE WritePorts
    BY <2>2, <1>g, <2>s, <2>n, <2>l DEF WritePorts
  <2>3. CASE WriteDropIn \/ RestartSshd
    BY <2>3, <1>g, <2>n DEF WriteDropIn, RestartSshd
  <2>4. CASE CheckBanner
    BY <2>4, <1>e, <1>g, <2>s DEF CheckBanner
  <2>5. CASE ApplyDirective \/ LabelPort \/ MigrateLegacy \/ UndoPort
    BY <2>5, <1>e, <1>g DEF ApplyDirective, LabelPort, MigrateLegacy, UndoPort
  <2> QED BY <1>5, <2>1, <2>2, <2>3, <2>4, <2>5 DEF SshdStep
<1>6. CASE Crash \/ Reboot \/ UNCHANGED vars
  BY <1>6, <1>e DEF Crash, Reboot, vars
<1> QED BY <1>1, <1>2, <1>3, <1>4, <1>5, <1>6 DEF Next, SshdStart

LEMMA DistinctStep ==
  ASSUME Typed, Flow, Distinct, MainDistinct, [Next]_vars
  PROVE  Distinct'
<1>1. OnceFiles(NoFiles) /\ Once(NoJob.old) /\ OnceFiles(NoJob.snap)
  BY OnceShort DEF OnceFiles, NoFiles, NoJob
<1>2. /\ Once(CurrentPorts) /\ Once(Wanted) /\ OnceFiles(Migrated(files))
      /\ OnceFiles(files) /\ OnceFiles(job.snap) /\ Once(job.old) /\ files \in FilesSet
  BY OncePorts DEF Distinct, Typed
<1>3. OnceFiles(files')
  <2>1. CASE files' \in {files, Migrated(files), job.snap}
    BY <1>2, <2>1
  <2>2. CASE files' = [files EXCEPT !.managed = Wanted]
    BY <1>2, <2>2 DEF OnceFiles, FilesSet
  <2>3. CASE files' = [files EXCEPT !.dropIn = Wanted]
    BY <1>2, <2>3 DEF OnceFiles, FilesSet
  <2> QED BY <2>1, <2>2, <2>3, FilesMoves
<1>4. OnceFiles(job'.snap) /\ Once(job'.old)
  BY <1>1, <1>2, JobMoves, OnceShort
<1> QED BY <1>3, <1>4 DEF Distinct

Room ==
  /\ Len(fw.stored) <= MaxRules
  /\ At("edit") => IF job.then = "closeFw" THEN Len(todo) = 1 /\ todo[1].op = "del"
                   ELSE Len(fw.stored) + Len(todo) <= MaxRules
  /\ At("fwReload") => IF job.then = "closeFw" THEN Len(todo) = 1
                       ELSE Len(fw.stored) + Len(todo) <= MaxRules + 1

\* An edit adds one rule at most.
LEMMA EditGrows ==
  ASSUME NEW e \in EditType, fw \in FwSet
  PROVE  /\ Len(EditedRules(e)) \in Nat /\ Len(EditedRules(e)) <= Len(fw.stored) + 1
         /\ e.op = "del" => Len(EditedRules(e)) <= Len(fw.stored)
<1>1. fw.stored \in Seq(Rule) /\ e.rule \in Rule /\ Len(fw.stored) \in Nat
  BY DEF FwSet, EditType
<1>2. /\ WithRule(fw.stored, e.rule) \in Seq(Rule)
      /\ Len(WithRule(fw.stored, e.rule)) <= Len(fw.stored) + 1
  BY <1>1, WithRuleTyped
<1>3. /\ Without(fw.stored, e.rule) \in Seq(Rule)
      /\ Len(Without(fw.stored, e.rule)) <= Len(fw.stored)
  BY <1>1, WithoutTyped
<1>4. /\ Len(WithRule(fw.stored, e.rule)) \in Nat
      /\ Len(Without(fw.stored, e.rule)) \in Nat
  BY <1>2, <1>3
<1> QED BY <1>1, <1>2, <1>3, <1>4 DEF EditedRules

LEMMA AdvanceRoom ==
  ASSUME Typed, Flow, Editing, Advance,
         Len(fw'.stored) \in Nat, Len(fw'.stored) <= MaxRules,
         Len(todo) > 1 => job.then # "closeFw" /\ Len(fw'.stored) + Len(todo) <= MaxRules + 1
  PROVE  Room'
<1>1. CASE /\ todo' = Tail(todo) /\ Tail(todo) # <<>> /\ pc' = "edit"
           /\ UNCHANGED <<job, outcome>>
  <2>1. Len(todo) > 1 /\ Len(todo') = Len(todo) - 1 /\ Len(todo) \in Nat
    BY <1>1, ElemsTail DEF Typed, Flow
  <2>2. Len(fw'.stored) + Len(todo') <= MaxRules
    BY <2>1, AccessAssumption
  <2> QED BY <1>1, <2>1, <2>2 DEF Room, At
<1>2. CASE Exit("ok")
  BY <1>2, EndedJob DEF Room, At
<1>3. CASE job.then # "exit" /\ pc' = job.then
  <2>1. pc' \in {"label", "closeFw"}
    BY <1>3 DEF Typed, JobSet
  <2> QED BY <2>1 DEF Room, At
<1> QED BY <1>1, <1>2, <1>3, Advances

LEMMA RoomStep ==
  ASSUME Typed, Flow, Room, [Next]_vars
  PROVE  Room'
<1>f. fw \in FwSet /\ Len(fw.stored) \in Nat /\ Len(fw.stored) <= MaxRules /\ MaxRules \in Nat
  BY AccessAssumption DEF Typed, FwSet, Room
<1>b. ASSUME NEW j, NEW edits \in Seq(EditType), NEW first, Begin(j, edits, first),
             first # "fwReload", j.then # "closeFw"
      PROVE  Room'
  <2>1. /\ Len(fw.stored) + Len(edits) <= MaxRules /\ fw' = fw /\ job' = j
        /\ todo' = edits /\ pc' = first
    BY <1>b DEF Begin
  <2> QED BY <1>f, <1>b, <2>1 DEF Room, At
<1>1. CASE UNCHANGED vars
  BY <1>1 DEF vars, Room, At
<1>2. CASE FirewallStart
  <2>1. PICK c \in AllCommands, force \in BOOLEAN, j \in JobSet, edits \in Seq(EditType) :
          IsPlain(j, c, force) /\ Begin(j, edits, "edit")
    BY <1>2, PlainStart
  <2> QED BY <2>1, <1>b DEF IsPlain
<1>3. CASE Directive
  BY <1>3, <1>f DEF Directive, Room, At
<1>4. CASE SetPort
  <2>1. PICK j \in JobSet, edits \in Seq(EditType), first \in {"edit", "ports", "label"} :
          IsPort(j) /\ Begin(j, edits, first)
    BY <1>4, PortStart
  <2> QED BY <2>1, <1>b DEF IsPort
<1>e. ASSUME NEW r, Exit(r), Len(fw'.stored) <= MaxRules PROVE Room'
  BY <1>e, EndedJob DEF Room, At
<1>5. CASE EditFirewall
  <2> DEFINE e == Head(todo)
  <2>1. At("edit") /\ Editing /\ pc = "edit"
    BY <1>5 DEF EditFirewall, Editing, At
  <2>2. todo \in Seq(EditType) /\ todo # <<>> /\ e \in EditType /\ e = todo[1]
        /\ Len(todo) \in Nat /\ Len(todo) >= 1
    <3>1. todo \in Seq(EditType) /\ todo # <<>>
      BY <2>1 DEF Typed, Flow
    <3> QED BY <3>1
  <2>3. /\ Len(EditedRules(e)) \in Nat /\ Len(EditedRules(e)) <= Len(fw.stored) + 1
        /\ e.op = "del" => Len(EditedRules(e)) <= Len(fw.stored)
    BY <1>f, <2>2, EditGrows
  <2>4. IF job.then = "closeFw" THEN Len(todo) = 1 /\ e.op = "del"
        ELSE Len(fw.stored) + Len(todo) <= MaxRules
    BY <2>1, <2>2 DEF Room
  <2>5. \/ Exit("error") /\ fw' = fw
        \/ Advance /\ fw' = [fw EXCEPT !.active = FALSE]
        \/ Advance /\ fw' = [fw EXCEPT !.active = TRUE, !.run = fw.stored, !.rdeny = fw.sdeny]
        \/ /\ Advance
           /\ fw' = [fw EXCEPT !.stored = EditedRules(e), !.run = EditedRules(e),
                               !.sdeny = EditedDeny(e), !.rdeny = EditedDeny(e)]
        \/ /\ Goto("fwReload")
           /\ fw' = [fw EXCEPT !.stored = EditedRules(e), !.sdeny = EditedDeny(e)]
    BY <1>5 DEF EditFirewall
  <2> HIDE DEF e
  <2>6. fw'.stored \in {fw.stored, EditedRules(e)}
    BY <1>f, <2>5 DEF FwSet
  <2>7. /\ Len(fw'.stored) \in Nat /\ Len(fw'.stored) <= MaxRules
        /\ IF job.then = "closeFw" THEN Len(todo) = 1
           ELSE Len(fw'.stored) + Len(todo) <= MaxRules + 1
    BY <1>f, <2>2, <2>3, <2>4, <2>6
  <2>10. Len(todo) > 1 => job.then # "closeFw" /\ Len(fw'.stored) + Len(todo) <= MaxRules + 1
    <3>1. CASE job.then = "closeFw"
      BY <2>7, <3>1
    <3>2. CASE job.then # "closeFw"
      BY <2>7, <3>2
    <3> QED BY <3>1, <3>2
  <2>8. CASE Advance
    BY <2>1, <2>7, <2>8, <2>10, AdvanceRoom
  <2>9. CASE Goto("fwReload")
    BY <2>7, <2>9 DEF Goto, Room, At
  <2> QED BY <2>5, <2>7, <2>8, <2>9, <1>e
<1>6. CASE ReloadFirewall
  <2>1. /\ At("fwReload") /\ Editing
        /\ Exit("error") \/ Advance
        /\ fw' = fw \/ fw' = [fw EXCEPT !.run = fw.stored, !.rdeny = fw.sdeny]
    BY <1>6 DEF ReloadFirewall, Editing, At
  <2>2. fw'.stored = fw.stored
    BY <1>f, <2>1 DEF FwSet
  <2>3. /\ job.then = "closeFw" => Len(todo) = 1
        /\ job.then # "closeFw" => Len(fw.stored) + Len(todo) <= MaxRules + 1
    BY <2>1 DEF Room
  <2>t. Len(todo) \in Nat
    BY DEF Typed
  <2>4. Len(todo) > 1 => job.then # "closeFw" /\ Len(fw'.stored) + Len(todo) <= MaxRules + 1
    <3>1. \A n \in Nat : n = 1 => ~(n > 1)
      OBVIOUS
    <3>2. job.then = "closeFw" => ~(Len(todo) > 1)
      BY <2>t, <2>3, <3>1
    <3>3. CASE job.then = "closeFw"
      BY <3>2, <3>3, Zenon
    <3>4. CASE job.then # "closeFw"
      BY <2>2, <2>3, <3>4
    <3> QED BY <3>3, <3>4
  <2>5. Len(fw'.stored) \in Nat /\ Len(fw'.stored) <= MaxRules
    BY <1>f, <2>2
  <2>6. CASE Advance
    BY <2>1, <2>4, <2>5, <2>6, AdvanceRoom
  <2> QED BY <2>1, <2>5, <2>6, <1>e
<1>7. CASE SshdStep
  <2>1. fw' = fw
    BY <1>7, SshdKeeps
  <2>2. CASE At("closeFw") /\ CloseNext
    <3>1. PICK rule \in Rule : todo' = <<DelRule(rule)>>
      BY <2>2, ClosePlans
    <3>2. pc' = "edit" /\ job'.then = "closeFw"
      BY <2>2, ClosePlans
    <3>3. Len(todo') = 1 /\ todo'[1].op = "del"
      BY <3>1, EditsTyped
    <3> QED BY <1>f, <2>1, <3>2, <3>3 DEF Room, At
  <2>3. CASE pc' \notin {"edit", "fwReload"}
    BY <1>f, <2>1, <2>3 DEF Room, At
  <2> QED BY <1>7, <2>2, <2>3, SshdGoes, EndedJob DEF Goto
<1>8. CASE Crash
  BY <1>8, <1>f, <1>e DEF Crash
<1>9. CASE Reboot
  <2>1. /\ fw' = [fw EXCEPT !.run = fw.stored, !.rdeny = fw.sdeny]
        /\ pc' = "idle"
    BY <1>9 DEF Reboot, Idle
  <2>2. fw'.stored = fw.stored
    BY <1>f, <2>1 DEF FwSet
  <2> QED BY <1>f, <2>1, <2>2 DEF Room, At
<1> QED
  BY <1>1, <1>2, <1>3, <1>4, <1>5, <1>6, <1>7, <1>8, <1>9
  DEF Next, SshdStart, FirewallStep

LEMMA RoomInit == Init => Room
<1> SUFFICES ASSUME Init PROVE Room
  OBVIOUS
<1>1. fw.stored \in {<<>>, <<SshService>>} /\ pc = "idle"
  BY DEF Init
<1>2. Len(fw.stored) = 0 \/ Len(fw.stored) = 1
  <2>1. \A r : Len(<<r>>) = 1
    OBVIOUS
  <2>2. Len(<<>>) = 0
    OBVIOUS
  <2> QED BY <1>1, <2>1, <2>2
<1>m. MaxRules \in Nat /\ MaxRules >= 1
  BY AccessAssumption
<1>n. \A m \in Nat : m >= 1 => 0 <= m /\ 1 <= m
  OBVIOUS
<1>3. Len(fw.stored) <= MaxRules
  <2>1. 0 <= MaxRules /\ 1 <= MaxRules
    BY <1>m, <1>n
  <2>2. CASE Len(fw.stored) = 0
    BY <2>1, <2>2, Zenon
  <2>3. CASE Len(fw.stored) = 1
    BY <2>1, <2>3, Zenon
  <2> QED BY <1>2, <2>2, <2>3
<1> QED BY <1>1, <1>3 DEF Room, At

\* Every variable keeps its type through every command, failure, crash and
\* restart; in particular sshd is never left without a port, and no Port line is
\* written twice if sshd_config and the old drop-in had none twice.
THEOREM AccessTyped ==
  ASSUME MainDistinct
  PROVE  Spec => []TypeOK
<1>1. Init => Distinct
  <2> SUFFICES ASSUME Init PROVE Distinct
    OBVIOUS
  <2>1. /\ files.managed = <<>> /\ files.dropIn = <<>> /\ files.legacy \in OldDropIns
        /\ job.old = <<>> /\ job.snap = NoFiles
    BY DEF Init, NoJob
  <2> QED BY <2>1, OnceShort DEF Distinct, OnceFiles, NoFiles, MainDistinct
<1>2. Typed /\ Flow /\ Distinct /\ [Next]_vars => Distinct'
  BY DistinctStep
<1>3. Typed /\ Flow /\ Room /\ [Next]_vars => Room'
  BY RoomStep
<1>4. ASSUME Typed, Distinct, Room PROVE TypeOK
  <2>1. \A f \in FilesSet : OnceFiles(f) => f \in FilesType
    <3> SUFFICES ASSUME NEW f \in FilesSet, OnceFiles(f) PROVE f \in FilesType
      OBVIOUS
    <3>1. /\ f.managed \in Seq(Ports) /\ f.legacy \in Seq(Ports) /\ f.dropIn \in Seq(Ports)
          /\ f = [managed |-> f.managed, legacy |-> f.legacy, dropIn |-> f.dropIn]
      BY DEF FilesSet
    <3>2. f.managed \in PortSeqs /\ f.legacy \in PortSeqs /\ f.dropIn \in PortSeqs
      BY <3>1, OnceSize DEF OnceFiles
    <3> QED BY <3>1, <3>2 DEF FilesType
  <2>2. job.old \in PortSeqs
    BY <1>4, OnceSize DEF Typed, JobSet, Distinct
  <2>3. files \in FilesType /\ job.snap \in FilesType
    BY <1>4, <2>1 DEF Typed, JobSet, Distinct
  <2>4. /\ host.backend \in Backends /\ host.socket \in Sockets
        /\ fw.active \in BOOLEAN /\ fw.sdeny \in BOOLEAN /\ fw.rdeny \in BOOLEAN
        /\ fw.stored \in RuleSeqs /\ fw.run \in RuleSeqs
    BY <1>4 DEF Typed, FwSet, RuleSeqs
  <2>5. Len(fw.stored) <= MaxRules /\ listen \in (SUBSET Ports) \ {{}}
    BY <1>4 DEF Typed, Room
  <2> QED BY <2>2, <2>3, <2>4, <2>5 DEF TypeOK
<1> QED
  BY <1>1, <1>2, <1>3, <1>4, RoomInit, TypedAlways, PTL DEF Spec
-----------------------------------------------------------------------------
(***************************************************************************)
(* The old port goes on being listened on.                                 *)
(***************************************************************************)
\* currentPorts of files f.
PortsIn(f) ==
  IF f.managed # <<>> THEN f.managed
  ELSE IF f.legacy # <<>> THEN f.legacy
  ELSE IF host.main # <<>> THEN host.main ELSE <<DefaultPort>>

\* set-port knows the ports it found, and has written the ones it wants.
Remembers ==
  /\ SetPorting /\ job.stage = "both" => job.old = PortsIn(job.snap)
  /\ pc \in {"dropIn", "restart"} => files.managed = Wanted

\* ssh.socket listens on every port that the managed file names.
Tidy(f) ==
  f.dropIn # <<>> =>
    f.legacy = <<>> /\ f.managed # <<>> /\ Elems(f.managed) \subseteq Elems(f.dropIn)

SocketTidy ==
  host.socket =>
    /\ ~At("dropIn") => Tidy(files)
    /\ SetPorting => Tidy(job.snap) /\ ~job.dry
    /\ pc \in {"ports", "dropIn", "restart", "banner"} => files.legacy = <<>>
    /\ pc \in {"dropIn", "restart", "banner"} => files.managed = Wanted
    /\ pc \in {"restart", "banner"} => files.dropIn = Wanted
    /\ job.stage = "new" /\ pc \in {"ports", "dropIn"} => job.port \in Elems(files.dropIn)

\* ssh.socket's drop-in may fall behind the managed file when set-port runs with
\* --dry-run, which writes the latter only, or is killed between the two.
SocketFollows ==
  Sockets \subseteq {FALSE} \/ (DryIn \subseteq {FALSE} /\ "dropIn" \notin CrashAt)

LEMMA TidyMigrated ==
  ASSUME Typed, Tidy(files)
  PROVE  Tidy(Migrated(files))
<1>1. files \in FilesSet
  BY DEF Typed
<1>2. /\ Migrated(files).legacy = <<>> /\ Migrated(files).dropIn = files.dropIn
      /\ Elems(Migrated(files).managed) = Elems(files.managed) \cup Elems(files.legacy)
  BY <1>1, MigratedTyped
<1>3. Elems(<<>>) = {} /\ \A s \in Seq(Ports) : s # <<>> => Elems(s) # {}
  <2>1. \A s \in Seq(Ports) : s # <<>> => 1 \in DOMAIN s
    OBVIOUS
  <2> QED BY <2>1, ElemsShort DEF Elems
<1>4. files.managed \in Seq(Ports)
  BY PortLists
<1> QED BY <1>2, <1>3, <1>4 DEF Tidy

LEMMA FilesWritten ==
  ASSUME Typed
  PROVE  /\ files' = [files EXCEPT !.managed = Wanted] =>
              files'.managed = Wanted /\ files'.legacy = files.legacy /\ files'.dropIn = files.dropIn
         /\ files' = [files EXCEPT !.dropIn = Wanted] =>
              files'.dropIn = Wanted /\ files'.legacy = files.legacy /\ files'.managed = files.managed
BY DEF Typed, FilesSet

LEMMA StartMeets ==
  ASSUME Typed, Flow, FirewallStart \/ SshdStart
  PROVE  /\ Idle /\ host' = host /\ listen' = listen
         /\ \/ pc' \in {"edit", "applied"} /\ job'.cmd # "setPort" /\ job'.stage = "both"
               /\ files' \in {files, Migrated(files)}
            \/ /\ pc' \in {"edit", "label", "ports"} /\ job'.cmd = "setPort"
               /\ job'.stage = "both" /\ job'.old = CurrentPorts /\ job'.snap = files
               /\ files' = files /\ job'.dry \in DryIn /\ (pc' = "ports" => job'.dry)
<1>1. Idle /\ host' = host /\ listen' = listen
  BY StartKeeps
<1>2. CASE FirewallStart
  <2>1. PICK c \in AllCommands \ {"setPort", "directive"}, force \in BOOLEAN, j \in JobSet,
             edits \in Seq(EditType) : IsPlain(j, c, force) /\ Begin(j, edits, "edit")
    BY <1>2, PlainStart
  <2> QED BY <1>1, <2>1 DEF Begin, IsPlain
<1>3. CASE Directive
  BY <1>1, <1>3 DEF Directive, NoJob
<1>4. CASE SetPort
  <2>1. PICK j \in JobSet, edits \in Seq(EditType), first \in {"edit", "ports", "label"} :
          /\ IsPort(j) /\ Begin(j, edits, first)
          /\ IF j.allowFw /\ ~j.dry THEN first = "edit"
             ELSE first = IF j.dry THEN "ports" ELSE "label"
    BY <1>4, PortStart
  <2>2. first = "ports" => j.dry
    BY <2>1
  <2> QED BY <1>1, <2>1, <2>2 DEF Begin, IsPort
<1> QED BY <1>2, <1>3, <1>4 DEF SshdStart

LEMMA WantedStays ==
  ASSUME job' = job
  PROVE  Wanted' = Wanted
BY DEF Wanted

LEMMA RemembersStep ==
  ASSUME Typed, Flow, Remembers, [Next]_vars
  PROVE  Remembers'
<1>h. host' = host
  BY TypedStep
<1>p. \A f : host' = host => PortsIn(f)' = PortsIn(f)
  BY DEF PortsIn
<1>1. CASE UNCHANGED vars
  BY <1>1 DEF vars, Remembers, SetPorting, PortsIn, Wanted
<1>2. CASE FirewallStart \/ SshdStart
  <2>1. CurrentPorts = PortsIn(files)
    BY DEF CurrentPorts, PortsIn
  <2>2. CASE pc' \in {"edit", "applied"} /\ job'.cmd # "setPort"
    BY <2>2 DEF Remembers, SetPorting
  <2>3. CASE pc' \in {"edit", "label", "ports"} /\ job'.old = CurrentPorts /\ job'.snap = files
    BY <1>h, <2>1, <2>3 DEF Remembers, SetPorting, PortsIn
  <2> QED BY <1>2, <2>2, <2>3, StartMeets
<1>e. ASSUME pc' = "idle", job'.cmd = "none" PROVE Remembers'
  BY <1>e DEF Remembers, SetPorting
<1>3. CASE FirewallStep
  <2>1. CASE \E r \in {"ok", "error"} : Exit(r)
    BY <2>1, <1>e, EndedJob
  <2>2. CASE pc' \in {"edit", "fwReload", job.then} /\ UNCHANGED <<job, outcome>>
    <3>1. pc' \notin {"dropIn", "restart"}
      BY <2>2 DEF Typed, JobSet
    <3> QED BY <1>h, <2>2, <3>1 DEF Remembers, SetPorting, PortsIn
  <2> QED BY <1>3, <2>1, <2>2, FirewallMoves
<1>4. CASE Crash
  BY <1>4, <1>e, EndedJob DEF Crash
<1>5. CASE Reboot
  BY <1>5, <1>h DEF Reboot, Idle, Remembers, SetPorting, PortsIn
<1>g. ASSUME NEW p, Goto(p), p \notin {"dropIn", "restart"} PROVE Remembers'
  BY <1>g, <1>h DEF Goto, Remembers, SetPorting, PortsIn
<1>s. ASSUME Stage("new", "ports"), At("ports") \/ At("banner"), job.close PROVE Remembers'
  <2>1. pc' = "ports" /\ job'.stage = "new"
    BY <1>h, <1>s, StageKeeps DEF Stage
  <2> QED BY <2>1 DEF Remembers
<1>x. ASSUME NEW r, Exit(r) PROVE Remembers'
  BY <1>x, <1>e, EndedJob
<1>n. NotWritten => Remembers'
  BY <1>x, <1>g DEF NotWritten
<1>6. CASE SshdStep
  <2>1. CASE WritePorts
    <3>1. At("ports")
      BY <2>1 DEF WritePorts
    <3>2. ASSUME NEW p \in {"dropIn", "restart"}, files' = [files EXCEPT !.managed = Wanted], Goto(p)
          PROVE  Remembers'
      <4>1. files'.managed = Wanted /\ job' = job
        BY <3>2, FilesWritten DEF Goto
      <4>2. Wanted' = Wanted
        BY <4>1, WantedStays
      <4> QED BY <1>h, <4>1, <4>2 DEF Remembers, SetPorting, PortsIn
    <3>3. CASE NotWritten
      BY <3>3, <1>n
    <3>4. CASE files' = [files EXCEPT !.managed = Wanted] /\ Goto("dropIn")
      BY <3>4, <3>2
    <3>5. CASE files' = [files EXCEPT !.managed = Wanted] /\ Listening
      <4>1. \/ Goto("restart") \/ (job.close /\ Stage("new", "ports"))
            \/ Goto("closeFw") \/ Exit("ok")
        BY <3>5 DEF Listening
      <4> QED BY <3>1, <3>2, <3>5, <4>1, <1>g, <1>s, <1>x
    <3> QED BY <2>1, <3>3, <3>4, <3>5 DEF WritePorts
  <2>2. CASE WriteDropIn
    <3>1. CASE NotWritten
      BY <3>1, <1>n
    <3>2. CASE files' = [files EXCEPT !.dropIn = Wanted] /\ Goto("restart")
      <4>1. files'.managed = files.managed /\ job' = job /\ At("dropIn")
        BY <2>2, <3>2, FilesWritten DEF Goto, WriteDropIn
      <4>2. Wanted' = Wanted
        BY <4>1, WantedStays
      <4> QED BY <1>h, <4>1, <4>2 DEF Remembers, SetPorting, PortsIn, At
    <3> QED BY <2>2, <3>1, <3>2 DEF WriteDropIn
  <2>3. CASE CheckBanner
    <3>1. \/ Goto("undo") \/ (job.close /\ Stage("new", "ports")) \/ Exit("ok") \/ Goto("closeFw")
      BY <2>3 DEF CheckBanner
    <3> QED BY <2>3, <3>1, <1>g, <1>s, <1>x DEF CheckBanner
  <2>4. CASE ApplyDirective \/ LabelPort \/ MigrateLegacy \/ RestartSshd \/ UndoPort
    <3>1. Exit("ok") \/ Exit("error") \/ Goto("migrate") \/ Goto("ports") \/ Goto("banner")
          \/ Goto("undo")
      BY <2>4 DEF ApplyDirective, LabelPort, MigrateLegacy, RestartSshd, UndoPort
    <3> QED BY <3>1, <1>g, <1>x
  <2>5. CASE CloseFirewall
    <3>1. CASE CloseNext
      <4>1. At("closeFw")
        BY <2>5 DEF CloseFirewall
      <4>2. pc' = "edit" /\ job'.stage = "new"
        BY <4>1, <3>1, ClosePlans DEF Flow
      <4> QED BY <4>2 DEF Remembers
    <3>2. Exit("ok") \/ Exit("error") \/ CloseNext
      BY <2>5 DEF CloseFirewall, CloseNext
    <3> QED BY <3>1, <3>2, <1>x
  <2> QED BY <1>6, <2>1, <2>2, <2>3, <2>4, <2>5 DEF SshdStep
<1> QED BY <1>1, <1>2, <1>3, <1>4, <1>5, <1>6 DEF Next

LEMMA SocketTidyStep ==
  ASSUME SocketFollows, Typed, Flow, SocketTidy, [Next]_vars
  PROVE  SocketTidy'
<1>h. host' = host
  BY TypedStep
<1> SUFFICES ASSUME host.socket PROVE SocketTidy'
  BY <1>h DEF SocketTidy
<1>a. DryIn \subseteq {FALSE} /\ "dropIn" \notin CrashAt
  BY DEF SocketFollows, Typed
<1>o. /\ ~At("dropIn") => Tidy(files)
      /\ SetPorting => Tidy(job.snap) /\ ~job.dry
      /\ pc \in {"ports", "dropIn", "restart", "banner"} => files.legacy = <<>>
      /\ pc \in {"dropIn", "restart", "banner"} => files.managed = Wanted
      /\ pc \in {"restart", "banner"} => files.dropIn = Wanted
      /\ job.stage = "new" /\ pc \in {"ports", "dropIn"} => job.port \in Elems(files.dropIn)
  BY DEF SocketTidy
<1>t. /\ files.managed \in Seq(Ports) /\ files.legacy \in Seq(Ports) /\ files.dropIn \in Seq(Ports)
  BY PortLists
<1>w. /\ job' = job => Wanted' = Wanted
      /\ \A f : Tidy(f)' = Tidy(f)
  BY WantedStays DEF Tidy
<1>d. Tidy(files') <=> Tidy(files)'
  BY DEF Tidy
<1>e. ASSUME NEW r, Exit(r), Tidy(files') PROVE SocketTidy'
  <2>1. pc' = "idle" /\ job'.cmd = "none"
    BY <1>e, EndedJob
  <2> QED BY <1>e, <1>d, <2>1 DEF SocketTidy, SetPorting, At
<1>1. CASE UNCHANGED vars
  BY <1>1, <1>o DEF vars, SocketTidy, SetPorting, At, Tidy, Wanted
<1>2. CASE FirewallStart \/ SshdStart
  <2>1. Tidy(files) /\ Tidy(Migrated(files)) /\ host' = host
    BY <1>2, <1>h, <1>o, StartMeets, TidyMigrated DEF Idle, At
  <2>2. CASE /\ pc' \in {"edit", "applied"} /\ job'.cmd # "setPort"
             /\ files' \in {files, Migrated(files)}
    BY <2>1, <2>2 DEF SocketTidy, SetPorting, At, Tidy
  <2>3. CASE /\ pc' \in {"edit", "label", "ports"} /\ job'.snap = files
             /\ job'.stage = "both" /\ files' = files /\ job'.dry \in DryIn
             /\ (pc' = "ports" => job'.dry)
    <3>1. ~job'.dry /\ pc' # "ports"
      BY <1>a, <2>3
    <3> QED BY <2>1, <2>3, <3>1 DEF SocketTidy, SetPorting, At, Tidy
  <2> QED BY <1>2, <2>2, <2>3, StartMeets
<1>3. CASE FirewallStep
  <2>1. files' = files /\ Editing
    BY <1>3, FirewallMoves
  <2>2. Tidy(files)
    BY <2>1, <1>o DEF Editing, At
  <2>3. CASE \E r \in {"ok", "error"} : Exit(r)
    BY <2>1, <2>2, <2>3, <1>e
  <2>4. CASE pc' \in {"edit", "fwReload", job.then} /\ UNCHANGED <<job, outcome>>
    <3>1. pc' \in {"edit", "fwReload", "exit", "label", "closeFw"}
      BY <2>4 DEF Typed, JobSet
    <3> QED BY <1>o, <2>1, <2>2, <2>4, <3>1 DEF SocketTidy, SetPorting, At, Tidy
  <2> QED BY <1>3, <2>3, <2>4, FirewallMoves
<1>4. CASE Crash
  <2>1. Exit("crashed") /\ files' = files /\ ~At("dropIn")
    BY <1>4, <1>a DEF Crash, At
  <2> QED BY <2>1, <1>o, <1>e
<1>5. CASE Reboot
  BY <1>5, <1>o DEF Reboot, Idle, SocketTidy, SetPorting, At, Tidy
<1>g. ASSUME NEW p, Goto(p), p \in {"label", "migrate", "undo", "closeFw"}, Tidy(files')
      PROVE  SocketTidy'
  <2>1. pc' = p /\ job' = job
    BY <1>g DEF Goto
  <2> QED BY <1>g, <1>d, <1>o, <2>1 DEF SocketTidy, SetPorting, At, Tidy
<1>6. CASE SshdStep
  <2>p. (SetPorting /\ ~job.dry) \/ At("applied")
    BY <1>6, <1>o DEF SshdStep, ApplyDirective, LabelPort, MigrateLegacy, WritePorts,
       WriteDropIn, RestartSshd, CheckBanner, UndoPort, CloseFirewall, Flow, At
  <2>j. job.port \in Ports /\ job.stage \in {"both", "new"} /\ job.close \in BOOLEAN
    BY DEF Typed, JobSet
  <2>1. CASE WritePorts
    <3>1. At("ports") /\ Tidy(files) /\ files.legacy = <<>> /\ ~job.dry
          /\ SetPorting /\ Tidy(job.snap)
      BY <2>1, <2>p, <1>o DEF WritePorts, At, Flow
    <3>2. CASE NotWritten
      BY <3>1, <3>2, <1>e, <1>g DEF NotWritten, RestoreFiles
    <3>3. CASE files' = [files EXCEPT !.managed = Wanted] /\ Goto("dropIn")
      <4>1. pc' = "dropIn" /\ job' = job /\ Wanted' = Wanted
        BY <3>3, <1>w DEF Goto
      <4>2. files'.managed = Wanted /\ files'.legacy = <<>> /\ files'.dropIn = files.dropIn
        BY <3>1, <3>3, FilesWritten
      <4>3. job.stage = "new" => job.port \in Elems(files.dropIn)
        BY <3>1, <1>o DEF At
      <4> QED BY <3>1, <4>1, <4>2, <4>3 DEF SocketTidy, SetPorting, At, Tidy
    <3> QED BY <2>1, <3>1, <3>2, <3>3 DEF WritePorts
  <2>2. CASE WriteDropIn
    <3>1. At("dropIn") /\ files.managed = Wanted /\ files.legacy = <<>>
          /\ SetPorting /\ Tidy(job.snap) /\ ~job.dry
          /\ (job.stage = "new" => job.port \in Elems(files.dropIn))
      BY <2>2, <2>p, <1>o DEF WriteDropIn, At, Flow
    <3>2. CASE NotWritten
      <4>1. CASE job.stage = "both"
        BY <3>1, <3>2, <4>1, <1>e DEF NotWritten, RestoreFiles
      <4>2. CASE job.stage = "new"
        <5>1. Wanted = <<job.port>> /\ Elems(<<job.port>>) = {job.port} /\ Wanted # <<>>
          BY <4>2, WantedTyped, ElemsShort
        <5>2. Tidy(files) /\ Goto("undo") /\ files' = files
          BY <3>1, <3>2, <4>2, <5>1 DEF NotWritten, Tidy
        <5> QED BY <5>2, <1>g
      <4> QED BY <4>1, <4>2, <2>j
    <3>3. CASE files' = [files EXCEPT !.dropIn = Wanted] /\ Goto("restart")
      <4>1. pc' = "restart" /\ job' = job /\ Wanted' = Wanted
        BY <3>3, <1>w DEF Goto
      <4>2. files'.dropIn = Wanted /\ files'.legacy = <<>> /\ files'.managed = Wanted
        BY <3>1, <3>3, FilesWritten
      <4>3. Wanted # <<>>
        BY WantedTyped
      <4> QED BY <3>1, <4>1, <4>2, <4>3 DEF SocketTidy, SetPorting, At, Tidy
    <3> QED BY <2>2, <3>2, <3>3 DEF WriteDropIn
  <2>3. CASE RestartSshd
    <3>1. At("restart") /\ files' = files /\ Tidy(files)
      BY <2>3, <1>o DEF RestartSshd, At
    <3>2. CASE Goto("banner")
      <4>1. pc' = "banner" /\ job' = job /\ Wanted' = Wanted
        BY <3>2, <1>w DEF Goto
      <4> QED BY <1>o, <3>1, <4>1 DEF SocketTidy, SetPorting, At, Tidy
    <3> QED BY <2>3, <3>1, <3>2, <1>g DEF RestartSshd
  <2>4. CASE CheckBanner
    <3>1. At("banner") /\ files' = files /\ Tidy(files)
          /\ files.legacy = <<>> /\ files.dropIn = Wanted
      BY <2>4, <1>o DEF CheckBanner, At
    <3>2. CASE job.close /\ Stage("new", "ports")
      <4>1. /\ job'.port = job.port /\ job'.snap = job.snap /\ job'.cmd = job.cmd
            /\ job'.dry = job.dry /\ pc' = "ports"
        BY <1>h, <3>1, <3>2, StageKeeps DEF Stage
      <4>2. job.port \in Elems(files.dropIn)
        BY <3>1, WantedTyped
      <4> QED BY <1>o, <3>1, <4>1, <4>2 DEF SocketTidy, SetPorting, At, Tidy
    <3>3. \/ Goto("undo") \/ (job.close /\ Stage("new", "ports")) \/ Exit("ok")
          \/ Goto("closeFw")
      BY <2>4 DEF CheckBanner
    <3> QED BY <3>1, <3>2, <3>3, <1>e, <1>g
  <2>5. CASE MigrateLegacy
    <3>1. At("migrate") /\ Tidy(files) /\ Tidy(Migrated(files))
      BY <2>5, <1>o, TidyMigrated DEF MigrateLegacy, At
    <3>2. CASE files' = Migrated(files) /\ Goto("ports")
      <4>1. pc' = "ports" /\ job' = job /\ files'.legacy = <<>> /\ job.stage = "both"
        BY <3>1, <3>2, MigratedTyped DEF Goto, Typed, Flow, At
      <4> QED BY <1>o, <1>d, <3>1, <3>2, <4>1 DEF SocketTidy, SetPorting, At, Tidy
    <3> QED BY <2>5, <3>1, <3>2, <1>e DEF MigrateLegacy
  <2>6. CASE ApplyDirective \/ LabelPort
    <3>1. Tidy(files) /\ files' = files
      BY <2>6, <1>o DEF ApplyDirective, LabelPort, At
    <3> QED BY <2>6, <3>1, <1>e, <1>g DEF ApplyDirective, LabelPort
  <2>7. CASE UndoPort
    <3>1. Tidy(job.snap) /\ files' = job.snap
      BY <2>7, <1>o DEF UndoPort, RestoreFiles, Flow, At
    <3> QED BY <2>7, <3>1, <1>e DEF UndoPort
  <2>8. CASE CloseFirewall
    <3>1. At("closeFw") /\ files' = files /\ Tidy(files)
      BY <2>8, <1>o DEF CloseFirewall, At
    <3>2. CASE CloseNext
      <4>1. /\ pc' = "edit" /\ job'.cmd = job.cmd /\ job'.snap = job.snap
            /\ job'.dry = job.dry
        BY <3>1, <3>2, ClosePlans
      <4> QED BY <1>o, <3>1, <4>1 DEF SocketTidy, SetPorting, At, Tidy
    <3>3. Exit("ok") \/ Exit("error") \/ CloseNext
      BY <2>8 DEF CloseFirewall, CloseNext
    <3> QED BY <3>1, <3>2, <3>3, <1>e
  <2> QED BY <1>6, <2>1, <2>2, <2>3, <2>4, <2>5, <2>6, <2>7, <2>8 DEF SshdStep
<1> QED BY <1>1, <1>2, <1>3, <1>4, <1>5, <1>6 DEF Next

\* set-port without --close-old-port stops sshd from listening on none of the
\* ports it found configured, whichever step fails and wherever it is killed; with
\* ssh.socket, if no process is killed between the two files and none runs with
\* --dry-run (applyPorts, restore).
THEOREM OldPortStays ==
  ASSUME SocketFollows
  PROVE  Spec => OldPortKept
<1> DEFINE A == job.cmd = "setPort" /\ ~job.close => listen \cap Elems(job.old) \subseteq listen'
<1>1. Init => Remembers /\ SocketTidy
  <2> SUFFICES ASSUME Init PROVE Remembers /\ SocketTidy
    OBVIOUS
  <2>1. pc = "idle" /\ job.cmd = "none" /\ files.dropIn = <<>> /\ job.stage = "both"
    BY DEF Init, NoJob
  <2> QED BY <2>1 DEF Remembers, SocketTidy, Tidy, SetPorting, At
<1>2. Typed /\ Flow /\ Remembers /\ SocketTidy /\ [Next]_vars => Remembers' /\ SocketTidy'
  BY RemembersStep, SocketTidyStep
<1>3. ASSUME Typed, Flow, Remembers, SocketTidy, [Next]_vars PROVE A
  <2> SUFFICES ASSUME SetPorting, ~job.close, listen' # listen
               PROVE  Elems(job.old) \cap listen \subseteq listen'
    BY DEF SetPorting
  <2>1. ~Idle /\ job.stage = "both" /\ ~At("applied")
    <3>1. job.cmd # "none"
      BY DEF SetPorting
    <3>2. job.stage \in {"both", "new"}
      BY <1>3 DEF Typed, JobSet
    <3>3. job # NoJob
      BY <3>1 DEF NoJob
    <3> QED BY <1>3, <3>1, <3>2, <3>3 DEF Flow, SetPorting
  <2>2. RestartSshd \/ UndoPort
    <3>1. ~(FirewallStart \/ SshdStart)
      BY <1>3, <2>1, StartMeets
    <3>2. ~FirewallStep
      BY <1>3, FirewallMoves
    <3>3. ~Crash /\ ~Reboot /\ ~UNCHANGED vars
      BY <2>1 DEF Crash, Reboot, vars
    <3>4. SshdStep
      BY <1>3, <3>1, <3>2, <3>3 DEF Next
    <3> QED BY <2>1, <3>4 DEF SshdStep, ApplyDirective, LabelPort, MigrateLegacy, WritePorts,
            WriteDropIn, CheckBanner, CloseFirewall
  <2>p. /\ files \in FilesSet /\ job.snap \in FilesSet
        /\ job.old \in Seq(Ports) /\ host.main \in Seq(Ports)
    BY <1>3, PortLists DEF Typed
  <2>3. CASE RestartSshd
    <3>1. At("restart") /\ listen' = Effective(files) /\ files.managed = Wanted
          /\ (host.socket => files.dropIn = Wanted)
      BY <1>3, <2>3 DEF RestartSshd, Remembers, SocketTidy, At
    <3>2. Elems(Wanted) = Elems(job.old) \cup {job.port} /\ Wanted # <<>>
      BY <1>3, <2>1, WantedTyped
    <3> QED BY <3>1, <3>2 DEF Effective
  <2>4. CASE UndoPort
    <3>1. listen' = Effective(job.snap)
      BY <1>3, <2>4, TypedStep DEF UndoPort, RestoreFiles, Effective
    <3>2. job.old = PortsIn(job.snap)
      BY <1>3, <2>1 DEF Remembers
    <3>3. CASE ~(host.socket /\ job.snap.dropIn # <<>>)
      <4>1. Elems(<<>>) = {} /\ Elems(<<DefaultPort>>) = {DefaultPort}
        BY ElemsShort
      <4>2. \A s \in Seq(Ports) : s # <<>> => Elems(s) # {}
        <5>1. \A s \in Seq(Ports) : s # <<>> => 1 \in DOMAIN s
          OBVIOUS
        <5> QED BY <5>1 DEF Elems
      <4>3. /\ job.snap.managed \in Seq(Ports) /\ job.snap.legacy \in Seq(Ports)
        BY <2>p DEF FilesSet
      <4> QED BY <2>p, <3>1, <3>2, <3>3, <4>1, <4>2, <4>3 DEF Effective, PortsIn
    <3>4. CASE host.socket /\ job.snap.dropIn # <<>>
      <4>1. Tidy(job.snap)
        BY <1>3, <3>4 DEF SocketTidy
      <4> QED BY <3>1, <3>2, <3>4, <4>1 DEF Effective, PortsIn, Tidy
    <3> QED BY <3>3, <3>4
  <2> QED BY <2>2, <2>3, <2>4
<1>4. Typed /\ Flow /\ Remembers /\ SocketTidy /\ [Next]_vars => [A]_vars
  BY <1>3
<1> QED
  BY <1>1, <1>2, <1>4, TypedAlways, PTL DEF Spec, OldPortKept
-----------------------------------------------------------------------------
(***************************************************************************)
(* The new port is open before sshd listens on it.                         *)
(***************************************************************************)
\* Every rule there is or will be is one that a command adds.
RulesKnown ==
  /\ \A r \in Elems(fw.stored) \cup Elems(fw.run) : Known(r)
  /\ \A e \in Elems(todo) : e.op = "add" => Known(e.rule)

LEMMA PlanKnown ==
  ASSUME NEW c, NEW force, NEW edits \in Seq(EditType), Plan(c, force, edits)
  PROVE  \A e \in Elems(edits) : e.op = "add" => Known(e.rule)
<1>a. \A e : Adding(e) => Known(e.rule)
  BY DEF Adding
<1>1. CASE \A e \in Elems(edits) : e.op = "start" \/ Adding(e)
  BY <1>1, <1>a
<1>2. CASE edits = <<Stop>>
  BY <1>2, PoliciesTyped, ElemsShort
<1>3. ASSUME NEW pre \in Seq(EditType), NEW d \in Rule, edits = pre \o <<AddRule(d)>>,
             \A e \in Elems(pre) : Adding(e), Known(d)
      PROVE  \A e \in Elems(edits) : e.op = "add" => Known(e.rule)
  <2>1. AddRule(d) \in EditType /\ AddRule(d).rule = d
    BY EditsTyped
  <2>2. Elems(edits) = Elems(pre) \cup {AddRule(d)}
    BY <1>3, <2>1, ElemsOneMore
  <2> QED BY <1>3, <1>a, <2>1, <2>2
<1>4. ASSUME NEW r \in Rule, edits = <<DelRule(r)>>
      PROVE  \A e \in Elems(edits) : e.op = "add" => Known(e.rule)
  <2>1. Elems(edits) = {DelRule(r)} /\ DelRule(r).op = "del"
    BY <1>4, EditsTyped, ElemsShort
  <2> QED BY <2>1
<1>5. ASSUME NEW d \in BOOLEAN, edits = <<Policy(d)>>
      PROVE  \A e \in Elems(edits) : e.op = "add" => Known(e.rule)
  <2>1. Elems(edits) = {Policy(d)} /\ Policy(d).op = "policy"
    BY <1>5, PoliciesTyped, ElemsShort
  <2> QED BY <2>1
<1> QED BY <1>1, <1>2, <1>3, <1>4, <1>5 DEF Plan

LEMMA EditedKnown ==
  ASSUME NEW e \in EditType, fw \in FwSet, \A r \in Elems(fw.stored) : Known(r),
         e.op = "add" => Known(e.rule)
  PROVE  \A r \in Elems(EditedRules(e)) : Known(r)
<1>1. fw.stored \in Seq(Rule) /\ e.rule \in Rule
  BY DEF FwSet, EditType
<1>2. /\ Elems(WithRule(fw.stored, e.rule)) \subseteq Elems(fw.stored) \cup {e.rule}
      /\ Elems(Without(fw.stored, e.rule)) \subseteq Elems(fw.stored)
  BY <1>1, WithRuleTyped, WithoutTyped
<1> QED BY <1>2 DEF EditedRules

\* What a step of the firewall does to the rules, to the list of changes still to
\* be made, and where the process goes: an edit is made and then, on firewalld,
\* taken into use.
LEMMA EditMoves ==
  ASSUME Typed, Flow, EditFirewall
  PROVE  /\ At("edit") /\ Editing /\ todo \in Seq(EditType) /\ todo # <<>>
         /\ Head(todo) \in EditType /\ Head(todo) \in Elems(todo) /\ Head(todo) = todo[1]
         /\ fw \in FwSet /\ fw' \in FwSet
         /\ \/ Exit("error") /\ fw' = fw
            \/ /\ Head(todo).op = "stop" /\ Advance /\ ~fw'.active
               /\ fw'.stored = fw.stored /\ fw'.run = fw.run
               /\ fw'.sdeny = fw.sdeny /\ fw'.rdeny = fw.rdeny
            \/ /\ Head(todo).op = "start" /\ Advance /\ fw'.active
               /\ fw'.stored = fw.stored /\ fw'.run = fw.stored
               /\ fw'.sdeny = fw.sdeny /\ fw'.rdeny = fw.sdeny
            \/ /\ ~Firewalld /\ Head(todo).op \notin {"start", "stop"} /\ Advance
               /\ fw'.active = fw.active
               /\ fw'.stored = EditedRules(Head(todo)) /\ fw'.run = EditedRules(Head(todo))
               /\ fw'.sdeny = EditedDeny(Head(todo)) /\ fw'.rdeny = EditedDeny(Head(todo))
            \/ /\ Firewalld /\ fw.active /\ Head(todo).op \notin {"start", "stop"}
               /\ Goto("fwReload") /\ fw'.active
               /\ fw'.stored = EditedRules(Head(todo)) /\ fw'.run = fw.run
               /\ fw'.sdeny = EditedDeny(Head(todo)) /\ fw'.rdeny = fw.rdeny
<1> DEFINE e == Head(todo)
<1>1. At("edit") /\ Editing /\ FirewallStep
  BY DEF EditFirewall, Editing, FirewallStep
<1>2. todo \in Seq(EditType) /\ todo # <<>> /\ fw \in FwSet /\ fw' \in FwSet
  BY <1>1, FirewallKeeps DEF Typed, Flow
<1>3. e \in EditType /\ e \in Elems(todo) /\ e = todo[1]
  <2>1. 1 \in DOMAIN todo /\ e = todo[1]
    BY <1>2
  <2> QED BY <1>2, <2>1, ElemsTail DEF Elems
<1>4. \/ Exit("error") /\ fw' = fw
      \/ e.op = "stop" /\ Advance /\ fw' = [fw EXCEPT !.active = FALSE]
      \/ /\ e.op = "start" /\ Advance
         /\ fw' = [fw EXCEPT !.active = TRUE, !.run = fw.stored, !.rdeny = fw.sdeny]
      \/ /\ ~Firewalld /\ e.op \notin {"start", "stop"} /\ Advance
         /\ fw' = [fw EXCEPT !.stored = EditedRules(e), !.run = EditedRules(e),
                             !.sdeny = EditedDeny(e), !.rdeny = EditedDeny(e)]
      \/ /\ Firewalld /\ fw.active /\ e.op \notin {"start", "stop"} /\ Goto("fwReload")
         /\ fw' = [fw EXCEPT !.stored = EditedRules(e), !.sdeny = EditedDeny(e)]
  BY DEF EditFirewall
<1> HIDE DEF e
<1>5. CASE Exit("error") /\ fw' = fw
  BY <1>1, <1>2, <1>3, <1>5 DEF e
<1>6. CASE e.op = "stop" /\ Advance /\ fw' = [fw EXCEPT !.active = FALSE]
  <2>1. /\ ~fw'.active /\ fw'.stored = fw.stored /\ fw'.run = fw.run
        /\ fw'.sdeny = fw.sdeny /\ fw'.rdeny = fw.rdeny
    BY <1>2, <1>6 DEF FwSet
  <2> QED BY <1>1, <1>2, <1>3, <1>6, <2>1 DEF e
<1>7. CASE /\ e.op = "start" /\ Advance
           /\ fw' = [fw EXCEPT !.active = TRUE, !.run = fw.stored, !.rdeny = fw.sdeny]
  <2>1. /\ fw'.active /\ fw'.stored = fw.stored /\ fw'.run = fw.stored
        /\ fw'.sdeny = fw.sdeny /\ fw'.rdeny = fw.sdeny
    BY <1>2, <1>7 DEF FwSet
  <2> QED BY <1>1, <1>2, <1>3, <1>7, <2>1 DEF e
<1>8. CASE /\ ~Firewalld /\ e.op \notin {"start", "stop"} /\ Advance
           /\ fw' = [fw EXCEPT !.stored = EditedRules(e), !.run = EditedRules(e),
                               !.sdeny = EditedDeny(e), !.rdeny = EditedDeny(e)]
  <2>1. /\ fw'.active = fw.active /\ fw'.stored = EditedRules(e) /\ fw'.run = EditedRules(e)
        /\ fw'.sdeny = EditedDeny(e) /\ fw'.rdeny = EditedDeny(e)
    BY <1>2, <1>8 DEF FwSet
  <2> QED BY <1>1, <1>2, <1>3, <1>8, <2>1 DEF e
<1>9. CASE /\ Firewalld /\ fw.active /\ e.op \notin {"start", "stop"} /\ Goto("fwReload")
           /\ fw' = [fw EXCEPT !.stored = EditedRules(e), !.sdeny = EditedDeny(e)]
  <2>1. /\ fw'.active = fw.active /\ fw'.stored = EditedRules(e) /\ fw'.run = fw.run
        /\ fw'.sdeny = EditedDeny(e) /\ fw'.rdeny = fw.rdeny
    BY <1>2, <1>9 DEF FwSet
  <2> QED BY <1>1, <1>2, <1>3, <1>9, <2>1 DEF e
<1> QED BY <1>4, <1>5, <1>6, <1>7, <1>8, <1>9

LEMMA ReloadMoves ==
  ASSUME Typed, Flow, ReloadFirewall
  PROVE  /\ At("fwReload") /\ Editing /\ todo \in Seq(EditType) /\ todo # <<>>
         /\ fw \in FwSet /\ fw' \in FwSet
         /\ \/ Fault("fwReload") /\ Exit("error") /\ fw' = fw
            \/ /\ Advance /\ fw'.active = fw.active /\ fw'.stored = fw.stored
               /\ fw'.run = fw.stored /\ fw'.sdeny = fw.sdeny /\ fw'.rdeny = fw.sdeny
<1>1. At("fwReload") /\ Editing /\ FirewallStep
  BY DEF ReloadFirewall, Editing, FirewallStep
<1>2. todo \in Seq(EditType) /\ todo # <<>> /\ fw \in FwSet /\ fw' \in FwSet
  BY <1>1, FirewallKeeps DEF Typed, Flow
<1>3. CASE Advance /\ fw' = [fw EXCEPT !.run = fw.stored, !.rdeny = fw.sdeny]
  <2>1. /\ fw'.active = fw.active /\ fw'.stored = fw.stored
        /\ fw'.run = fw.stored /\ fw'.sdeny = fw.sdeny /\ fw'.rdeny = fw.sdeny
    BY <1>2, <1>3 DEF FwSet
  <2> QED BY <1>1, <1>2, <1>3, <2>1
<1>4. CASE Fault("fwReload") /\ Exit("error") /\ fw' = fw
  BY <1>1, <1>2, <1>4
<1> QED BY <1>3, <1>4 DEF ReloadFirewall

LEMMA RebootMoves ==
  ASSUME Typed, Reboot
  PROVE  /\ Idle /\ UNCHANGED <<host, files, pc, job, todo, outcome>>
         /\ listen' = Effective(files)
         /\ fw'.active = fw.active /\ fw'.stored = fw.stored
         /\ fw'.run = fw.stored /\ fw'.sdeny = fw.sdeny /\ fw'.rdeny = fw.sdeny
<1>1. /\ Idle /\ UNCHANGED <<host, files, pc, job, todo, outcome>>
      /\ listen' = Effective(files) /\ fw \in FwSet
      /\ fw' = [fw EXCEPT !.run = fw.stored, !.rdeny = fw.sdeny]
  BY DEF Typed, Reboot
<1>2. /\ fw'.active = fw.active /\ fw'.stored = fw.stored
      /\ fw'.run = fw.stored /\ fw'.sdeny = fw.sdeny /\ fw'.rdeny = fw.sdeny
  BY <1>1 DEF FwSet
<1> QED BY <1>1, <1>2

\* sshd's part has no firewall changes to make, but for closing an old port.
LEMMA SshdTodo ==
  ASSUME Typed, Flow, SshdStep
  PROVE  /\ ~Editing /\ todo = <<>> /\ fw' = fw /\ host' = host
         /\ \/ ~Editing' /\ todo' = <<>>
            \/ At("closeFw") /\ CloseNext
<1>1. ~Editing
  BY DEF SshdStep, ApplyDirective, LabelPort, MigrateLegacy, WritePorts, WriteDropIn,
     RestartSshd, CheckBanner, UndoPort, CloseFirewall, Editing, At
<1>2. todo = <<>> /\ fw' = fw /\ host' = host /\ FlowTyped'
  BY <1>1, SshdKeeps DEF Flow
<1>3. CASE ~Editing'
  BY <1>1, <1>2, <1>3 DEF FlowTyped, Flow
<1>4. CASE \E r \in {"ok", "error"} : Exit(r)
  BY <1>3, <1>4, EndedJob DEF Editing, At
<1>5. CASE Goto("migrate")
  BY <1>3, <1>5 DEF Goto, Editing, At
<1>6. CASE pc' \in {"ports", "dropIn", "restart", "banner", "undo", "closeFw"}
  BY <1>3, <1>6 DEF Editing, At
<1>7. CASE At("closeFw") /\ CloseNext
  BY <1>1, <1>2, <1>7
<1> QED BY <1>4, <1>5, <1>6, <1>7, SshdGoes

LEMMA AdvanceTodo ==
  ASSUME Typed, Flow, Editing, Advance
  PROVE  Elems(todo') \subseteq Elems(todo)
<1>1. todo \in Seq(EditType) /\ todo # <<>>
  BY DEF Typed, Flow
<1>2. Elems(Tail(todo)) \subseteq Elems(todo) /\ Elems(<<>>) = {}
  BY <1>1, ElemsTail, ElemsShort
<1> QED BY <1>2, Advances, EndedJob

LEMMA RulesKnownStep ==
  ASSUME Typed, Flow, RulesKnown, [Next]_vars
  PROVE  RulesKnown'
<1>k. /\ \A r \in Elems(fw.stored) \cup Elems(fw.run) : Known(r)
      /\ \A e \in Elems(todo) : e.op = "add" => Known(e.rule)
  BY DEF RulesKnown
<1>z. Elems(<<>>) = {}
  BY ElemsShort
<1>1. CASE UNCHANGED vars
  BY <1>1, <1>k DEF vars, RulesKnown
<1>2. CASE FirewallStart
  <2>1. PICK c \in AllCommands, force \in BOOLEAN, j \in JobSet, edits \in Seq(EditType) :
          Begin(j, edits, "edit") /\ Plan(c, force, edits)
    BY <1>2, PlainStart
  <2>2. \A e \in Elems(edits) : e.op = "add" => Known(e.rule)
    BY <2>1, PlanKnown
  <2>3. fw' = fw /\ todo' = edits
    BY <2>1 DEF Begin
  <2> QED BY <1>k, <2>2, <2>3 DEF RulesKnown
<1>3. CASE Directive
  BY <1>3, <1>k DEF Directive, RulesKnown
<1>4. CASE SetPort
  <2>1. PICK j \in JobSet, edits \in Seq(EditType), first \in {"edit", "ports", "label"} :
          Begin(j, edits, first) /\ \A e \in Elems(edits) : Adding(e)
    BY <1>4, PortStart
  <2>2. fw' = fw /\ todo' = edits
    BY <2>1 DEF Begin
  <2> QED BY <1>k, <2>1, <2>2 DEF RulesKnown, Adding
<1>5. CASE EditFirewall
  <2>1. Head(todo) \in EditType /\ (Head(todo).op = "add" => Known(Head(todo).rule))
        /\ fw \in FwSet
    BY <1>5, <1>k, EditMoves
  <2>2. \A r \in Elems(EditedRules(Head(todo))) : Known(r)
    BY <1>k, <2>1, EditedKnown
  <2>3. /\ fw'.stored \in {fw.stored, EditedRules(Head(todo))}
        /\ fw'.run \in {fw.stored, fw.run, EditedRules(Head(todo))}
    BY <1>5, EditMoves
  <2>4. Elems(todo') \subseteq Elems(todo)
    <3>1. (Exit("error") \/ Advance \/ Goto("fwReload")) /\ Editing
      BY <1>5, EditMoves
    <3> QED BY <1>z, <3>1, AdvanceTodo, EndedJob DEF Goto
  <2> QED BY <1>k, <2>2, <2>3, <2>4 DEF RulesKnown
<1>6. CASE ReloadFirewall
  <2>1. fw'.stored = fw.stored /\ fw'.run \in {fw.stored, fw.run}
        /\ (Exit("error") \/ Advance) /\ Editing
    BY <1>6, ReloadMoves
  <2>2. Elems(todo') \subseteq Elems(todo)
    BY <1>z, <2>1, AdvanceTodo, EndedJob
  <2> QED BY <1>k, <2>1, <2>2 DEF RulesKnown
<1>7. CASE SshdStep
  <2>1. fw' = fw /\ (todo' = <<>> \/ (At("closeFw") /\ CloseNext))
    BY <1>7, SshdTodo
  <2>2. CASE todo' = <<>>
    BY <1>k, <1>z, <2>1, <2>2 DEF RulesKnown
  <2>3. CASE At("closeFw") /\ CloseNext
    <3>1. PICK rule \in Rule : todo' = <<DelRule(rule)>>
      BY <2>3, ClosePlans
    <3>2. Elems(todo') = {DelRule(rule)} /\ DelRule(rule).op = "del"
      BY <3>1, EditsTyped, ElemsShort
    <3> QED BY <1>k, <2>1, <3>2 DEF RulesKnown
  <2> QED BY <2>1, <2>2, <2>3
<1>8. CASE Crash
  BY <1>8, <1>k, <1>z, EndedJob DEF Crash, RulesKnown
<1>9. CASE Reboot
  BY <1>9, <1>k, RebootMoves DEF RulesKnown
<1> QED
  BY <1>1, <1>2, <1>3, <1>4, <1>5, <1>6, <1>7, <1>8, <1>9
  DEF Next, SshdStart, FirewallStep

\* A list of such rules lets an address that no deny names in on a port that deny
\* is not given, under either firewall, if a rule allows that port.
LEMMA KnownLetIn ==
  ASSUME NEW rules \in Seq(Rule), NEW policy, NEW p \in Ports \ DenyPorts,
         \A r \in Elems(rules) : Known(r),
         NEW r \in Elems(rules), r.act = "allow", r.port = p, r.from = Anywhere,
         Addrs \ Denied # {}
  PROVE  \E a \in Addrs : UfwLets(rules, policy, a, p) /\ FirewalldLets(rules, policy, a, p)
<1>1. PICK a \in Addrs : a \notin Denied
  OBVIOUS
<1>2. ASSUME NEW i \in DOMAIN rules, Covers(rules[i], a, p) PROVE rules[i].act = "allow"
  <2>1. Known(rules[i])
    BY DEF Elems
  <2>2. rules[i].act # "deny"
    <3> SUFFICES ASSUME rules[i].act = "deny" PROVE FALSE
      OBVIOUS
    <3>1. \/ rules[i].from = Anywhere /\ rules[i].port \in DenyPorts
          \/ rules[i].from \in Denied
      BY <2>1 DEF Known
    <3>2. rules[i].from \in {a, Anywhere} /\ rules[i].port \in {p, SshName, AnyPort}
      BY <1>2 DEF Covers, MatchesSsh
    <3>3. DenyPorts \subseteq Ports /\ Anywhere \notin Denied
          /\ AnyPort \notin Ports /\ SshName \notin Ports
      BY AccessAssumption, GuardAssumption, DeniedTyped
    <3> QED BY <1>1, <3>1, <3>2, <3>3
  <2>3. rules[i].act \in {"allow", "deny"}
    BY <2>1 DEF Known, Rule
  <2> QED BY <2>2, <2>3
<1>3. PICK i \in DOMAIN rules : rules[i] = r
  BY DEF Elems
<1>4. rules[i].act = "allow" /\ Covers(rules[i], a, p)
  BY <1>3 DEF Covers, MatchesSsh
<1>5. \A j \in 1..(i - 1) : j \in DOMAIN rules
  OBVIOUS
<1>6. UfwLets(rules, policy, a, p)
  BY <1>2, <1>4, <1>5 DEF UfwLets
<1>7. FirewalldLets(rules, policy, a, p)
  BY <1>2, <1>4 DEF FirewalldLets
<1> QED BY <1>6, <1>7

\* set-port --allow-firewall adds the rule for the new port last, and has it in
\* use from the step after on.
Opened ==
  /\ SetPorting => job.port \in NewPorts
  /\ Editing /\ job.then = "label" =>
       IF At("fwReload") /\ Len(todo) = 1 THEN NewRule(job) \in Elems(fw.stored)
       ELSE todo[Len(todo)] = AddRule(NewRule(job))
  /\ pc \in {"label", "migrate", "ports", "dropIn", "restart", "banner"}
       /\ job.allowFw /\ ~job.dry
     => NewRule(job) \in Elems(fw.run)

\* The last edit of set-port is made, or the list goes on to it.
LEMMA OpenedAdvance ==
  ASSUME Typed, Flow, host' = host, Editing, Advance, SetPorting => job.port \in NewPorts,
         job.then = "label" =>
           IF Len(todo) = 1 THEN NewRule(job) \in Elems(fw'.run)
           ELSE todo[Len(todo)] = AddRule(NewRule(job))
  PROVE  Opened'
<1>1. todo \in Seq(EditType) /\ todo # <<>> /\ job.then \in {"exit", "label", "closeFw"}
  BY DEF Typed, Flow, JobSet
<1>2. CASE /\ todo' = Tail(todo) /\ Tail(todo) # <<>> /\ pc' = "edit"
           /\ UNCHANGED <<job, outcome>>
  <2>1. Len(todo) # 1
    <3>1. Len(todo) \in Nat /\ (Len(todo) > 1 <=> Tail(todo) # <<>>)
      BY <1>1, ElemsTail
    <3> QED BY <1>2, <3>1
  <2>2. todo'[Len(todo')] = todo[Len(todo)]
    BY <1>1, <1>2, TailAt
  <2>3. NewRule(job)' = NewRule(job)
    BY <1>2 DEF NewRule, PortRule, Firewalld
  <2>4. job.then = "label" => todo'[Len(todo')] = AddRule(NewRule(job))
    BY <2>1, <2>2
  <2> QED BY <1>2, <2>3, <2>4 DEF Opened, SetPorting, Editing, At
<1>3. CASE Exit("ok")
  BY <1>3, EndedJob DEF Opened, SetPorting, Editing, At
<1>4. CASE Len(todo) = 1 /\ job.then # "exit" /\ pc' = job.then /\ UNCHANGED <<job, outcome>>
  <2>1. NewRule(job)' = NewRule(job)
    BY <1>4 DEF NewRule, PortRule, Firewalld
  <2> QED BY <1>1, <1>4, <2>1 DEF Opened, SetPorting, Editing, At
<1> QED BY <1>2, <1>3, <1>4, Advances

LEMMA OpenedStep ==
  ASSUME Typed, Flow, Opened, [Next]_vars
  PROVE  Opened'
<1>h. host' = host
  BY TypedStep
<1>o. /\ SetPorting => job.port \in NewPorts
      /\ Editing /\ job.then = "label" =>
           IF At("fwReload") /\ Len(todo) = 1 THEN NewRule(job) \in Elems(fw.stored)
           ELSE todo[Len(todo)] = AddRule(NewRule(job))
      /\ pc \in {"label", "migrate", "ports", "dropIn", "restart", "banner"}
           /\ job.allowFw /\ ~job.dry
         => NewRule(job) \in Elems(fw.run)
  BY DEF Opened
<1>n. ASSUME job' = job PROVE NewRule(job)' = NewRule(job)
  BY <1>h, <1>n DEF NewRule, PortRule, Firewalld
<1>e. ASSUME NEW r, Exit(r) PROVE Opened'
  BY <1>e, EndedJob DEF Opened, SetPorting, Editing, At
<1>1. CASE UNCHANGED vars
  BY <1>1, <1>n, <1>o DEF vars, Opened, SetPorting, Editing, At
<1>2. CASE FirewallStart
  <2>1. PICK c \in AllCommands \ {"setPort", "directive"}, force \in BOOLEAN, j \in JobSet,
             edits \in Seq(EditType) : IsPlain(j, c, force) /\ Begin(j, edits, "edit")
    BY <1>2, PlainStart
  <2>2. pc' = "edit" /\ job'.cmd # "setPort" /\ job'.then = "exit"
    BY <2>1 DEF Begin, IsPlain
  <2> QED BY <2>2 DEF Opened, SetPorting, Editing, At
<1>3. CASE Directive
  <2>1. pc' = "applied" /\ job'.cmd # "setPort"
    BY <1>3 DEF Directive, NoJob
  <2> QED BY <2>1 DEF Opened, SetPorting, Editing, At
<1>4. CASE SetPort
  <2>1. PICK j \in JobSet, edits \in Seq(EditType), first \in {"edit", "ports", "label"} :
          /\ IsPort(j) /\ Begin(j, edits, first)
          /\ IF j.allowFw /\ ~j.dry
             THEN first = "edit" /\ edits[Len(edits)] = AddRule(NewRule(j))
             ELSE first = IF j.dry THEN "ports" ELSE "label"
    BY <1>4, PortStart
  <2>2. job' = j /\ todo' = edits /\ pc' = first /\ j.port \in NewPorts
    BY <2>1 DEF Begin, IsPort
  <2>3. NewRule(job)' = NewRule(j)
    BY <1>h, <2>2 DEF NewRule, PortRule, Firewalld
  <2>4. CASE j.allowFw /\ ~j.dry
    BY <2>1, <2>2, <2>3, <2>4 DEF Opened, SetPorting, Editing, At
  <2>5. CASE ~(j.allowFw /\ ~j.dry)
    <3>1. first \in {"ports", "label"} /\ ~(job'.allowFw /\ ~job'.dry)
      BY <2>1, <2>2, <2>5
    <3> QED BY <2>2, <3>1 DEF Opened, SetPorting, Editing, At
  <2> QED BY <2>4, <2>5
<1>5. CASE EditFirewall
  <2> DEFINE e == Head(todo)
  <2>1. /\ At("edit") /\ Editing /\ todo \in Seq(EditType) /\ todo # <<>>
        /\ e \in EditType /\ e = todo[1] /\ fw \in FwSet
    BY <1>5, EditMoves
  <2>2. job.then = "label" => todo[Len(todo)] = AddRule(NewRule(job))
    BY <1>o, <2>1 DEF At
  <2>3. job.then = "label" /\ Len(todo) = 1 => e.op = "add" /\ NewRule(job) \in Elems(EditedRules(e))
    <3> SUFFICES ASSUME job.then = "label", Len(todo) = 1
                 PROVE  e.op = "add" /\ NewRule(job) \in Elems(EditedRules(e))
      OBVIOUS
    <3>1. e = AddRule(NewRule(job))
      BY <2>1, <2>2
    <3>2. e.op = "add" /\ e.rule = NewRule(job)
      BY <3>1 DEF AddRule, Edit
    <3>3. e.rule \in Rule /\ fw.stored \in Seq(Rule)
      BY <2>1 DEF EditType, FwSet
    <3> HIDE DEF e
    <3> QED BY <3>2, <3>3, WithRuleTyped DEF EditedRules
  <2> HIDE DEF e
  <2>4. \/ Exit("error")
        \/ e.op \in {"start", "stop"} /\ Advance
        \/ Advance /\ fw'.run = EditedRules(e)
        \/ Goto("fwReload") /\ fw'.stored = EditedRules(e)
    BY <1>5, EditMoves DEF e
  <2>5. CASE e.op \in {"start", "stop"} /\ Advance
    <3>1. ~(job.then = "label" /\ Len(todo) = 1)
      BY <2>3, <2>5
    <3> QED BY <1>h, <1>o, <2>1, <2>2, <2>5, <3>1, OpenedAdvance
  <2>6. CASE Advance /\ fw'.run = EditedRules(e)
    BY <1>h, <1>o, <2>1, <2>2, <2>3, <2>6, OpenedAdvance
  <2>7. CASE Goto("fwReload") /\ fw'.stored = EditedRules(e)
    <3>1. pc' = "fwReload" /\ job' = job /\ todo' = todo
      BY <2>7 DEF Goto
    <3> QED BY <1>n, <1>o, <2>2, <2>3, <2>7, <3>1 DEF Opened, SetPorting, Editing, At
  <2> QED BY <2>4, <2>5, <2>6, <2>7, <1>e
<1>6. CASE ReloadFirewall
  <2>1. At("fwReload") /\ Editing
    BY <1>6, ReloadMoves
  <2>2. CASE Advance /\ fw'.run = fw.stored
    BY <1>h, <1>o, <2>1, <2>2, OpenedAdvance
  <2> QED BY <1>6, <2>2, <1>e, ReloadMoves
<1>g. ASSUME NEW p, Goto(p), fw' = fw, ~Editing,
             \/ pc \in {"label", "migrate", "ports", "dropIn", "restart", "banner"}
             \/ p \in {"undo", "closeFw"},
             p \notin {"edit", "fwReload"}
      PROVE  Opened'
  <2>1. pc' = p /\ job' = job
    BY <1>g DEF Goto
  <2> QED BY <1>g, <1>n, <1>o, <2>1 DEF Opened, SetPorting, Editing, At
<1>7. CASE SshdStep
  <2>1. fw' = fw /\ ~Editing
    BY <1>7, SshdTodo
  <2>s. ASSUME Stage("new", "ports"), At("ports") \/ At("banner"), job.close PROVE Opened'
    <3>1. /\ job'.port = job.port /\ job'.allowFw = job.allowFw /\ job'.dry = job.dry
          /\ job'.cmd = job.cmd /\ pc' = "ports"
      BY <1>h, <2>s, StageKeeps DEF Stage
    <3>2. NewRule(job)' = NewRule(job)
      BY <1>h, <3>1 DEF NewRule, PortRule, Firewalld
    <3>3. pc \in {"label", "migrate", "ports", "dropIn", "restart", "banner"}
      BY <2>s DEF At
    <3> QED BY <1>o, <2>1, <3>1, <3>2, <3>3 DEF Opened, SetPorting, Editing, At
  <2>n. ASSUME NotWritten, At("ports") \/ At("dropIn") PROVE Opened'
    BY <2>1, <2>n, <1>e, <1>g DEF NotWritten, At
  <2>2. CASE WritePorts
    <3>1. At("ports")
      BY <2>2 DEF WritePorts
    <3>2. \/ NotWritten \/ Goto("dropIn") \/ Goto("restart") \/ Goto("closeFw") \/ Exit("ok")
          \/ (job.close /\ Stage("new", "ports"))
      BY <2>2 DEF WritePorts, Listening
    <3> QED BY <2>1, <2>n, <2>s, <3>1, <3>2, <1>e, <1>g DEF At
  <2>3. CASE WriteDropIn
    <3>1. At("dropIn") /\ (NotWritten \/ Goto("restart"))
      BY <2>3 DEF WriteDropIn
    <3> QED BY <2>1, <2>n, <3>1, <1>g DEF At
  <2>4. CASE RestartSshd
    <3>1. At("restart") /\ (Goto("banner") \/ Goto("undo"))
      BY <2>4 DEF RestartSshd
    <3> QED BY <2>1, <3>1, <1>g DEF At
  <2>5. CASE CheckBanner
    <3>1. At("banner")
      BY <2>5 DEF CheckBanner
    <3>2. \/ Goto("undo") \/ Goto("closeFw") \/ Exit("ok")
          \/ (job.close /\ Stage("new", "ports"))
      BY <2>5 DEF CheckBanner
    <3> QED BY <2>1, <2>s, <3>1, <3>2, <1>e, <1>g DEF At
  <2>6. CASE LabelPort \/ MigrateLegacy
    <3>1. /\ pc \in {"label", "migrate"}
          /\ Exit("error") \/ Goto("migrate") \/ Goto("ports")
      BY <2>6 DEF LabelPort, MigrateLegacy, At
    <3> QED BY <2>1, <3>1, <1>e, <1>g
  <2>7. CASE ApplyDirective \/ UndoPort
    BY <2>7, <1>e DEF ApplyDirective, UndoPort
  <2>8. CASE CloseFirewall
    <3>1. CASE At("closeFw") /\ CloseNext
      <4>1. pc' = "edit" /\ job'.then = "closeFw" /\ job'.port = job.port /\ job'.cmd = job.cmd
        BY <3>1, ClosePlans
      <4> QED BY <1>o, <4>1 DEF Opened, SetPorting, Editing, At
    <3>2. Exit("ok") \/ Exit("error") \/ (At("closeFw") /\ CloseNext)
      BY <2>8 DEF CloseFirewall, CloseNext
    <3> QED BY <3>1, <3>2, <1>e
  <2> QED BY <1>7, <2>2, <2>3, <2>4, <2>5, <2>6, <2>7, <2>8 DEF SshdStep
<1>8. CASE Crash
  BY <1>8, <1>e DEF Crash
<1>9. CASE Reboot
  BY <1>9, <1>n, <1>o, RebootMoves DEF Idle, Opened, SetPorting, Editing, At
<1> QED
  BY <1>1, <1>2, <1>3, <1>4, <1>5, <1>6, <1>7, <1>8, <1>9
  DEF Next, SshdStart, FirewallStep

\* What set-port may rely on: nothing denies its port, and somebody is not denied.
NewPortsFree == NewPorts \cap DenyPorts = {} /\ Addrs \ Denied # {}

\* set-port --allow-firewall: when sshd starts to listen on the new port, the
\* firewall in use lets somebody in on it, whatever was allowed, denied or removed
\* before and whatever failed (applyPorts, firewall.Allow).
THEOREM OpensFirst ==
  ASSUME NewPortsFree
  PROVE  Spec => OpenBeforeListen
<1> DEFINE A == At("restart") /\ job.allowFw /\ job.port \notin listen
                => (job.port \in listen' => Open(job.port))
<1>1. Init => RulesKnown /\ Opened
  <2> SUFFICES ASSUME Init PROVE RulesKnown /\ Opened
    OBVIOUS
  <2>1. /\ fw.stored \in {<<>>, <<SshService>>} /\ fw.run = fw.stored
        /\ todo = <<>> /\ pc = "idle" /\ job.cmd = "none"
    BY DEF Init, NoJob
  <2>2. Elems(<<>>) = {} /\ Elems(<<SshService>>) = {SshService}
    BY ElemsShort
  <2>3. Known(SshService)
    BY ServiceTyped DEF Known, SshService
  <2> QED BY <2>1, <2>2, <2>3 DEF RulesKnown, Opened, SetPorting, Editing, At
<1>2. Typed /\ Flow /\ RulesKnown /\ Opened /\ [Next]_vars => RulesKnown' /\ Opened'
  BY RulesKnownStep, OpenedStep
<1>3. ASSUME Typed, Flow, RulesKnown, Opened PROVE A
  <2> SUFFICES ASSUME At("restart"), job.allowFw PROVE Open(job.port)
    OBVIOUS
  <2>1. ~job.dry /\ SetPorting
    BY <1>3 DEF Flow, At
  <2>2. NewRule(job) \in Elems(fw.run) /\ job.port \in NewPorts
    BY <1>3, <2>1 DEF Opened, At
  <2>3. fw.run \in Seq(Rule) /\ \A r \in Elems(fw.run) : Known(r)
    BY <1>3 DEF Typed, FwSet, RulesKnown
  <2>4. job.port \in Ports \ DenyPorts /\ Addrs \ Denied # {}
    BY <2>2, AccessAssumption DEF NewPortsFree
  <2>5. IsRule(NewRule(job), "allow", job.port, Anywhere)
    BY <2>4, PortRuleTyped DEF NewRule
  <2>6. \E a \in Addrs : /\ UfwLets(fw.run, fw.rdeny, a, job.port)
                         /\ FirewalldLets(fw.run, fw.rdeny, a, job.port)
    BY <2>2, <2>3, <2>4, <2>5, KnownLetIn DEF IsRule
  <2> QED BY <2>6 DEF Open, Lets
<1>4. Typed /\ Flow /\ RulesKnown /\ Opened /\ [Next]_vars => [A]_vars
  BY <1>3
<1> QED
  BY <1>1, <1>2, <1>4, TypedAlways, PTL DEF Spec, OpenBeforeListen

-----------------------------------------------------------------------------
(***************************************************************************)
(* No step closes the last way in.                                         *)
(***************************************************************************)
\* What the firewall lets in with the given rules and policy.
LetsIn(rules, deny, a, p) ==
  IF Firewalld THEN FirewalldLets(rules, deny, a, p) ELSE UfwLets(rules, deny, a, p)
OpenIn(rules, deny, p) == \E a \in Addrs : LetsIn(rules, deny, a, p)

\* Somebody whom no deny names is let in by the rules alone, whatever the policy is.
Firm(rules, p) == \E a \in Addrs \ Denied : LetsIn(rules, TRUE, a, p)

\* No rule denies sshd's port to everybody.
Clean(rules, p) ==
  \A r \in Elems(rules) : r.act = "deny" /\ r.from = Anywhere => ~MatchesSsh(r, p)

\* What the theorem supposes.  The check reads the running rules and the first port
\* of sshd's files, so both have to be what they seem: nothing fails or stops between
\* a change of firewalld and its reload, and no process is killed between a write of
\* sshd's files and the restart.  Nothing is forced: no --force, and no set-port
\* without --allow-firewall.  No address of the session or of allow --from is one
\* that deny-ip or deny --from is given (the check counts the allow of one address
\* and passes over the deny of it), some address is not denied, and no command
\* denies a port of set-port.
LockoutScope ==
  /\ ForceIn = {} /\ CloseWith \subseteq {TRUE} /\ DryIn \subseteq {FALSE}
  /\ {"fwReload", "undo"} \cap FaultKinds = {}
  /\ {"fwReload", "dropIn", "restart", "undo"} \cap CrashAt = {}
  /\ Named \cap Denied = {} /\ Addrs \ Denied # {} /\ NewPorts \cap DenyPorts = {}

LEMMA FirmOpens ==
  ASSUME NEW rules, NEW p, NEW a, NEW deny \in BOOLEAN, LetsIn(rules, TRUE, a, p)
  PROVE  LetsIn(rules, deny, a, p)
BY DEF LetsIn, UfwLets, FirewalldLets

LEMMA DenyNarrows ==
  ASSUME NEW rules, NEW p, NEW a, LetsIn(rules, TRUE, a, p) \/ LetsIn(rules, FALSE, a, p)
  PROVE  LetsIn(rules, FALSE, a, p)
BY DEF LetsIn, UfwLets, FirewalldLets

\* Where the rules of WithRule come from: each stands where it stood, or is the new
\* one, at the end or in the place of one about the same packets.
LEMMA WithRuleShape ==
  ASSUME NEW rules \in Seq(Rule), NEW d \in Rule
  PROVE  LET new == WithRule(rules, d)
         IN  /\ DOMAIN rules \subseteq DOMAIN new /\ DOMAIN new \subseteq 1..(Len(rules) + 1)
             /\ \A i \in DOMAIN rules :
                  new[i] = rules[i] \/ (new[i] = d /\ Same(rules[i], d))
             /\ \A i \in DOMAIN new \ DOMAIN rules : new[i] = d /\ i = Len(rules) + 1
<1> DEFINE new == WithRule(rules, d)
<1>2. DOMAIN rules = 1..Len(rules) /\ Len(rules) \in Nat
  OBVIOUS
<1>3. CASE \E i \in DOMAIN rules : Same(rules[i], d)
  <2>1. new = [i \in DOMAIN rules |-> IF Same(rules[i], d) THEN d ELSE rules[i]]
    BY <1>3 DEF WithRule
  <2> HIDE DEF new
  <2>2. DOMAIN new = DOMAIN rules
    BY <2>1
  <2>3. \A i \in DOMAIN rules : new[i] = rules[i] \/ (new[i] = d /\ Same(rules[i], d))
    BY <2>1
  <2>4. DOMAIN new \subseteq 1..(Len(rules) + 1)
    BY <2>2, <1>2
  <2> QED BY <2>2, <2>3, <2>4 DEF new
<1>4. CASE ~ \E i \in DOMAIN rules : Same(rules[i], d)
  <2>1. new = Append(rules, d)
    BY <1>4 DEF WithRule
  <2>2. /\ DOMAIN Append(rules, d) = 1..(Len(rules) + 1)
        /\ \A i \in DOMAIN rules : Append(rules, d)[i] = rules[i]
        /\ Append(rules, d)[Len(rules) + 1] = d
    BY <1>2
  <2> HIDE DEF new
  <2>3. \A i \in DOMAIN new \ DOMAIN rules : i = Len(rules) + 1
    BY <1>2, <2>1, <2>2
  <2> QED BY <1>2, <2>1, <2>2, <2>3 DEF new
<1> QED BY <1>3, <1>4

\* One more allow shuts nobody out.
LEMMA AllowMonotone ==
  ASSUME NEW rules \in Seq(Rule), NEW d \in Rule, d.act = "allow",
         NEW deny \in BOOLEAN, NEW a, NEW p, LetsIn(rules, deny, a, p)
  PROVE  LetsIn(WithRule(rules, d), deny, a, p)
<1> DEFINE new == WithRule(rules, d)
<1>1. DOMAIN rules = 1..Len(rules) /\ Len(rules) \in Nat
  OBVIOUS
<1>2. /\ DOMAIN rules \subseteq DOMAIN new /\ DOMAIN new \subseteq 1..(Len(rules) + 1)
      /\ \A i \in DOMAIN rules :
           new[i] = rules[i] \/ (new[i] = d /\ Same(rules[i], d))
      /\ \A i \in DOMAIN new \ DOMAIN rules : new[i] = d /\ i = Len(rules) + 1
  BY WithRuleShape
<1> HIDE DEF new
<1>3. \A i \in DOMAIN rules :
        /\ Covers(new[i], a, p) <=> Covers(rules[i], a, p)
        /\ rules[i].act = "allow" => new[i].act = "allow"
  BY <1>2 DEF Same, Covers, MatchesSsh
<1>4. \A i \in DOMAIN new \ DOMAIN rules : new[i].act = "allow"
  BY <1>2
<1>5. CASE Firewalld
  <2>1. FirewalldLets(rules, deny, a, p)
    BY <1>5 DEF LetsIn
  <2>2. FirewalldLets(new, deny, a, p)
    BY <2>1, <1>2, <1>3, <1>4 DEF FirewalldLets
  <2> QED BY <2>2, <1>5 DEF LetsIn, new
<1>6. CASE ~Firewalld
  <2>1. ASSUME NEW i \in DOMAIN rules, rules[i].act = "allow", Covers(rules[i], a, p),
               \A j \in 1..(i - 1) : Covers(rules[j], a, p) => rules[j].act = "allow"
        PROVE  UfwLets(new, deny, a, p)
    <3>1. \A j \in 1..(i - 1) : j \in DOMAIN rules
      BY <1>1
    <3>2. i \in DOMAIN new /\ new[i].act = "allow" /\ Covers(new[i], a, p)
      BY <2>1, <1>2, <1>3
    <3>3. \A j \in 1..(i - 1) : Covers(new[j], a, p) => new[j].act = "allow"
      BY <2>1, <3>1, <1>3
    <3> QED BY <3>2, <3>3 DEF UfwLets
  <2>2. ASSUME ~deny, \A i \in DOMAIN rules : ~Covers(rules[i], a, p)
        PROVE  UfwLets(new, deny, a, p)
    <3>1. CASE \A i \in DOMAIN new : ~Covers(new[i], a, p)
      BY <2>2, <3>1 DEF UfwLets
    <3>2. CASE \E i \in DOMAIN new : Covers(new[i], a, p)
      <4>1. PICK i \in DOMAIN new : Covers(new[i], a, p)
        BY <3>2
      <4>2. i \notin DOMAIN rules
        BY <2>2, <4>1, <1>3
      <4>3. new[i].act = "allow" /\ i = Len(rules) + 1
        BY <4>1, <4>2, <1>2
      <4>4. \A j \in 1..(i - 1) : j \in DOMAIN rules
        BY <4>3, <1>1
      <4>5. \A j \in 1..(i - 1) : ~Covers(new[j], a, p)
        BY <4>4, <2>2, <1>3
      <4> QED BY <4>1, <4>3, <4>5 DEF UfwLets
    <3> QED BY <3>1, <3>2
  <2>3. UfwLets(new, deny, a, p)
    BY <2>1, <2>2, <1>6 DEF LetsIn, UfwLets
  <2> QED BY <2>3, <1>6 DEF LetsIn, new
<1> QED BY <1>5, <1>6

\* A rule about other packets changes nothing.
LEMMA ApartKeeps ==
  ASSUME NEW rules \in Seq(Rule), NEW d \in Rule, NEW deny \in BOOLEAN, NEW a, NEW p,
         ~Covers(d, a, p), LetsIn(rules, deny, a, p)
  PROVE  LetsIn(WithRule(rules, d), deny, a, p)
<1> DEFINE new == WithRule(rules, d)
<1>1. DOMAIN rules = 1..Len(rules) /\ Len(rules) \in Nat
  OBVIOUS
<1>2. /\ DOMAIN rules \subseteq DOMAIN new
      /\ \A i \in DOMAIN rules :
           new[i] = rules[i] \/ (new[i] = d /\ Same(rules[i], d))
      /\ \A i \in DOMAIN new \ DOMAIN rules : new[i] = d
  BY WithRuleShape
<1> HIDE DEF new
<1>3. \A i \in DOMAIN rules : Same(rules[i], d) => ~Covers(rules[i], a, p)
  BY DEF Same, Covers, MatchesSsh
<1>4. /\ \A i \in DOMAIN new : Covers(new[i], a, p) => i \in DOMAIN rules /\ new[i] = rules[i]
      /\ \A i \in DOMAIN rules : Covers(rules[i], a, p) => new[i] = rules[i]
  BY <1>2, <1>3
<1>5. CASE Firewalld
  <2>1. FirewalldLets(rules, deny, a, p)
    BY <1>5 DEF LetsIn
  <2>2. {i \in DOMAIN new : Covers(new[i], a, p)} = {i \in DOMAIN rules : Covers(rules[i], a, p)}
    BY <1>2, <1>4
  <2>3. FirewalldLets(new, deny, a, p)
    BY <2>1, <2>2, <1>4 DEF FirewalldLets
  <2> QED BY <2>3, <1>5 DEF LetsIn, new
<1>6. CASE ~Firewalld
  <2>1. ASSUME NEW i \in DOMAIN rules, rules[i].act = "allow", Covers(rules[i], a, p),
               \A j \in 1..(i - 1) : Covers(rules[j], a, p) => rules[j].act = "allow"
        PROVE  UfwLets(new, deny, a, p)
    <3>1. i \in DOMAIN new /\ new[i] = rules[i]
      BY <2>1, <1>2, <1>4
    <3>2. \A j \in 1..(i - 1) : j \in DOMAIN new
      BY <1>1, <1>2
    <3> QED BY <2>1, <3>1, <3>2, <1>4 DEF UfwLets
  <2>2. ASSUME ~deny, \A i \in DOMAIN rules : ~Covers(rules[i], a, p)
        PROVE  UfwLets(new, deny, a, p)
    BY <2>2, <1>4 DEF UfwLets
  <2>3. UfwLets(new, deny, a, p)
    BY <2>1, <2>2, <1>6 DEF LetsIn, UfwLets
  <2> QED BY <2>3, <1>6 DEF LetsIn, new
<1> QED BY <1>5, <1>6

\* A list that the check lets pass lets somebody in, whatever the policy is, if its
\* rules are ones that commands add.  firewalld takes every deny before any allow:
\* there the order that the check looks at says nothing, and no deny may stand.
LEMMA ReachableFirm ==
  ASSUME LockoutScope, NEW rules \in Seq(Rule), NEW p \in Ports,
         \A r \in Elems(rules) : Known(r),
         IF Firewalld
         THEN /\ \E r \in Elems(rules) : r.act = "allow" /\ MatchesSsh(r, p)
              /\ Clean(rules, p)
         ELSE SshReachable(rules, p)
  PROVE  Firm(rules, p)
<1>1. /\ AnyPort \notin Ports /\ AnyPort # SshName /\ Anywhere \notin Addrs
      /\ DenyPorts \subseteq Ports /\ Anywhere \notin Denied /\ Named \subseteq Addrs
      /\ Named \cap Denied = {} /\ Addrs \ Denied # {}
  BY AccessAssumption, GuardAssumption, DeniedTyped DEF LockoutScope
<1>2. ASSUME NEW r \in Elems(rules), r.act = "allow", MatchesSsh(r, p)
      PROVE  \E a \in Addrs \ Denied : r.from \in {a, Anywhere}
  <2>1. Known(r)
    OBVIOUS
  <2>2. r.port # AnyPort
    BY <1>1, <1>2 DEF MatchesSsh
  <2>3. r.from = Anywhere \/ r.from \in Named
    BY <2>1, <2>2, <1>2 DEF Known
  <2> QED BY <2>3, <1>1
<1>3. ASSUME NEW r \in Elems(rules), NEW a \in Addrs \ Denied, Covers(r, a, p)
      PROVE  r.act = "allow" \/ (r.act = "deny" /\ r.from = Anywhere /\ MatchesSsh(r, p))
  <2>1. Known(r) /\ r.act \in {"allow", "deny"}
    BY DEF Known, Rule
  <2>2. SUFFICES ASSUME r.act = "deny" PROVE r.from = Anywhere /\ MatchesSsh(r, p)
    BY <2>1
  <2>3. \/ r.from = Anywhere /\ r.port \in DenyPorts
        \/ r.from \in Denied
    BY <2>1, <2>2 DEF Known
  <2>4. (MatchesSsh(r, p) \/ r.port = AnyPort) /\ r.from \in {a, Anywhere}
    BY <1>3 DEF Covers
  <2> QED BY <2>3, <2>4, <1>1
<1>4. CASE Firewalld
  <2>1. PICK r \in Elems(rules) : r.act = "allow" /\ MatchesSsh(r, p)
    BY <1>4
  <2>2. PICK a \in Addrs \ Denied : r.from \in {a, Anywhere}
    BY <2>1, <1>2
  <2>3. PICK i \in DOMAIN rules : rules[i] = r
    BY DEF Elems
  <2>4. Covers(rules[i], a, p)
    BY <2>1, <2>2, <2>3 DEF Covers
  <2>5. \A j \in DOMAIN rules : Covers(rules[j], a, p) => rules[j].act = "allow"
    <3> SUFFICES ASSUME NEW j \in DOMAIN rules, Covers(rules[j], a, p)
                 PROVE  rules[j].act = "allow"
      OBVIOUS
    <3>1. rules[j] \in Elems(rules)
      BY DEF Elems
    <3>2. ~(rules[j].act = "deny" /\ rules[j].from = Anywhere /\ MatchesSsh(rules[j], p))
      BY <3>1, <1>4 DEF Clean
    <3> QED BY <3>1, <3>2, <1>3
  <2>6. FirewalldLets(rules, TRUE, a, p)
    BY <2>4, <2>5 DEF FirewalldLets
  <2> QED BY <2>6, <1>4 DEF Firm, LetsIn
<1>5. CASE ~Firewalld
  <2>1. PICK i \in DOMAIN rules :
          /\ rules[i].act = "allow" /\ MatchesSsh(rules[i], p)
          /\ \A j \in 1..(i - 1) :
               ~(rules[j].act = "deny" /\ MatchesSsh(rules[j], p) /\ rules[j].from = Anywhere)
    BY <1>5 DEF SshReachable
  <2>2. rules[i] \in Elems(rules)
    BY DEF Elems
  <2>3. PICK a \in Addrs \ Denied : rules[i].from \in {a, Anywhere}
    BY <2>1, <2>2, <1>2
  <2>4. \A j \in 1..(i - 1) : j \in DOMAIN rules
    OBVIOUS
  <2>5. \A j \in 1..(i - 1) : Covers(rules[j], a, p) => rules[j].act = "allow"
    <3> SUFFICES ASSUME NEW j \in 1..(i - 1), Covers(rules[j], a, p)
                 PROVE  rules[j].act = "allow"
      OBVIOUS
    <3>1. rules[j] \in Elems(rules)
      BY <2>4 DEF Elems
    <3> QED BY <3>1, <2>1, <1>3
  <2>6. UfwLets(rules, TRUE, a, p)
    BY <2>1, <2>3, <2>5 DEF UfwLets, Covers
  <2> QED BY <2>6, <1>5 DEF Firm, LetsIn
<1> QED BY <1>4, <1>5

LEMMA ReachableRule ==
  ASSUME NEW rules, NEW p, SshReachable(rules, p)
  PROVE  \E r \in Elems(rules) : r.act = "allow" /\ MatchesSsh(r, p)
BY DEF SshReachable, Elems

\* What the check finds with the new deny in the list it also finds without.
LEMMA DenySeen ==
  ASSUME NEW rules \in Seq(Rule), NEW d \in Rule, NEW p,
         d.act = "deny", SshReachable(InsertDeny(rules, d), p)
  PROVE  SshReachable(rules, p)
<1> DEFINE new == InsertDeny(rules, d)
<1>1. PICK k \in DOMAIN new :
        /\ new[k] = d /\ \A i \in DOMAIN new : i < k => new[i].act # "allow"
        /\ DOMAIN new = 1..(Len(rules) + 1)
        /\ \A i \in 1..(k - 1) : new[i] = rules[i]
        /\ \A i \in k..Len(rules) : new[i + 1] = rules[i]
  BY InsertDenyShape
<1>2. PICK i \in DOMAIN new :
        /\ new[i].act = "allow" /\ MatchesSsh(new[i], p)
        /\ \A j \in 1..(i - 1) :
             ~(new[j].act = "deny" /\ MatchesSsh(new[j], p) /\ new[j].from = Anywhere)
  BY DEF SshReachable
<1> HIDE DEF new
<1>n. Len(rules) \in Nat /\ DOMAIN rules = 1..Len(rules)
  OBVIOUS
<1>3. k < i
  <2>1. ~(i < k) /\ i # k
    BY <1>1, <1>2
  <2> QED BY <1>1, <1>n, <2>1
<1>4. i - 1 \in k..Len(rules) /\ (i - 1) + 1 = i /\ i - 1 \in DOMAIN rules
  BY <1>1, <1>3, <1>n
<1>5. rules[i - 1] = new[i]
  BY <1>1, <1>4
<1>6. ASSUME NEW j \in 1..((i - 1) - 1)
      PROVE  ~(rules[j].act = "deny" /\ MatchesSsh(rules[j], p) /\ rules[j].from = Anywhere)
  <2>1. CASE j < k
    <3>1. j \in 1..(k - 1) /\ j \in 1..(i - 1)
      BY <2>1, <1>1, <1>3, <1>n
    <3> QED BY <3>1, <1>1, <1>2
  <2>2. CASE ~(j < k)
    <3>1. j \in k..Len(rules) /\ j + 1 \in 1..(i - 1)
      BY <2>2, <1>1, <1>3, <1>n
    <3> QED BY <3>1, <1>1, <1>2
  <2> QED BY <2>1, <2>2
<1> QED BY <1>2, <1>4, <1>5, <1>6 DEF SshReachable

-----------------------------------------------------------------------------
\* What the theorem rests on.  Outside a reload firewalld uses what it stores, and
\* except between a write of sshd's files and its restart sshd listens on what they
\* say, so that the rules and the port that the check reads are the true ones.
Opening == ~job.force /\ (SetPorting => ~job.dry /\ job.allowFw)

Synced == ~At("fwReload") => fw.run = fw.stored /\ fw.rdeny = fw.sdeny

Heard ==
  /\ pc \notin {"dropIn", "restart", "undo"} => listen = Effective(files)
  /\ SetPorting /\ job.stage = "both"
       /\ pc \in {"edit", "fwReload", "label", "migrate", "ports", "dropIn", "restart"}
     => listen = Effective(job.snap)

NoSshDeny ==
  Firewalld => /\ Clean(fw.stored, FirstPort(files))
               /\ SetPorting => Clean(fw.stored, FirstPort(job.snap))

\* What is still to be changed, once the change that waits for a reload is in use.
Rest == IF At("fwReload") THEN Tail(todo) ELSE todo

Opens(e) == e.op = "add" /\ e.rule.act = "allow"

\* A deny that was let through: of a port that is not sshd's, or of one address.
Spares(e) ==
  /\ e.op = "add" /\ e.rule.act = "deny" /\ e.rule.port \in Ports
  /\ \/ e.rule.from = Anywhere /\ (fw.active => ~MatchesSsh(e.rule, SshPort))
     \/ e.rule.from \in Denied
  /\ fw.active => Firm(fw.stored, SshPort)

\* The changes that are made and what was checked of them.
Agenda ==
  \/ \A e \in Elems(Rest) : e.op \in {"start", "stop"} \/ Opens(e)
  \/ job.cmd = "denyIp" /\ \A e \in Elems(Rest) :
                              Opens(e) \/ (e.op = "add" /\ e.rule.from # Anywhere)
  \/ job.cmd = "deny" /\ \A e \in Elems(Rest) : Opens(e) \/ Spares(e)
  \/ /\ Len(Rest) = 1 /\ Rest[1].op = "del"
     /\ fw.active => Firm(Without(fw.stored, Rest[1].rule), SshPort)
  \/ /\ Len(Rest) = 1 /\ Rest[1].op = "policy"
     /\ fw.active /\ Rest[1].deny /\ ~fw.sdeny => Firm(fw.stored, SshPort)

\* What a reload of firewalld is about to take into use.
ReloadSafe ==
  At("fwReload") /\ job.cmd # "denyIp" =>
    \/ Firm(fw.stored, SshPort)
    \/ \A p \in Ports : OpenIn(fw.run, fw.rdeny, p) => OpenIn(fw.stored, fw.sdeny, p)

LEMMA MigratedSame ==
  ASSUME Typed, NEW f \in FilesSet
  PROVE  Effective(Migrated(f)) = Effective(f) /\ FirstPort(Migrated(f)) = FirstPort(f)
<1> DEFINE more == Kept(f.legacy, Ports \ Elems(f.managed))
           g == Migrated(f)
<1>1. /\ g.legacy = <<>> /\ g.dropIn = f.dropIn /\ g.managed = f.managed \o more
      /\ Elems(g.managed) = Elems(f.managed) \cup Elems(f.legacy)
  BY MigratedTyped
<1>2. f.managed \in Seq(Ports) /\ f.legacy \in Seq(Ports)
  BY DEF FilesSet
<1>3. Elems(<<>>) = {}
  BY ElemsShort
<1>4. more \in Seq(Ports)
  BY <1>2, KeptShape
<1>5. f.managed = <<>> => more = f.legacy
  <2>1. Elems(f.legacy) \subseteq Ports
    BY <1>2 DEF Elems
  <2>2. f.managed = <<>> => Elems(f.legacy) \subseteq Ports \ Elems(f.managed)
    BY <2>1, <1>3
  <2> QED BY <2>2, <1>2, KeptAll
<1> HIDE DEF more, g
<1>6. Effective(g) = Effective(f)
  BY <1>1, <1>3 DEF Effective
<1>7. FirstPort(g) = FirstPort(f)
  <2>1. CASE f.managed = <<>>
    <3>1. g.managed = f.legacy
      BY <2>1, <1>1, <1>2, <1>5
    <3> QED BY <2>1, <3>1, <1>1 DEF FirstPort
  <2>2. CASE f.managed # <<>>
    <3>1. f.managed \o more # <<>> /\ (f.managed \o more)[1] = f.managed[1]
      BY <2>2, <1>2, <1>4
    <3> QED BY <2>2, <3>1, <1>1 DEF FirstPort
  <2> QED BY <2>1, <2>2
<1> QED BY <1>6, <1>7 DEF g

\* Without --force a check that passes on an active firewall finds rules that let
\* somebody in on sshd's port, whatever the policy is.
LEMMA GuardFirm ==
  ASSUME LockoutScope, Typed, RulesKnown, NoSshDeny, fw.active, fw.run = fw.stored
  PROVE  /\ SshReachable(Listed, SshPort) => Firm(fw.stored, SshPort)
         /\ \A r : SshReachable(Without(Listed, r), SshPort)
                     => Firm(Without(fw.stored, r), SshPort)
<1>1. /\ SshPort \in Ports /\ SshPort = FirstPort(files) /\ fw \in FwSet
      /\ fw.stored \in Seq(Rule) /\ Listed \in Seq(Rule)
      /\ Elems(Listed) = Elems(fw.stored) /\ (~Firewalld => Listed = fw.stored)
  BY CurrentPortsTyped, ListedTyped DEF Typed, FwSet
<1>2. /\ \A r \in Elems(fw.stored) : Known(r)
      /\ Firewalld => Clean(fw.stored, SshPort)
  BY <1>1 DEF RulesKnown, NoSshDeny
<1>3. SshReachable(Listed, SshPort) => Firm(fw.stored, SshPort)
  BY <1>1, <1>2, ReachableFirm, ReachableRule
<1>4. ASSUME NEW r, SshReachable(Without(Listed, r), SshPort)
      PROVE  Firm(Without(fw.stored, r), SshPort)
  <2> DEFINE left == Without(fw.stored, r)
  <2>1. left \in Seq(Rule) /\ Elems(left) = Elems(fw.stored) \ {r}
        /\ Elems(Without(Listed, r)) = Elems(Listed) \ {r}
    BY <1>1, WithoutTyped
  <2>2. ~Firewalld => Without(Listed, r) = left
    BY <1>1
  <2> HIDE DEF left
  <2>3. \E x \in Elems(left) : x.act = "allow" /\ MatchesSsh(x, SshPort)
    <3>1. \E x \in Elems(Without(Listed, r)) : x.act = "allow" /\ MatchesSsh(x, SshPort)
      BY <1>4, ReachableRule
    <3> QED BY <3>1, <2>1, <1>1
  <2>4. Firewalld => Clean(left, SshPort)
    BY <1>2, <2>1 DEF Clean
  <2>5. ~Firewalld => SshReachable(left, SshPort)
    BY <1>4, <2>2
  <2>6. \A x \in Elems(left) : Known(x)
    BY <1>2, <2>1
  <2>7. Firm(left, SshPort)
    BY <1>1, <2>1, <2>3, <2>4, <2>5, <2>6, ReachableFirm
  <2> QED BY <2>7 DEF left
<1> QED BY <1>3, <1>4

\* sshd listens on the first port of its configuration.
LEMMA FirstHeard ==
  ASSUME Typed, NEW f \in FilesSet, host.socket => Tidy(f)
  PROVE  FirstPort(f) \in Effective(f)
<1>1. /\ f.managed \in Seq(Ports) /\ f.legacy \in Seq(Ports) /\ f.dropIn \in Seq(Ports)
      /\ host.main \in Seq(Ports)
  BY PortLists DEF FilesSet
<1>2. \A s \in Seq(Ports) : s # <<>> => s[1] \in Elems(s)
  <2>1. \A s \in Seq(Ports) : s # <<>> => 1 \in DOMAIN s
    OBVIOUS
  <2> QED BY <2>1 DEF Elems
<1>3. Elems(<<>>) = {}
  BY ElemsShort
<1>4. CASE host.socket /\ f.dropIn # <<>>
  <2>1. f.managed # <<>> /\ Elems(f.managed) \subseteq Elems(f.dropIn)
    BY <1>4 DEF Tidy
  <2> QED BY <2>1, <1>1, <1>2, <1>4 DEF FirstPort, Effective
<1>5. CASE ~(host.socket /\ f.dropIn # <<>>)
  <2> DEFINE all == Elems(host.main) \cup Elems(f.managed) \cup Elems(f.legacy)
  <2>1. Effective(f) = IF all = {} THEN {DefaultPort} ELSE all
    BY <1>5 DEF Effective
  <2>2. CASE f.managed # <<>> \/ f.legacy # <<>> \/ host.main # <<>>
    <3>1. FirstPort(f) \in all
      BY <2>2, <1>1, <1>2 DEF FirstPort
    <3> QED BY <2>1, <3>1
  <2>3. CASE f.managed = <<>> /\ f.legacy = <<>> /\ host.main = <<>>
    BY <2>1, <2>3, <1>3 DEF FirstPort
  <2> QED BY <2>2, <2>3
<1> QED BY <1>4, <1>5

-----------------------------------------------------------------------------
\* The job that sshd's part goes on with.
LEMMA SshdJob ==
  ASSUME Typed, Flow, SshdStep
  PROVE  \/ \E r \in {"ok", "error"} : Exit(r)
         \/ job' = job /\ todo' = todo /\ outcome' = outcome
         \/ Stage("new", "ports") /\ (At("ports") \/ At("banner")) /\ job.close
         \/ At("closeFw") /\ CloseNext
<1>g. \A p : Goto(p) => job' = job /\ todo' = todo /\ outcome' = outcome
  BY DEF Goto
<1>n. NotWritten => Exit("error") \/ Goto("undo")
  BY DEF NotWritten
<1>l. Listening => \/ Exit("ok") \/ Goto("restart") \/ Goto("closeFw")
                   \/ job.close /\ Stage("new", "ports")
  BY DEF Listening
<1>1. CASE WritePorts
  BY <1>1, <1>g, <1>n, <1>l DEF WritePorts
<1>2. CASE WriteDropIn \/ RestartSshd
  BY <1>2, <1>g, <1>n DEF WriteDropIn, RestartSshd
<1>3. CASE CheckBanner
  BY <1>3, <1>g DEF CheckBanner
<1>4. CASE ApplyDirective \/ LabelPort \/ MigrateLegacy \/ UndoPort
  BY <1>4, <1>g DEF ApplyDirective, LabelPort, MigrateLegacy, UndoPort
<1>5. CASE CloseFirewall
  BY <1>5 DEF CloseFirewall, CloseNext
<1> QED BY <1>1, <1>2, <1>3, <1>4, <1>5 DEF SshdStep

LEMMA OpeningStep ==
  ASSUME LockoutScope, Typed, Flow, Opening, [Next]_vars
  PROVE  Opening'
<1>s. ForceIn = {} /\ CloseWith \subseteq {TRUE} /\ DryIn \subseteq {FALSE}
  BY DEF LockoutScope
<1>o. ~job.force /\ (job.cmd = "setPort" => ~job.dry /\ job.allowFw)
  BY DEF Opening, SetPorting
<1>k. ASSUME job'.force = job.force, job'.cmd = job.cmd, job'.dry = job.dry,
             job'.allowFw = job.allowFw
      PROVE  Opening'
  BY <1>k, <1>o DEF Opening, SetPorting
<1>n. ASSUME ~job'.force, job'.cmd # "setPort" PROVE Opening'
  BY <1>n DEF Opening, SetPorting
<1>e. \A r : Exit(r) => Opening'
  <2>1. \A r : Exit(r) => ~job'.force /\ job'.cmd # "setPort"
    BY DEF Exit, NoJob
  <2> QED BY <2>1, <1>n
<1>1. CASE UNCHANGED vars \/ Reboot
  BY <1>1, <1>k DEF vars, Reboot
<1>2. CASE FirewallStart
  <2>1. PICK c \in AllCommands \ {"setPort", "directive"}, force \in BOOLEAN, j \in JobSet,
             edits \in Seq(EditType) :
          IsPlain(j, c, force) /\ Begin(j, edits, "edit") /\ force \in Forces(c)
    BY <1>2, PlainStart
  <2>2. force = FALSE
    BY <2>1, <1>s DEF Forces
  <2>3. job' = j /\ j.force = FALSE /\ j.cmd # "setPort"
    BY <2>1, <2>2 DEF Begin, IsPlain
  <2> QED BY <2>3, <1>n
<1>3. CASE Directive
  <2>1. ~job'.force /\ job'.cmd # "setPort"
    BY <1>3 DEF Directive, NoJob
  <2> QED BY <2>1, <1>n
<1>4. CASE SetPort
  <2>1. PICK j \in JobSet, edits \in Seq(EditType), first \in {"edit", "ports", "label"} :
          IsPort(j) /\ Begin(j, edits, first)
    BY <1>4, PortStart
  <2>2. job' = j /\ j.allowFw = TRUE /\ j.dry = FALSE /\ j.force = (j.close /\ ~j.allowFw)
    BY <2>1, <1>s DEF Begin, IsPort
  <2> QED BY <2>2 DEF Opening, SetPorting
<1>5. CASE FirewallStep
  <2>1. (\E r \in {"ok", "error"} : Exit(r)) \/ job' = job
    BY <1>5, FirewallMoves
  <2> QED BY <2>1, <1>e, <1>k
<1>6. CASE SshdStep
  <2>1. CASE Stage("new", "ports")
    <3>1. /\ job'.force = job.force /\ job'.cmd = job.cmd
          /\ job'.dry = job.dry /\ job'.allowFw = job.allowFw
      BY <2>1 DEF Stage, Typed, JobSet
    <3> QED BY <3>1, <1>k
  <2>2. CASE CloseNext
    <3>1. /\ job'.force = job.force /\ job'.cmd = job.cmd
          /\ job'.dry = job.dry /\ job'.allowFw = job.allowFw
      BY <2>2 DEF CloseNext, Typed, JobSet
    <3> QED BY <3>1, <1>k
  <2> QED BY <1>6, <2>1, <2>2, <1>e, <1>k, SshdJob
<1>7. CASE Crash
  BY <1>7, <1>e DEF Crash
<1> QED BY <1>1, <1>2, <1>3, <1>4, <1>5, <1>6, <1>7 DEF Next, SshdStart

LEMMA SyncedStep ==
  ASSUME LockoutScope, Typed, Flow, Synced, [Next]_vars
  PROVE  Synced'
<1>s. "fwReload" \notin FaultKinds /\ "fwReload" \notin CrashAt
  BY DEF LockoutScope
<1>1. CASE UNCHANGED vars
  BY <1>1 DEF vars, Synced, At
<1>2. CASE FirewallStart \/ SshdStart
  <2>1. fw' = fw /\ ~At("fwReload")
    BY <1>2, StartKeeps DEF Idle, At
  <2> QED BY <2>1 DEF Synced
<1>3. CASE EditFirewall
  <2>1. ~At("fwReload")
    BY <1>3, EditMoves DEF At
  <2>2. \A p : Goto(p) => pc' = p
    BY DEF Goto
  <2> QED BY <1>3, <2>1, <2>2, EditMoves DEF Synced, At
<1>4. CASE ReloadFirewall
  BY <1>4, <1>s, ReloadMoves DEF Fault, Synced
<1>5. CASE SshdStep
  <2>1. fw' = fw /\ ~At("fwReload")
    BY <1>5, SshdTodo DEF Editing
  <2> QED BY <2>1 DEF Synced
<1>6. CASE Crash
  <2>1. fw' = fw /\ ~At("fwReload")
    BY <1>6, <1>s DEF Crash, At
  <2> QED BY <2>1 DEF Synced
<1>7. CASE Reboot
  BY <1>7, RebootMoves DEF Synced
<1> QED
  BY <1>1, <1>2, <1>3, <1>4, <1>5, <1>6, <1>7 DEF Next, FirewallStep

LEMMA HeardStep ==
  ASSUME LockoutScope, Typed, Flow, Opening, Heard, [Next]_vars
  PROVE  Heard'
<1>s. /\ "undo" \notin FaultKinds
      /\ {"dropIn", "restart", "undo"} \cap CrashAt = {}
  BY DEF LockoutScope
<1>h. host' = host
  BY TypedStep
<1>f. \A f : Effective(f)' = Effective(f)
  BY <1>h DEF Effective
<1>p. Effective(files)' = Effective(files')
  BY <1>h DEF Effective
<1>q. Effective(job.snap)' = Effective(job'.snap)
  BY <1>h DEF Effective
<1>m. Effective(Migrated(files)) = Effective(files) /\ files \in FilesSet
  BY MigratedSame DEF Typed
<1>t. job.stage \in {"both", "new"} /\ job.then \in {"exit", "label", "closeFw"}
  BY DEF Typed, JobSet
<1>e. ASSUME NEW r, Exit(r), listen' = Effective(files') PROVE Heard'
  BY <1>e, <1>p, EndedJob DEF Heard, SetPorting
<1>1. CASE UNCHANGED vars
  BY <1>1, <1>p, <1>q DEF vars, Heard, SetPorting
<1>2. CASE FirewallStart \/ SshdStart
  <2>1. listen' = listen /\ listen = Effective(files)
    BY <1>2, StartMeets DEF Heard, Idle
  <2>2. CASE job'.cmd # "setPort" /\ files' \in {files, Migrated(files)}
    BY <2>1, <2>2, <1>m, <1>p DEF Heard, SetPorting
  <2>3. CASE files' = files /\ job'.snap = files
    BY <2>1, <2>3, <1>p, <1>q DEF Heard, SetPorting
  <2> QED BY <1>2, <2>2, <2>3, StartMeets
<1>3. CASE FirewallStep
  <2>1. files' = files /\ listen' = listen /\ listen = Effective(files)
    BY <1>3, FirewallMoves DEF Heard, Editing, At
  <2>2. CASE \E r \in {"ok", "error"} : Exit(r)
    BY <2>1, <2>2, <1>e
  <2>3. CASE pc' \in {"edit", "fwReload", job.then} /\ UNCHANGED <<job, outcome>>
    <3>1. pc \in {"edit", "fwReload"}
      BY <1>3, FirewallMoves DEF Editing, At
    <3> QED BY <2>1, <2>3, <3>1, <1>p, <1>q DEF Heard, SetPorting
  <2> QED BY <1>3, <2>2, <2>3, FirewallMoves
<1>4. CASE SshdStep
  \* A step to p of the same job that leaves sshd alone.
  <2>g. ASSUME NEW p, Goto(p), listen' = listen,
               \/ p \in {"dropIn", "restart", "undo"} \/ listen = Effective(files'),
               \/ p \in {"undo", "closeFw", "banner"}
               \/ pc \in {"edit", "fwReload", "label", "migrate", "ports", "dropIn", "restart"}
        PROVE  Heard'
    <3>1. pc' = p /\ job' = job
      BY <2>g DEF Goto
    <3> QED BY <2>g, <3>1, <1>p, <1>q DEF Heard, SetPorting
  <2>s. ASSUME Stage("new", "ports"), At("ports") \/ At("banner"), job.close, listen' = listen,
               listen = Effective(files')
        PROVE  Heard'
    <3>1. job'.stage = "new" /\ pc' = "ports"
      BY <2>s, <1>h, StageKeeps DEF Stage
    <3> QED BY <2>s, <3>1, <1>p DEF Heard
  <2>n. ASSUME NotWritten, At("ports") \/ At("dropIn"), listen' = listen PROVE Heard'
    <3>1. CASE job.stage = "both"
      <4>1. SetPorting
        BY <2>n DEF Flow, At
      <4>2. listen = Effective(job.snap)
        BY <2>n, <3>1, <4>1 DEF Heard, At
      <4>3. files' = job.snap /\ Exit("error")
        BY <2>n, <3>1 DEF NotWritten, RestoreFiles
      <4> QED BY <2>n, <4>2, <4>3, <1>e
    <3>2. CASE job.stage # "both"
      <4>1. Goto("undo")
        BY <2>n, <3>2 DEF NotWritten
      <4> QED BY <2>n, <4>1, <2>g
    <3> QED BY <3>1, <3>2
  <2>1. CASE ApplyDirective
    <3>1. /\ At("applied") /\ files' = files /\ (Exit("ok") \/ Exit("error"))
          /\ listen' \in {listen, Effective(files)}
      BY <2>1 DEF ApplyDirective
    <3>2. listen = Effective(files)
      BY <3>1 DEF Heard, At
    <3> QED BY <3>1, <3>2, <1>e
  <2>2. CASE LabelPort
    <3>1. At("label") /\ files' = files /\ listen' = listen /\ (Exit("error") \/ Goto("migrate"))
      BY <2>2 DEF LabelPort
    <3>2. listen = Effective(files) /\ pc = "label"
      BY <3>1 DEF Heard, At
    <3> QED BY <3>1, <3>2, <2>g, <1>e
  <2>3. CASE MigrateLegacy
    <3>1. /\ At("migrate") /\ files' \in {files, Migrated(files)} /\ listen' = listen
          /\ (Exit("error") \/ Goto("ports"))
      BY <2>3 DEF MigrateLegacy
    <3>2. listen = Effective(files) /\ pc = "migrate"
      BY <3>1 DEF Heard, At
    <3>3. listen = Effective(files')
      BY <3>1, <3>2, <1>m
    <3> QED BY <3>1, <3>2, <3>3, <2>g, <1>e
  <2>4. CASE WritePorts
    <3>1. At("ports") /\ listen' = listen /\ pc = "ports" /\ ~job.dry
      BY <2>4 DEF WritePorts, At, Flow, Opening
    <3>2. NotWritten \/ Goto("dropIn") \/ Goto("restart")
      BY <2>4, <3>1 DEF WritePorts, Listening
    <3> QED BY <3>1, <3>2, <2>g, <2>n
  <2>5. CASE WriteDropIn
    <3>1. At("dropIn") /\ listen' = listen /\ pc = "dropIn"
      BY <2>5 DEF WriteDropIn, At
    <3>2. NotWritten \/ Goto("restart")
      BY <2>5 DEF WriteDropIn
    <3> QED BY <3>1, <3>2, <2>g, <2>n
  <2>6. CASE RestartSshd
    <3>1. CASE listen' = Effective(files) /\ files' = files /\ Goto("banner")
      <4>1. pc' = "banner"
        BY <3>1 DEF Goto
      <4> QED BY <3>1, <4>1, <1>p DEF Heard
    <3>2. CASE listen' = listen /\ Goto("undo")
      BY <3>2, <2>g
    <3> QED BY <2>6, <3>1, <3>2 DEF RestartSshd
  <2>7. CASE CheckBanner
    <3>1. At("banner") /\ listen' = listen /\ files' = files
      BY <2>7 DEF CheckBanner
    <3>2. listen = Effective(files)
      BY <3>1 DEF Heard, At
    <3>3. \/ Goto("undo") \/ Goto("closeFw") \/ Exit("ok")
          \/ (job.close /\ Stage("new", "ports"))
      BY <2>7 DEF CheckBanner
    <3> QED BY <3>1, <3>2, <3>3, <2>g, <2>s, <1>e
  <2>8. CASE UndoPort
    <3>1. At("undo") /\ SetPorting /\ ~job.dry
      BY <2>8 DEF UndoPort, Flow, At, Opening
    <3>2. listen' = Effective(files') /\ Exit("error")
      BY <2>8, <3>1, <1>s DEF UndoPort, Fault
    <3> QED BY <3>2, <1>e
  <2>9. CASE CloseFirewall
    <3>1. At("closeFw") /\ files' = files /\ listen' = listen
      BY <2>9 DEF CloseFirewall
    <3>2. listen = Effective(files) /\ job.stage = "new"
      BY <3>1 DEF Heard, At, Flow
    <3>3. CASE CloseNext
      <4>1. job'.stage = "new" /\ pc' = "edit"
        BY <3>1, <3>2, <3>3, ClosePlans
      <4> QED BY <3>1, <3>2, <4>1, <1>p DEF Heard
    <3>4. Exit("ok") \/ Exit("error") \/ CloseNext
      BY <2>9 DEF CloseFirewall, CloseNext
    <3> QED BY <3>1, <3>2, <3>3, <3>4, <1>e
  <2> QED BY <1>4, <2>1, <2>2, <2>3, <2>4, <2>5, <2>6, <2>7, <2>8, <2>9 DEF SshdStep
<1>5. CASE Crash
  <2>1. /\ Exit("crashed") /\ files' = files /\ listen' = listen
        /\ pc \notin {"dropIn", "restart", "undo"}
    BY <1>5, <1>s DEF Crash
  <2> QED BY <2>1, <1>e DEF Heard
<1>6. CASE Reboot
  <2>1. pc' = "idle" /\ files' = files /\ listen' = Effective(files) /\ job' = job
    BY <1>6, RebootMoves DEF Idle
  <2> QED BY <2>1, <1>p DEF Heard
<1> QED BY <1>1, <1>2, <1>3, <1>4, <1>5, <1>6 DEF Next

\* The first port of sshd's files after a step.
LEMMA FirstMoves ==
  ASSUME Typed, Flow, Remembers, [Next]_vars
  PROVE  \/ FirstPort(files') = FirstPort(files)
         \/ SetPorting /\ FirstPort(files') \in {FirstPort(job.snap), job.port}
<1>m. FirstPort(Migrated(files)) = FirstPort(files)
  BY MigratedSame DEF Typed
<1>1. CASE FirewallStart \/ SshdStart
  BY <1>1, <1>m, StartKeeps
<1>2. CASE FirewallStep
  BY <1>2, FirewallMoves
<1>3. CASE Crash \/ Reboot \/ UNCHANGED vars
  BY <1>3 DEF Crash, Reboot, vars
<1>4. CASE SshdStep
  <2>1. CASE files' \in {files, Migrated(files)}
    BY <2>1, <1>m
  <2>2. CASE files' # files /\ files' # Migrated(files)
    <3>1. SetPorting
      BY <1>4, <2>2 DEF SshdStep, ApplyDirective, LabelPort, MigrateLegacy, WritePorts,
         WriteDropIn, RestartSshd, CheckBanner, UndoPort, CloseFirewall, Flow, At
    <3>2. CASE files' = job.snap
      BY <3>1, <3>2
    <3>3. CASE files' = [files EXCEPT !.managed = Wanted]
      <4>1. files'.managed = Wanted
        BY <3>3, FilesWritten
      <4>2. Wanted # <<>> /\ FirstPort(files') = Wanted[1]
        BY <4>1, WantedTyped DEF FirstPort
      <4>3. CASE job.stage = "new"
        <5>1. Wanted = <<job.port>> /\ <<job.port>>[1] = job.port
          BY <4>3, WantedTyped
        <5> QED BY <3>1, <4>2, <5>1
      <4>4. CASE job.stage = "both"
        <5>1. /\ job.old = PortsIn(job.snap) /\ job.old \in Seq(Ports) /\ job.port \in Ports
              /\ job.snap \in FilesSet
          BY <3>1, <4>4 DEF Remembers, Typed, JobSet
        <5>2. job.old # <<>> /\ job.old[1] = FirstPort(job.snap)
          <6>1. <<DefaultPort>> # <<>> /\ <<DefaultPort>>[1] = DefaultPort
            OBVIOUS
          <6> QED BY <5>1, <6>1 DEF PortsIn, FirstPort
        <5>3. Append(job.old, job.port)[1] = job.old[1]
          <6>1. Append(job.old, job.port) = job.old \o <<job.port>> /\ 1 \in 1..Len(job.old)
                /\ \A i \in 1..Len(job.old) : (job.old \o <<job.port>>)[i] = job.old[i]
            <7>1. 1 \in 1..Len(job.old)
              BY <5>1, <5>2
            <7> QED BY <5>1, <7>1, OneMore
          <6> QED BY <6>1
        <5>4. Wanted[1] = job.old[1]
          BY <4>4, <5>3 DEF Wanted
        <5> QED BY <3>1, <4>2, <5>2, <5>4
      <4> QED BY <4>3, <4>4 DEF Typed, JobSet
    <3>4. CASE files' = [files EXCEPT !.dropIn = Wanted]
      BY <3>4, FilesWritten DEF FirstPort
    <3> QED BY <1>4, <2>2, <3>2, <3>3, <3>4, SshdKeeps
  <2> QED BY <2>1, <2>2
<1> QED BY <1>1, <1>2, <1>3, <1>4 DEF Next

\* No command denies the port that set-port is given.
LEMMA NewClean ==
  ASSUME LockoutScope, RulesKnown, Opened, SetPorting
  PROVE  Clean(fw.stored, job.port)
<1>1. /\ job.port \in NewPorts /\ job.port \notin DenyPorts /\ DenyPorts \subseteq Ports
      /\ AnyPort \notin Ports /\ SshName \notin Ports /\ AnyPort # SshName
      /\ Anywhere \notin Denied /\ NewPorts \subseteq Ports
  BY AccessAssumption, GuardAssumption, DeniedTyped DEF LockoutScope, Opened
<1>2. \A r \in Elems(fw.stored) : Known(r)
  BY DEF RulesKnown
<1> QED BY <1>1, <1>2 DEF Clean, Known, MatchesSsh

\* What an edit does to the ways in: the agenda says of each what was checked.
Checked(e) ==
  \/ Opens(e)
  \/ Spares(e)
  \/ e.op = "del" /\ (fw.active => Firm(Without(fw.stored, e.rule), SshPort))
  \/ e.op = "policy" /\ (fw.active /\ e.deny /\ ~fw.sdeny => Firm(fw.stored, SshPort))

LEMMA SparesKeeps ==
  ASSUME fw \in FwSet, NEW e \in EditType, Spares(e), fw.active
  PROVE  Firm(EditedRules(e), SshPort)
<1>1. /\ e.op = "add" /\ e.rule \in Rule /\ e.rule.port \in Ports
      /\ Firm(fw.stored, SshPort) /\ fw.stored \in Seq(Rule)
      /\ ~MatchesSsh(e.rule, SshPort) \/ e.rule.from \in Denied
  BY DEF Spares, EditType, FwSet
<1>2. \A a \in Addrs \ Denied : ~Covers(e.rule, a, SshPort)
  BY <1>1, GuardAssumption, DeniedTyped DEF Covers
<1>3. PICK a \in Addrs \ Denied : LetsIn(fw.stored, TRUE, a, SshPort)
  BY <1>1 DEF Firm
<1>4. LetsIn(WithRule(fw.stored, e.rule), TRUE, a, SshPort)
  BY <1>1, <1>2, <1>3, ApartKeeps
<1> QED BY <1>1, <1>4 DEF EditedRules, Firm

LEMMA OpensFirm ==
  ASSUME fw \in FwSet, NEW e \in EditType, Opens(e), Firm(fw.stored, SshPort)
  PROVE  Firm(EditedRules(e), SshPort)
<1>1. e.op = "add" /\ e.rule \in Rule /\ e.rule.act = "allow" /\ fw.stored \in Seq(Rule)
  BY DEF Opens, EditType, FwSet
<1>2. PICK a \in Addrs \ Denied : LetsIn(fw.stored, TRUE, a, SshPort)
  BY DEF Firm
<1>3. LetsIn(WithRule(fw.stored, e.rule), TRUE, a, SshPort)
  BY <1>1, <1>2, AllowMonotone
<1> QED BY <1>1, <1>3 DEF EditedRules, Firm

LEMMA OpensKeeps ==
  ASSUME fw \in FwSet, NEW e \in EditType, Opens(e), NEW deny \in BOOLEAN, NEW p,
         OpenIn(fw.stored, deny, p)
  PROVE  OpenIn(EditedRules(e), deny, p)
<1>1. e.op = "add" /\ e.rule \in Rule /\ e.rule.act = "allow" /\ fw.stored \in Seq(Rule)
  BY DEF Opens, EditType, FwSet
<1>2. PICK a \in Addrs : LetsIn(fw.stored, deny, a, p)
  BY DEF OpenIn
<1>3. LetsIn(WithRule(fw.stored, e.rule), deny, a, p)
  BY <1>1, <1>2, AllowMonotone
<1> QED BY <1>1, <1>3 DEF EditedRules, OpenIn

LEMMA EditSafe ==
  ASSUME fw \in FwSet, NEW e \in EditType, Checked(e), fw.active
  PROVE  \/ Firm(EditedRules(e), SshPort)
         \/ \A p \in Ports : OpenIn(fw.stored, fw.sdeny, p)
                               => OpenIn(EditedRules(e), EditedDeny(e), p)
<1>t. fw.sdeny \in BOOLEAN /\ e.deny \in BOOLEAN
  BY DEF FwSet, EditType
<1>1. CASE Opens(e)
  <2>1. EditedDeny(e) = fw.sdeny
    BY <1>1 DEF Opens, EditedDeny
  <2> QED BY <1>1, <1>t, <2>1, OpensKeeps
<1>2. CASE Spares(e)
  BY <1>2, SparesKeeps
<1>3. CASE e.op = "del" /\ Firm(Without(fw.stored, e.rule), SshPort)
  BY <1>3 DEF EditedRules
<1>4. CASE e.op = "policy" /\ (e.deny /\ ~fw.sdeny => Firm(fw.stored, SshPort))
  <2>1. EditedRules(e) = fw.stored /\ EditedDeny(e) = e.deny
    BY <1>4 DEF EditedRules, EditedDeny
  <2>2. CASE e.deny = fw.sdeny
    BY <2>1, <2>2
  <2>3. CASE e.deny /\ ~fw.sdeny
    BY <1>4, <2>1, <2>3
  <2>4. CASE ~e.deny
    <3>1. e.deny = FALSE /\ fw.sdeny \in {TRUE, FALSE}
      BY <2>4, <1>t
    <3>2. \A p \in Ports, a \in Addrs :
            LetsIn(fw.stored, fw.sdeny, a, p) => LetsIn(fw.stored, FALSE, a, p)
      BY <3>1, DenyNarrows
    <3> QED BY <2>1, <3>1, <3>2 DEF OpenIn
  <2> QED BY <1>t, <2>2, <2>3, <2>4
<1> QED BY <1>1, <1>2, <1>3, <1>4 DEF Checked

-----------------------------------------------------------------------------
\* Rules let in after a step what they let in before it, and so does what was
\* checked of a change.
LEMMA SameWay ==
  ASSUME host' = host
  PROVE  /\ \A rules, p : Firm(rules, p)' <=> Firm(rules, p)
         /\ \A rules, deny, p : OpenIn(rules, deny, p)' <=> OpenIn(rules, deny, p)
         /\ Firm(fw.stored, SshPort)' <=> Firm(fw'.stored, SshPort')
         /\ \A r : Firm(Without(fw.stored, r), SshPort)' <=> Firm(Without(fw'.stored, r), SshPort')
BY DEF Firm, OpenIn, LetsIn, Firewalld

LEMMA SameFiles ==
  ASSUME host' = host, files' = files
  PROVE  SshPort' = SshPort
BY DEF SshPort, CurrentPorts

LEMMA SparesAfter ==
  ASSUME host' = host, files' = files, fw'.active = fw.active, NEW e, Spares(e),
         fw.active => Firm(fw'.stored, SshPort)
  PROVE  Spares(e)'
<1>1. SshPort' = SshPort
  BY SameFiles
<1>2. Firm(fw.stored, SshPort)' <=> Firm(fw'.stored, SshPort)
  BY <1>1, SameWay
<1> QED BY <1>1, <1>2 DEF Spares

\* What a change of the agenda was checked for, if it is made on an active firewall.
LEMMA AgendaChecked ==
  ASSUME Agenda, At("edit"), todo # <<>>, todo \in Seq(EditType), job.cmd # "denyIp",
         Head(todo).op \notin {"start", "stop"}
  PROVE  Checked(Head(todo))
<1>1. Rest = todo /\ Head(todo) = todo[1]
  BY DEF Rest, At
<1>2. Head(todo) \in Elems(todo)
  BY DEF Elems
<1> QED BY <1>1, <1>2 DEF Agenda, Checked

LEMMA NoSshDenyStep ==
  ASSUME LockoutScope, Typed, Flow, Remembers, RulesKnown, Opened, NoSshDeny, Agenda,
         [Next]_vars
  PROVE  NoSshDeny'
<1>h. host' = host
  BY TypedStep
<1>f. Firewalld' = Firewalld
  BY <1>h DEF Firewalld
<1>p. \A f : FirstPort(f)' = FirstPort(f)
  BY <1>h DEF FirstPort
<1>q. FirstPort(files)' = FirstPort(files') /\ FirstPort(job.snap)' = FirstPort(job'.snap)
  BY <1>h DEF FirstPort
<1>c. Clean(fw.stored, FirstPort(files))' <=> Clean(fw'.stored, FirstPort(files'))
  BY <1>q DEF Clean
<1>d. Clean(fw.stored, FirstPort(job.snap))' <=> Clean(fw'.stored, FirstPort(job'.snap))
  BY <1>q DEF Clean
<1> SUFFICES ASSUME Firewalld
             PROVE  /\ Clean(fw'.stored, FirstPort(files'))
                    /\ SetPorting' => Clean(fw'.stored, FirstPort(job'.snap))
  BY <1>f, <1>c, <1>d DEF NoSshDeny
<1>1. /\ Clean(fw.stored, FirstPort(files))
      /\ SetPorting => Clean(fw.stored, FirstPort(job.snap)) /\ Clean(fw.stored, job.port)
  BY NewClean DEF NoSshDeny
<1>2. Clean(fw.stored, FirstPort(files'))
  BY <1>1, FirstMoves
<1>3. SetPorting' => Clean(fw.stored, FirstPort(job'.snap))
  <2>1. CASE FirewallStart \/ SshdStart
    BY <2>1, <1>1, StartMeets DEF SetPorting
  <2>2. CASE ~(FirewallStart \/ SshdStart)
    <3>1. SetPorting' => SetPorting /\ job'.snap = job.snap
      <4>e. \A r : Exit(r) => ~SetPorting'
        BY EndedJob DEF SetPorting
      <4>1. CASE FirewallStep
        BY <4>1, <4>e, FirewallMoves DEF SetPorting
      <4>2. CASE SshdStep
        <5>1. CASE Stage("new", "ports") /\ (At("ports") \/ At("banner")) /\ job.close
          BY <5>1, <1>h, StageKeeps DEF SetPorting
        <5>2. CASE At("closeFw") /\ CloseNext
          BY <5>2, ClosePlans DEF SetPorting
        <5> QED BY <4>2, <4>e, <5>1, <5>2, SshdJob DEF SetPorting
      <4>3. CASE Crash
        BY <4>3, <4>e DEF Crash
      <4>4. CASE Reboot \/ UNCHANGED vars
        BY <4>4 DEF Reboot, vars, SetPorting
      <4> QED BY <2>2, <4>1, <4>2, <4>3, <4>4 DEF Next
    <3> QED BY <3>1, <1>1
  <2> QED BY <2>1, <2>2
<1>4. CASE fw'.stored = fw.stored
  BY <1>2, <1>3, <1>4
<1>5. CASE fw'.stored # fw.stored
  <2>1. EditFirewall
    <3>1. ~(FirewallStart \/ SshdStart)
      BY <1>5, StartKeeps
    <3>2. ~SshdStep
      BY <1>5, SshdTodo
    <3>3. ~ReloadFirewall
      BY <1>5, ReloadMoves
    <3>4. ~(Reboot \/ Crash \/ UNCHANGED vars)
      BY <1>5, RebootMoves DEF Crash, vars
    <3> QED BY <3>1, <3>2, <3>3, <3>4 DEF Next, FirewallStep
  <2> DEFINE e == Head(todo)
  <2>2. /\ fw'.stored = EditedRules(e) /\ fw.active /\ e.op \notin {"start", "stop"}
        /\ At("edit") /\ todo # <<>> /\ todo \in Seq(EditType) /\ e \in EditType
        /\ job' = job /\ files' = files /\ e \in Elems(todo) /\ e = todo[1]
        /\ fw.stored \in Seq(Rule)
    BY <1>5, <2>1, EditMoves, FirewallMoves DEF Goto, FirewallStep, FwSet
  <2>3. e.rule \in Rule
    BY <2>2 DEF EditType
  <2>4. Rest = todo
    BY <2>2 DEF Rest, At
  <2>p. SshPort = FirstPort(files)
    BY CurrentPortsTyped
  <2> HIDE DEF e
  <2>5. CASE e.op = "add" /\ e.rule.act = "deny" /\ e.rule.from = Anywhere
    <3>1. job.cmd = "deny" /\ Spares(e)
      BY <2>2, <2>4, <2>5 DEF Agenda, Opens
    <3>2. ~MatchesSsh(e.rule, FirstPort(files))
      BY <3>1, <2>2, <2>5, <2>p, DeniedTyped DEF Spares
    <3>3. Elems(EditedRules(e)) \subseteq Elems(fw.stored) \cup {e.rule}
      BY <2>2, <2>3, <2>5, WithRuleTyped DEF EditedRules
    <3>4. Clean(fw'.stored, FirstPort(files'))
      BY <1>1, <2>2, <3>2, <3>3 DEF Clean
    <3>5. ~SetPorting'
      BY <2>2, <3>1 DEF SetPorting
    <3> QED BY <3>4, <3>5
  <2>6. CASE ~(e.op = "add" /\ e.rule.act = "deny" /\ e.rule.from = Anywhere)
    <3>1. \/ Elems(EditedRules(e)) \subseteq Elems(fw.stored)
          \/ e.op = "add" /\ Elems(EditedRules(e)) \subseteq Elems(fw.stored) \cup {e.rule}
      <4>1. CASE e.op = "add"
        BY <2>2, <2>3, <4>1, WithRuleTyped DEF EditedRules
      <4>2. CASE e.op = "del"
        BY <2>2, <4>2, WithoutTyped DEF EditedRules
      <4>3. CASE e.op \notin {"add", "del"}
        BY <4>3 DEF EditedRules
      <4> QED BY <4>1, <4>2, <4>3
    <3>2. \A p : Clean(fw.stored, p) => Clean(fw'.stored, p)
      BY <2>2, <2>6, <3>1 DEF Clean
    <3> QED BY <1>2, <1>3, <3>2
  <2> QED BY <2>5, <2>6
<1> QED BY <1>4, <1>5

\* A process that has nothing left to change has kept its agenda.
LEMMA NothingLeft ==
  ASSUME Elems(Rest') = {}
  PROVE  Agenda'
BY DEF Agenda, Elems, Rest, At

\* After one change the agenda is what follows it.
LEMMA AgendaAfter ==
  ASSUME Typed, Agenda, host' = host, files' = files, job' = job,
         NEW list \in Seq(EditType), list # <<>>, Rest = list, Rest' = Tail(list),
         list[1].op \notin {"start", "stop"} =>
           fw'.stored = EditedRules(list[1]) /\ fw'.active = fw.active
  PROVE  Agenda'
<1> DEFINE e == list[1]
<1>1. e \in EditType /\ e \in Elems(list) /\ fw \in FwSet
  BY DEF Elems, Typed
<1>2. Elems(Tail(list)) \subseteq Elems(list)
  BY ElemsTail
<1>3. Elems(Rest)' = Elems(Rest')
  BY DEF Elems
<1>4. \A x \in Elems(Rest)' : x \in Elems(Rest)
  BY <1>2, <1>3
<1>5. CASE \A x \in Elems(Rest) : x.op \in {"start", "stop"} \/ Opens(x)
  BY <1>4, <1>5 DEF Agenda, Opens
<1>6. CASE /\ job.cmd = "denyIp"
           /\ \A x \in Elems(Rest) : Opens(x) \/ (x.op = "add" /\ x.rule.from # Anywhere)
  BY <1>4, <1>6 DEF Agenda, Opens
<1>7. CASE job.cmd = "deny" /\ \A x \in Elems(Rest) : Opens(x) \/ Spares(x)
  <2>1. Opens(e) \/ Spares(e)
    BY <1>1, <1>7
  <2>2. e.op = "add"
    BY <2>1 DEF Opens, Spares
  <2>3. fw'.stored = EditedRules(e) /\ fw'.active = fw.active
    BY <2>2
  <2>4. ASSUME Firm(fw.stored, SshPort), fw.active PROVE Firm(fw'.stored, SshPort)
    <3>1. CASE Opens(e)
      BY <1>1, <2>3, <2>4, <3>1, OpensFirm
    <3>2. CASE Spares(e)
      BY <1>1, <2>3, <2>4, <3>2, SparesKeeps
    <3> QED BY <2>1, <3>1, <3>2
  <2>5. ASSUME NEW x, Spares(x) PROVE Spares(x)'
    <3>1. fw.active => Firm(fw'.stored, SshPort)
      BY <2>4, <2>5 DEF Spares
    <3> QED BY <2>3, <2>5, <3>1, SparesAfter
  <2>6. \A x : Opens(x)' <=> Opens(x)
    BY DEF Opens
  <2>7. \A x \in Elems(Rest)' : Opens(x)' \/ Spares(x)'
    BY <1>4, <1>7, <2>5, <2>6
  <2>8. (job.cmd = "deny")'
    BY <1>7
  <2> QED BY <2>7, <2>8 DEF Agenda
<1>8. CASE Len(Rest) = 1
  <2>1. Tail(list) = <<>>
    BY <1>8
  <2>2. Elems(Rest') = {}
    BY <2>1, ElemsShort
  <2> QED BY <2>2, NothingLeft
<1> QED BY <1>5, <1>6, <1>7, <1>8 DEF Agenda

\* An agenda that nothing touches but a reload.
LEMMA AgendaStays ==
  ASSUME Agenda, host' = host, files' = files, job' = job, Rest' = Rest,
         fw'.stored = fw.stored, fw'.active = fw.active, fw'.sdeny = fw.sdeny
  PROVE  Agenda'
<1>1. SshPort' = SshPort
  BY SameFiles
<1>2. Firm(fw.stored, SshPort)' <=> Firm(fw.stored, SshPort)
  BY <1>1, SameWay
<1>3. \A r : Firm(Without(fw.stored, r), SshPort)' <=> Firm(Without(fw.stored, r), SshPort)
  BY <1>1, SameWay
<1>4. Firm(Without(fw.stored, Rest[1].rule), SshPort)'
        <=> Firm(Without(fw.stored, Rest[1].rule), SshPort)
  BY <1>1 DEF Firm, OpenIn, LetsIn, Firewalld
<1>5. Elems(Rest)' = Elems(Rest)
  BY DEF Elems
<1>6. \A e : (Opens(e)' <=> Opens(e)) /\ (Spares(e)' <=> Spares(e))
  BY <1>1, <1>2 DEF Opens, Spares
<1>7. CASE \A x \in Elems(Rest) : x.op \in {"start", "stop"} \/ Opens(x)
  BY <1>5, <1>6, <1>7 DEF Agenda
<1>8. CASE /\ job.cmd = "denyIp"
           /\ \A x \in Elems(Rest) : Opens(x) \/ (x.op = "add" /\ x.rule.from # Anywhere)
  BY <1>5, <1>6, <1>8 DEF Agenda
<1>9. CASE job.cmd = "deny" /\ \A x \in Elems(Rest) : Opens(x) \/ Spares(x)
  <2>1. (job.cmd = "deny")'
    BY <1>9
  <2>2. \A x \in Elems(Rest)' : Opens(x)' \/ Spares(x)'
    BY <1>5, <1>6, <1>9
  <2> QED BY <2>1, <2>2 DEF Agenda
<1>10. CASE /\ Len(Rest) = 1 /\ Rest[1].op = "del"
            /\ fw.active => Firm(Without(fw.stored, Rest[1].rule), SshPort)
  <2>1. (Len(Rest) = 1 /\ Rest[1].op = "del")'
    BY <1>10
  <2>2. fw'.active => Firm(Without(fw.stored, Rest[1].rule), SshPort)'
    BY <1>10, <1>4
  <2> QED BY <2>1, <2>2 DEF Agenda
<1>11. CASE /\ Len(Rest) = 1 /\ Rest[1].op = "policy"
            /\ fw.active /\ Rest[1].deny /\ ~fw.sdeny => Firm(fw.stored, SshPort)
  <2>1. (Len(Rest) = 1 /\ Rest[1].op = "policy")'
    BY <1>11
  <2>2. (fw.active /\ Rest[1].deny /\ ~fw.sdeny)' => Firm(fw.stored, SshPort)'
    BY <1>11, <1>2
  <2> QED BY <2>1, <2>2 DEF Agenda
<1> QED BY <1>7, <1>8, <1>9, <1>10, <1>11 DEF Agenda

\* What a command that starts has checked.
LEMMA PlanAgenda ==
  ASSUME LockoutScope, Typed, RulesKnown, NoSshDeny, fw.run = fw.stored,
         NEW c, NEW edits \in Seq(EditType), Plan(c, FALSE, edits),
         host' = host, fw' = fw, files' = files, job'.cmd = c, Rest' = edits
  PROVE  Agenda'
<1>1. /\ SshPort \in Ports /\ Listed \in Seq(Rule)
  BY CurrentPortsTyped, ListedTyped DEF Typed
<1>2. SshPort' = SshPort
  BY SameFiles
<1>3. Firm(fw.stored, SshPort)' <=> Firm(fw.stored, SshPort)
  BY <1>2, SameWay
<1>4. Elems(Rest)' = Elems(edits)
  BY DEF Elems
<1>5. \A e : Opens(e)' <=> Opens(e)
  BY DEF Opens
<1>6. \A e : Adding(e) => Opens(e)
  BY DEF Adding, Opens
<1>7. \A rules : Guard(FALSE, rules) /\ fw.active => SshReachable(rules, SshPort)
  BY DEF Guard
<1>8. fw.active /\ SshReachable(Listed, SshPort) => Firm(fw.stored, SshPort)
  BY GuardFirm
<1>10. ASSUME \A e \in Elems(edits) : e.op \in {"start", "stop"} \/ Adding(e)
       PROVE  Agenda'
  <2>1. \A e \in Elems(Rest)' : e.op \in {"start", "stop"} \/ Opens(e)'
    BY <1>4, <1>5, <1>6, <1>10
  <2> QED BY <2>1 DEF Agenda
<1>11. CASE c = "disable" /\ edits = <<Stop>>
  <2>1. \A e \in Elems(edits) : e.op = "stop"
    BY <1>11, PoliciesTyped, ElemsShort
  <2> QED BY <2>1, <1>10
<1>12. ASSUME NEW pre \in Seq(EditType), NEW d \in Rule, edits = pre \o <<AddRule(d)>>,
              \A e \in Elems(pre) : Adding(e), Known(d), d.act = "deny",
              \/ c = "denyIp" /\ d.from \in Denied
              \/ c = "deny" /\ d.port \in DenyPorts /\ Guard(FALSE, InsertDeny(Listed, d))
       PROVE  Agenda'
  <2>1. AddRule(d) \in EditType /\ AddRule(d).op = "add" /\ AddRule(d).rule = d
    BY EditsTyped DEF AddRule, Edit
  <2>2. Elems(edits) = Elems(pre) \cup {AddRule(d)}
    <3> DEFINE x == AddRule(d)
    <3>1. x \in EditType /\ edits = pre \o <<x>>
      BY <1>12, <2>1
    <3> HIDE DEF x
    <3>2. Elems(pre \o <<x>>) = Elems(pre) \cup {x}
      BY <3>1, ElemsOneMore
    <3> QED BY <3>1, <3>2 DEF x
  <2>3. CASE c = "denyIp" /\ d.from \in Denied
    <3>1. d.from # Anywhere
      BY <2>3, DeniedTyped
    <3>2. \A e \in Elems(Rest)' : Opens(e)' \/ (e.op = "add" /\ e.rule.from # Anywhere)
      BY <3>1, <2>1, <2>2, <1>12, <1>4, <1>5, <1>6
    <3> QED BY <3>2, <2>3 DEF Agenda
  <2>4. CASE c = "deny" /\ d.port \in DenyPorts /\ Guard(FALSE, InsertDeny(Listed, d))
    <3>1. d.port \in Ports
      BY <2>4, AccessAssumption
    <3>d. d.from = Anywhere \/ d.from \in Denied
      <4>1. d.port # AnyPort
        BY <3>1, GuardAssumption
      <4> QED BY <4>1, <1>12 DEF Known
    <3>2. fw.active => /\ Firm(fw.stored, SshPort)
                       /\ d.from = Anywhere => ~MatchesSsh(d, SshPort)
      <4> SUFFICES ASSUME fw.active
                   PROVE  /\ Firm(fw.stored, SshPort)
                          /\ d.from = Anywhere => ~MatchesSsh(d, SshPort)
        OBVIOUS
      <4>1. SshReachable(InsertDeny(Listed, d), SshPort)
        BY <1>7, <2>4
      <4>2. SshReachable(Listed, SshPort)
        BY <4>1, <1>1, <1>12, DenySeen
      <4>3. d.from = Anywhere => ~MatchesSsh(d, SshPort)
        BY <4>1, <1>1, <1>12, AcceptedDenySparesSsh
      <4> QED BY <4>2, <4>3, <1>8
    <3>3. Spares(AddRule(d))'
      BY <3>1, <3>d, <3>2, <2>1, <1>12, <1>2, <1>3 DEF Spares
    <3>4. \A e \in Elems(Rest)' : Opens(e)' \/ Spares(e)'
      BY <3>3, <2>2, <1>12, <1>4, <1>5, <1>6
    <3>5. (job.cmd = "deny")'
      BY <2>4
    <3> QED BY <3>4, <3>5 DEF Agenda
  <2> QED BY <1>12, <2>3, <2>4
<1>13. ASSUME NEW r \in Rule, edits = <<DelRule(r)>>, Guard(FALSE, Without(Listed, r))
       PROVE  Agenda'
  <2>1. DelRule(r).op = "del" /\ DelRule(r).rule = r
    BY DEF DelRule, Edit
  <2> DEFINE x == DelRule(r)
  <2>x. edits = <<x>> /\ x.op = "del" /\ x.rule = r
    BY <1>13, <2>1
  <2> HIDE DEF x
  <2>2. Len(edits) = 1 /\ edits[1] = x
    BY <2>x
  <2>3. fw.active => Firm(Without(fw.stored, r), SshPort)
    BY <1>7, <1>13, GuardFirm
  <2>4. Rest[1]' = x
    BY <2>2
  <2>5. Firm(Without(fw.stored, Rest[1].rule), SshPort)' <=> Firm(Without(fw.stored, r), SshPort)
    BY <1>2, <2>x, <2>4 DEF Firm, OpenIn, LetsIn, Firewalld
  <2>6. (Len(Rest) = 1 /\ Rest[1].op = "del")'
    BY <2>2, <2>4, <2>x
  <2>7. fw'.active => Firm(Without(fw.stored, Rest[1].rule), SshPort)'
    BY <2>3, <2>5
  <2> QED BY <2>6, <2>7 DEF Agenda
<1>14. ASSUME NEW d \in BOOLEAN, edits = <<Policy(d)>>, d /\ ~fw.sdeny => Guard(FALSE, Listed)
       PROVE  Agenda'
  <2> DEFINE x == Policy(d)
  <2>x. edits = <<x>> /\ x.op = "policy" /\ x.deny = d
    BY <1>14, PoliciesTyped
  <2> HIDE DEF x
  <2>2. Len(edits) = 1 /\ edits[1] = x
    BY <2>x
  <2>3. fw.active /\ d /\ ~fw.sdeny => Firm(fw.stored, SshPort)
    BY <1>7, <1>8, <1>14
  <2>6. (Len(Rest) = 1 /\ Rest[1].op = "policy" /\ Rest[1].deny = d)'
    BY <2>2, <2>x
  <2>7. (fw.active /\ Rest[1].deny /\ ~fw.sdeny)' => Firm(fw.stored, SshPort)'
    BY <2>3, <2>6, <1>3
  <2> QED BY <2>6, <2>7 DEF Agenda
<1> QED BY <1>10, <1>11, <1>12, <1>13, <1>14 DEF Plan

LEMMA AgendaStep ==
  ASSUME LockoutScope, Typed, Flow, Opening, Synced, RulesKnown, NoSshDeny, Agenda, [Next]_vars
  PROVE  Agenda'
<1>s. ForceIn = {}
  BY DEF LockoutScope
<1>h. host' = host
  BY TypedStep
<1>t. Typed' /\ Flow'
  BY TypedStep
<1>0. ASSUME todo' = <<>> PROVE Agenda'
  <2>1. ~At("fwReload")'
    BY <1>t, <1>0 DEF Flow, Editing
  <2>2. Rest' = <<>>
    BY <2>1, <1>0 DEF Rest
  <2> QED BY <2>2, ElemsShort, NothingLeft
<1>e. \A r : Exit(r) => Agenda'
  BY <1>0, EndedJob
<1>g. ~At("fwReload") => fw.run = fw.stored
  BY DEF Synced
<1>1. CASE UNCHANGED vars \/ Reboot
  <2>1. /\ files' = files /\ job' = job /\ pc' = pc /\ todo' = todo
        /\ fw'.stored = fw.stored /\ fw'.active = fw.active /\ fw'.sdeny = fw.sdeny
    BY <1>1, RebootMoves DEF vars
  <2>2. Rest' = Rest
    BY <2>1 DEF Rest, At
  <2> QED BY <2>1, <2>2, <1>h, AgendaStays
<1>2. CASE FirewallStart
  <2>1. PICK c \in AllCommands \ {"setPort", "directive"}, force \in BOOLEAN, j \in JobSet,
             edits \in Seq(EditType) :
          /\ IsPlain(j, c, force) /\ Begin(j, edits, "edit")
          /\ Plan(c, force, edits) /\ force \in Forces(c)
    BY <1>2, PlainStart
  <2>2. force = FALSE
    BY <2>1, <1>s DEF Forces
  <2>3. /\ job'.cmd = c /\ fw' = fw /\ files' = files /\ Rest' = edits /\ ~At("fwReload")
    BY <2>1 DEF Begin, IsPlain, Rest, At, Idle
  <2> QED BY <2>1, <2>2, <2>3, <1>g, <1>h, PlanAgenda
<1>3. CASE Directive
  <2>1. todo' = <<>>
    BY <1>3 DEF Directive, Flow, Editing, At, Idle
  <2> QED BY <2>1, <1>0
<1>4. CASE SetPort
  <2>1. PICK j \in JobSet, edits \in Seq(EditType), first \in {"edit", "ports", "label"} :
          Begin(j, edits, first) /\ \A e \in Elems(edits) : Adding(e)
    BY <1>4, PortStart
  <2>2. Rest' = edits
    BY <2>1 DEF Begin, Rest, At
  <2>3. Elems(Rest)' = Elems(edits)
    BY <2>2 DEF Elems
  <2>4. \A e \in Elems(Rest)' : Opens(e)'
    BY <2>1, <2>3 DEF Adding, Opens
  <2> QED BY <2>4 DEF Agenda
<1>5. CASE EditFirewall
  <2>1. /\ At("edit") /\ todo \in Seq(EditType) /\ todo # <<>> /\ Head(todo) = todo[1]
        /\ files' = files /\ Editing
    BY <1>5, EditMoves DEF EditFirewall
  <2>2. Rest = todo
    BY <2>1 DEF Rest, At
  <2>3. ASSUME Advance PROVE todo' = <<>> \/ (Rest' = Tail(todo) /\ job' = job)
    <3>1. \/ todo' = Tail(todo) /\ pc' = "edit" /\ job' = job
          \/ Exit("ok")
          \/ todo' = <<>>
      BY <2>1, <2>3, Advances
    <3> QED BY <3>1, EndedJob DEF Rest, At
  <2>4. ASSUME Goto("fwReload") PROVE Rest' = Tail(todo) /\ job' = job
    BY <2>4 DEF Goto, Rest, At
  <2>5. CASE todo' = <<>>
    BY <2>5, <1>0
  <2>6. CASE todo' # <<>>
    <3>0. ~Exit("error")
      BY <2>6, EndedJob
    <3>1. Rest' = Tail(todo) /\ job' = job
      BY <1>5, <2>3, <2>4, <2>6, <3>0, EditMoves
    <3> DEFINE e == Head(todo)
    <3>2. e.op \notin {"start", "stop"} =>
            fw'.stored = EditedRules(e) /\ fw'.active = fw.active
      <4>1. \/ Exit("error") \/ e.op = "stop" \/ e.op = "start"
            \/ fw'.stored = EditedRules(e) /\ fw'.active = fw.active
            \/ fw'.stored = EditedRules(e) /\ fw.active /\ fw'.active
               /\ fw' \in FwSet /\ fw \in FwSet
        BY <1>5, EditMoves
      <4>2. fw \in FwSet /\ fw' \in FwSet => fw.active \in BOOLEAN /\ fw'.active \in BOOLEAN
        BY DEF FwSet
      <4> HIDE DEF e
      <4> QED BY <3>0, <4>1, <4>2
    <3>3. todo[1].op \notin {"start", "stop"} =>
            fw'.stored = EditedRules(todo[1]) /\ fw'.active = fw.active
      BY <2>1, <3>2
    <3> QED BY <2>1, <2>2, <3>1, <3>3, <1>h, AgendaAfter
  <2> QED BY <2>5, <2>6
<1>6. CASE ReloadFirewall
  <2>1. /\ At("fwReload") /\ Editing /\ files' = files
    BY <1>6, ReloadMoves DEF ReloadFirewall
  <2>2. CASE Exit("error")
    BY <2>2, <1>e
  <2>3. CASE Advance /\ fw'.active = fw.active /\ fw'.stored = fw.stored /\ fw'.sdeny = fw.sdeny
    <3>1. CASE todo' = <<>>
      BY <3>1, <1>0
    <3>2. CASE todo' # <<>>
      <4>1. todo' = Tail(todo) /\ pc' = "edit" /\ job' = job
        BY <2>1, <2>3, <3>2, Advances, EndedJob
      <4>2. Rest' = Rest
        BY <2>1, <4>1 DEF Rest, At
      <4> QED BY <2>1, <2>3, <4>1, <4>2, <1>h, AgendaStays
    <3> QED BY <3>1, <3>2
  <2> QED BY <1>6, <2>2, <2>3, ReloadMoves
<1>7. CASE SshdStep
  <2>1. CASE todo' = <<>>
    BY <2>1, <1>0
  <2>2. CASE At("closeFw") /\ CloseNext
    <3>1. CloseFirewall
      BY <1>7, <2>2 DEF SshdStep, ApplyDirective, LabelPort, MigrateLegacy, WritePorts,
         WriteDropIn, RestartSshd, CheckBanner, UndoPort, At
    <3>2. files' = files /\ fw' = fw /\ fw.run = fw.stored
      BY <3>1, <2>2, <1>g DEF CloseFirewall, At
    <3>3. PICK r \in Rule :
            /\ todo' = <<DelRule(r)>> /\ Guard(FALSE, Without(Listed, r)) /\ pc' = "edit"
      BY <2>2, ClosePlans
    <3> DEFINE x == DelRule(r)
    <3>4. x.op = "del" /\ x.rule = r /\ Rest' = <<x>>
      BY <3>3 DEF DelRule, Edit, Rest, At
    <3> HIDE DEF x
    <3>5. fw.active => Firm(Without(fw.stored, r), SshPort)
      BY <3>2, <3>3, GuardFirm DEF Guard
    <3>6. Rest[1]' = x /\ (Len(Rest) = 1)'
      BY <3>4
    <3>7. SshPort' = SshPort
      BY <1>h, <3>2, SameFiles
    <3>8. Firm(Without(fw.stored, Rest[1].rule), SshPort)' <=> Firm(Without(fw.stored, r), SshPort)
      BY <1>h, <3>2, <3>4, <3>6, <3>7 DEF Firm, OpenIn, LetsIn, Firewalld
    <3>9. (Len(Rest) = 1 /\ Rest[1].op = "del")'
      BY <3>4, <3>6
    <3>10. fw'.active => Firm(Without(fw.stored, Rest[1].rule), SshPort)'
      BY <3>2, <3>5, <3>8
    <3> QED BY <3>9, <3>10 DEF Agenda
  <2> QED BY <1>7, <2>1, <2>2, SshdTodo
<1>8. CASE Crash
  BY <1>8, <1>e DEF Crash
<1> QED
  BY <1>1, <1>2, <1>3, <1>4, <1>5, <1>6, <1>7, <1>8 DEF Next, FirewallStep, SshdStart

LEMMA ReloadSafeStep ==
  ASSUME LockoutScope, Typed, Flow, Synced, Agenda, ReloadSafe, [Next]_vars
  PROVE  ReloadSafe'
<1>h. host' = host
  BY TypedStep
<1>w. /\ Firm(fw.stored, SshPort)' <=> Firm(fw'.stored, SshPort')
      /\ \A p : OpenIn(fw.run, fw.rdeny, p)' <=> OpenIn(fw'.run, fw'.rdeny, p)
      /\ \A p : OpenIn(fw.stored, fw.sdeny, p)' <=> OpenIn(fw'.stored, fw'.sdeny, p)
  BY <1>h DEF Firm, OpenIn, LetsIn, Firewalld
<1>n. ASSUME pc' # "fwReload" PROVE ReloadSafe'
  BY <1>n DEF ReloadSafe, At
<1>e. \A r : Exit(r) => pc' # "fwReload"
  BY DEF Exit
<1>a. Editing /\ Advance => pc' # "fwReload"
  <2>1. job.then # "fwReload"
    BY DEF Typed, JobSet
  <2> QED BY <2>1, <1>e, Advances
<1>1. CASE UNCHANGED vars
  BY <1>1, <1>w, SameFiles DEF vars, ReloadSafe, At
<1>2. CASE FirewallStart \/ SshdStart
  BY <1>2, <1>n, StartMeets
<1>3. CASE EditFirewall
  <2> DEFINE e == Head(todo)
  <2>1. CASE pc' # "fwReload"
    BY <2>1, <1>n
  <2>2. CASE pc' = "fwReload"
    <3>1. /\ e.op \notin {"start", "stop"} /\ Goto("fwReload") /\ fw.active
          /\ fw'.stored = EditedRules(e) /\ fw'.run = fw.run
          /\ fw'.sdeny = EditedDeny(e) /\ fw'.rdeny = fw.rdeny
      BY <2>2, <1>3, <1>e, <1>a, EditMoves
    <3>2. /\ At("edit") /\ todo # <<>> /\ todo \in Seq(EditType) /\ fw \in FwSet
          /\ e \in EditType
      BY <1>3, EditMoves
    <3>3. files' = files /\ job' = job
      BY <1>3, <3>1 DEF EditFirewall, Goto
    <3>4. fw.run = fw.stored /\ fw.rdeny = fw.sdeny
      BY <3>2 DEF Synced, At
    <3>5. SshPort' = SshPort
      BY <1>h, <3>3, SameFiles
    <3>6. CASE job.cmd = "denyIp"
      BY <3>3, <3>6 DEF ReloadSafe
    <3>7. CASE job.cmd # "denyIp"
      <4>1. Checked(e)
        BY <3>1, <3>2, <3>7, AgendaChecked
      <4> HIDE DEF e
      <4>2. \/ Firm(EditedRules(e), SshPort)
            \/ \A p \in Ports : OpenIn(fw.stored, fw.sdeny, p)
                                  => OpenIn(EditedRules(e), EditedDeny(e), p)
        BY <3>1, <3>2, <4>1, EditSafe
      <4>3. \/ Firm(fw'.stored, SshPort')
            \/ \A p \in Ports : OpenIn(fw'.run, fw'.rdeny, p) => OpenIn(fw'.stored, fw'.sdeny, p)
        BY <3>1, <3>4, <3>5, <4>2
      <4> QED BY <4>3, <1>w DEF ReloadSafe
    <3> QED BY <3>6, <3>7
  <2> QED BY <2>1, <2>2
<1>4. CASE ReloadFirewall
  BY <1>4, <1>n, <1>e, <1>a, ReloadMoves
<1>5. CASE SshdStep
  <2>1. pc' # "fwReload"
    BY <1>5, SshdTodo DEF Editing, At, CloseNext
  <2> QED BY <2>1, <1>n
<1>6. CASE Crash
  BY <1>6, <1>e, <1>n DEF Crash
<1>7. CASE Reboot
  BY <1>7, <1>n, RebootMoves DEF Idle
<1> QED
  BY <1>1, <1>2, <1>3, <1>4, <1>5, <1>6, <1>7 DEF Next, FirewallStep

LEMMA ReachableIs ==
  ASSUME Typed, host' = host
  PROVE  /\ fw.active /\ Reachable => \E p \in listen : OpenIn(fw.run, fw.rdeny, p)
         /\ ~fw'.active /\ listen' # {} => Reachable'
         /\ \A p \in listen' : OpenIn(fw'.run, fw'.rdeny, p) => Reachable'
<1>1. \A a, p : Lets(a, p) <=> LetsIn(fw.run, fw.rdeny, a, p)
  BY DEF Lets, LetsIn
<1>2. \A a, p : Lets(a, p)' <=> LetsIn(fw'.run, fw'.rdeny, a, p)
  BY DEF Lets, LetsIn, Firewalld
<1>3. fw.active /\ Reachable => \E p \in listen : OpenIn(fw.run, fw.rdeny, p)
  BY <1>1 DEF Reachable, Open, OpenIn
<1>4. ~fw'.active /\ listen' # {} => Reachable'
  BY DEF Reachable, Open
<1>5. ASSUME NEW p \in listen', OpenIn(fw'.run, fw'.rdeny, p) PROVE Reachable'
  <2>1. PICK a \in Addrs : LetsIn(fw'.run, fw'.rdeny, a, p)
    BY <1>5 DEF OpenIn
  <2>2. Lets(a, p)'
    BY <2>1, <1>2
  <2>3. Open(p)'
    BY <2>2 DEF Open
  <2> QED BY <2>3 DEF Reachable
<1> QED BY <1>3, <1>4, <1>5

\* While the firewall stays as it is, sshd restarts to listen on a port that is open.
LEMMA RestartOpen ==
  ASSUME LockoutScope, Typed, Flow, Remembers, SocketTidy, RulesKnown, Opened, Opening,
         At("restart")
  PROVE  job.port \in Effective(files) /\ OpenIn(fw.run, fw.rdeny, job.port)
<1>1. SetPorting /\ job.allowFw /\ ~job.dry
  BY DEF Flow, At, Opening
<1>2. files.managed = Wanted /\ (host.socket => files.dropIn = Wanted)
  BY DEF Remembers, SocketTidy, At
<1>3. job.port \in Elems(Wanted) /\ Wanted # <<>>
  BY WantedTyped
<1>4. job.port \in Effective(files)
  BY <1>2, <1>3 DEF Effective
<1>5. NewRule(job) \in Elems(fw.run) /\ job.port \in NewPorts
  BY <1>1 DEF Opened, At
<1>6. /\ job.port \in Ports \ DenyPorts /\ Addrs \ Denied # {} /\ NewPorts \subseteq Ports
  BY <1>5, AccessAssumption DEF LockoutScope
<1>7. IsRule(NewRule(job), "allow", job.port, Anywhere)
  BY <1>6, PortRuleTyped DEF NewRule
<1>8. fw.run \in Seq(Rule) /\ \A r \in Elems(fw.run) : Known(r)
  BY DEF Typed, FwSet, RulesKnown
<1>9. \E a \in Addrs : UfwLets(fw.run, fw.rdeny, a, job.port)
                         /\ FirewalldLets(fw.run, fw.rdeny, a, job.port)
  BY <1>5, <1>6, <1>7, <1>8, KnownLetIn DEF IsRule
<1> QED BY <1>4, <1>9 DEF OpenIn, LetsIn

Safe ==
  /\ Typed /\ Flow /\ Remembers /\ SocketTidy /\ RulesKnown /\ Opened
  /\ Opening /\ Synced /\ Heard /\ NoSshDeny /\ Agenda /\ ReloadSafe

LEMMA KeepsWayIn ==
  ASSUME LockoutScope, Safe, [Next]_vars, fw.active, Reachable,
         job.cmd # "denyIp", ~At("undo")
  PROVE  Reachable'
<1> USE DEF Safe
<1>s. "fwReload" \notin FaultKinds
  BY DEF LockoutScope
<1>h. host' = host /\ Typed'
  BY TypedStep
<1>w. \E p \in listen : OpenIn(fw.run, fw.rdeny, p)
  BY <1>h, ReachableIs
<1>l. listen \subseteq Ports /\ fw \in FwSet
  BY DEF Typed
<1>k. ASSUME listen' = listen, fw'.run = fw.run, fw'.rdeny = fw.rdeny PROVE Reachable'
  BY <1>k, <1>h, <1>w, ReachableIs
<1>f. ASSUME listen' = listen, SshPort \in listen, Firm(fw'.run, SshPort), fw'.rdeny \in BOOLEAN
      PROVE  Reachable'
  <2>1. OpenIn(fw'.run, fw'.rdeny, SshPort)
    BY <1>f, FirmOpens DEF Firm, OpenIn
  <2> QED BY <2>1, <1>f, <1>h, ReachableIs
<1>m. ASSUME listen' = listen,
             \A p \in Ports : OpenIn(fw.run, fw.rdeny, p) => OpenIn(fw'.run, fw'.rdeny, p)
      PROVE  Reachable'
  BY <1>m, <1>h, <1>l, <1>w, ReachableIs
<1>p. ASSUME Editing PROVE SshPort \in listen
  <2>1. listen = Effective(files) /\ (host.socket => Tidy(files))
    BY <1>p DEF Heard, SocketTidy, Editing, At
  <2>2. files \in FilesSet /\ SshPort = FirstPort(files)
    BY CurrentPortsTyped DEF Typed
  <2> QED BY <2>1, <2>2, FirstHeard
<1>1. CASE UNCHANGED vars
  BY <1>1, <1>k DEF vars
<1>2. CASE FirewallStart \/ SshdStart
  BY <1>2, <1>k, StartKeeps
<1>3. CASE EditFirewall
  <2> DEFINE e == Head(todo)
  <2>1. /\ At("edit") /\ Editing /\ todo \in Seq(EditType) /\ todo # <<>> /\ e \in EditType
        /\ listen' = listen /\ fw' \in FwSet
    BY <1>3, EditMoves DEF EditFirewall
  <2>2. fw.run = fw.stored /\ fw.rdeny = fw.sdeny
    BY <2>1 DEF Synced, At
  <2>3. CASE fw' = fw \/ (fw'.run = fw.run /\ fw'.rdeny = fw.rdeny)
    BY <2>1, <2>3, <1>k
  <2>4. CASE ~fw'.active
    <3>1. listen' # {}
      BY <1>h DEF Typed
    <3> QED BY <2>4, <3>1, <1>h, ReachableIs
  <2>5. CASE fw'.run = fw.stored /\ fw'.rdeny = fw.sdeny
    BY <2>1, <2>2, <2>5, <1>k
  <2>6. CASE /\ e.op \notin {"start", "stop"}
             /\ fw'.run = EditedRules(e) /\ fw'.rdeny = EditedDeny(e)
    <3>1. Checked(e)
      BY <2>1, <2>6, AgendaChecked
    <3> HIDE DEF e
    <3>2. \/ Firm(EditedRules(e), SshPort)
          \/ \A p \in Ports : OpenIn(fw.stored, fw.sdeny, p)
                                => OpenIn(EditedRules(e), EditedDeny(e), p)
      BY <2>1, <3>1, <1>l, EditSafe
    <3>3. fw'.rdeny \in BOOLEAN
      BY <2>1 DEF FwSet
    <3> QED BY <2>1, <2>2, <2>6, <3>2, <3>3, <1>f, <1>m, <1>p
  <2> QED BY <1>3, <2>3, <2>4, <2>5, <2>6, EditMoves
<1>4. CASE ReloadFirewall
  <2>1. /\ At("fwReload") /\ Editing /\ listen' = listen /\ fw' \in FwSet
        /\ fw'.run = fw.stored /\ fw'.rdeny = fw.sdeny
    BY <1>4, <1>s, ReloadMoves DEF ReloadFirewall, Fault
  <2>2. \/ Firm(fw.stored, SshPort)
        \/ \A p \in Ports : OpenIn(fw.run, fw.rdeny, p) => OpenIn(fw.stored, fw.sdeny, p)
    BY <2>1 DEF ReloadSafe
  <2>3. fw'.rdeny \in BOOLEAN
    BY <2>1 DEF FwSet
  <2> QED BY <2>1, <2>2, <2>3, <1>f, <1>m, <1>p
<1>5. CASE SshdStep
  <2>1. fw' = fw
    BY <1>5, SshdKeeps
  <2>2. CASE RestartSshd
    <3>1. listen' = listen \/ listen' = Effective(files)
      BY <2>2 DEF RestartSshd
    <3>2. CASE listen' = Effective(files)
      <4>1. job.port \in listen' /\ OpenIn(fw'.run, fw'.rdeny, job.port)
        BY <2>1, <2>2, <3>2, RestartOpen DEF RestartSshd
      <4> QED BY <4>1, <1>h, ReachableIs
    <3> QED BY <2>1, <3>1, <3>2, <1>k
  <2>3. CASE ApplyDirective
    <3>1. listen = Effective(files)
      BY <2>3 DEF ApplyDirective, Heard, At
    <3>2. listen' = listen
      BY <2>3, <3>1 DEF ApplyDirective
    <3> QED BY <2>1, <3>2, <1>k
  <2>4. CASE ~RestartSshd /\ ~ApplyDirective
    <3>1. listen' = listen
      BY <1>5, <2>4 DEF SshdStep, LabelPort, MigrateLegacy, WritePorts, WriteDropIn,
         CheckBanner, UndoPort, CloseFirewall
    <3> QED BY <2>1, <3>1, <1>k
  <2> QED BY <2>2, <2>3, <2>4
<1>6. CASE Crash
  BY <1>6, <1>k DEF Crash
<1>7. CASE Reboot
  <2>1. /\ listen' = Effective(files) /\ fw'.run = fw.stored /\ fw'.rdeny = fw.sdeny /\ Idle
    BY <1>7, RebootMoves
  <2>2. listen = Effective(files) /\ fw.run = fw.stored /\ fw.rdeny = fw.sdeny
    BY <2>1 DEF Heard, Synced, Idle, At
  <2> QED BY <2>1, <2>2, <1>k
<1> QED
  BY <1>1, <1>2, <1>3, <1>4, <1>5, <1>6, <1>7 DEF Next, FirewallStep

\* No step of a command closes the last way in (guardSSH, ensureClientSSHAllow,
\* set-port): after it, as before, somebody is let in on a port that sshd listens on,
\* in the order that the firewall takes its rules in.
THEOREM NeverLockedOut ==
  ASSUME LockoutScope
  PROVE  Spec => NoLockout
<1> DEFINE A == /\ fw.active /\ Reachable
                /\ ~job.force /\ job.cmd # "denyIp" /\ ~At("undo")
                => Reachable'
<1>s. SocketFollows
  BY DEF LockoutScope, SocketFollows
<1>1. Init => Safe
  <2> SUFFICES ASSUME Init PROVE Safe
    OBVIOUS
  <2>1. /\ fw.stored \in {<<>>, <<SshService>>} /\ fw.run = fw.stored /\ fw.rdeny = fw.sdeny
        /\ todo = <<>> /\ pc = "idle" /\ job.cmd = "none" /\ job.stage = "both"
        /\ job.force = FALSE /\ files.dropIn = <<>> /\ listen = Effective(files)
    BY DEF Init, NoJob
  <2>2. Elems(<<>>) = {} /\ Elems(<<SshService>>) = {SshService}
    BY ElemsShort
  <2>3. Known(SshService) /\ SshService.act = "allow"
    BY ServiceTyped DEF Known, SshService
  <2>4. Typed /\ Flow
    BY TypedInit
  <2>5. Remembers /\ SocketTidy
    BY <2>1 DEF Remembers, SocketTidy, Tidy, SetPorting, At
  <2>6. RulesKnown /\ Opened
    BY <2>1, <2>2, <2>3 DEF RulesKnown, Opened, SetPorting, Editing, At
  <2>7. Opening /\ Synced /\ Heard /\ ReloadSafe
    BY <2>1 DEF Opening, Synced, Heard, ReloadSafe, SetPorting, At
  <2>8. NoSshDeny
    BY <2>1, <2>2, <2>3 DEF NoSshDeny, Clean, SetPorting
  <2>9. Agenda
    BY <2>1, <2>2 DEF Agenda, Rest, At
  <2> QED BY <2>4, <2>5, <2>6, <2>7, <2>8, <2>9 DEF Safe
<1>2. Safe /\ [Next]_vars => Safe'
  <2> SUFFICES ASSUME Safe, [Next]_vars PROVE Safe'
    OBVIOUS
  <2>1. Typed' /\ Flow'
    BY TypedStep DEF Safe
  <2>2. Remembers' /\ SocketTidy'
    BY <1>s, RemembersStep, SocketTidyStep DEF Safe
  <2>3. RulesKnown' /\ Opened'
    BY RulesKnownStep, OpenedStep DEF Safe
  <2>4. Opening' /\ Synced' /\ Heard'
    BY OpeningStep, SyncedStep, HeardStep DEF Safe
  <2>5. NoSshDeny' /\ Agenda' /\ ReloadSafe'
    BY NoSshDenyStep, AgendaStep, ReloadSafeStep DEF Safe
  <2> QED BY <2>1, <2>2, <2>3, <2>4, <2>5 DEF Safe
<1>3. Safe /\ [Next]_vars => [A]_vars
  BY KeepsWayIn
<1> QED
  BY <1>1, <1>2, <1>3, PTL DEF Spec, NoLockout
=============================================================================
