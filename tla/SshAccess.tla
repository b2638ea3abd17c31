----------------------------- MODULE SshAccess ------------------------------
(***************************************************************************)
(* How an administrator reaches the server: the firewall                   *)
(* (internal/services/firewall), sshd's port (internal/services/sshcfg),   *)
(* and the commands that change either.                                    *)
(*                                                                         *)
(* A command is a process that runs alone.  It checks the rules it reads,  *)
(* and then changes one thing per step.  firewalld keeps two sets of rules *)
(* and every change is made to the stored one and followed by a reload;    *)
(* ufw changes both at once.                                               *)
(***************************************************************************)
EXTENDS SshGuard, FiniteSets

CONSTANTS
  Backends,   \* the firewalls: "ufw", "firewalld"
  Sockets,    \* whether sshd is started by ssh.socket
  MainPorts,  \* Port lines that sshd_config may have
  OldDropIns, \* Port lines that 99-abstrax.conf may have
  Commands,   \* the commands an administrator runs
  AllowPorts, DenyPorts, \* arguments of allow and deny
  AllowFrom, DenyFrom,   \* values of their --from; Anywhere: it is left out
  NewPorts,   \* arguments of set-port
  CloseWith,  \* values of --allow-firewall
  ForceIn,    \* commands that may be run with --force
  DryIn,      \* values of --dry-run for set-port
  DenyIps,    \* arguments of deny-ip
  Clients,    \* addresses of the session, as far as it is known
  NoClient,   \* it is not known
  FaultKinds, \* the kinds of step that may fail
  CrashAt,    \* the steps before which a process may be killed
  MaxRules    \* bound on the number of rules

AllCommands == {"allow", "allowIp", "deny", "denyIp", "remove", "defaults",
                "enable", "disable", "setPort", "directive"}
AllFaults   == {"edit", "fwReload", "label", "write", "validate", "sshd",
                "banner", "undo"}
Labels == {"edit", "fwReload", "applied", "label", "migrate", "ports", "dropIn",
           "restart", "banner", "undo", "closeFw"}

ASSUME AccessAssumption ==
  /\ Backends \subseteq {"ufw", "firewalld"} /\ Sockets \subseteq BOOLEAN
  /\ Commands \subseteq AllCommands /\ ForceIn \subseteq {"deny", "remove", "defaults"}
  /\ AllowPorts \cup DenyPorts \cup NewPorts \subseteq Ports
  /\ CloseWith \cup DryIn \subseteq BOOLEAN /\ CrashAt \subseteq Labels
  /\ Clients \subseteq Addrs \cup {NoClient} /\ NoClient \notin Addrs
  /\ DenyIps \subseteq Addrs /\ AllowFrom \cup DenyFrom \subseteq Addrs \cup {Anywhere}
  /\ FaultKinds \subseteq AllFaults /\ MaxRules \in Nat \ {0}
  /\ IsFiniteSet(Ports)
  /\ MainPorts \cup OldDropIns \subseteq Seq(Ports)

VARIABLES
  host,   \* backend, sshd_config and ssh.socket: nothing here changes them
  fw,     \* rules and default policy, stored and running; is it active?
  files,  \* Port lines of 00-abstrax.conf and 99-abstrax.conf, socket drop-in
  listen, \* the ports sshd listens on
  pc,     \* next step of the running command
  job,    \* the command and its arguments
  todo,   \* changes of the firewall still to be made
  outcome \* how the last command ended

vars == <<host, fw, files, listen, pc, job, todo, outcome>>

\* What sshd listens on once it has read its configuration: every Port line
\* counts, whatever file it is in.
Effective(f) ==
  LET ports == Elems(host.main) \cup Elems(f.managed) \cup Elems(f.legacy)
  IN  IF host.socket /\ f.dropIn # <<>> THEN Elems(f.dropIn)
      ELSE IF ports = {} THEN {DefaultPort} ELSE ports

\* currentPorts; its first element is sshcfg.SSHPort.
CurrentPorts ==
  IF files.managed # <<>> THEN files.managed
  ELSE IF files.legacy # <<>> THEN files.legacy
  ELSE IF host.main # <<>> THEN host.main ELSE <<DefaultPort>>
SshPort == CurrentPorts[1]

\* migrateLegacy, mergeManaged.
Migrated(f) ==
  [f EXCEPT !.legacy = <<>>,
            !.managed = f.managed \o
              Kept(f.legacy, Ports \ Elems(f.managed))]

NoFiles == [managed |-> <<>>, legacy |-> <<>>, dropIn |-> <<>>]
NoJob == [cmd |-> "none", port |-> DefaultPort, allowFw |-> FALSE,
          close |-> FALSE, dry |-> FALSE, force |-> FALSE, stage |-> "both",
          then |-> "exit", old |-> <<>>, snap |-> NoFiles]

SshService == [act |-> "allow", port |-> SshName, proto |-> "", from |-> Anywhere]

Init ==
  /\ host \in [backend : Backends, main : MainPorts, socket : Sockets]
  /\ LET rules == IF host.backend = "firewalld" THEN <<SshService>> ELSE <<>>
     IN  fw = [active |-> FALSE, stored |-> rules, run |-> rules,
               sdeny |-> TRUE, rdeny |-> TRUE]
  /\ files \in [managed : {<<>>}, legacy : OldDropIns, dropIn : {<<>>}]
  /\ listen = Effective(files)
  /\ pc = "idle" /\ job = NoJob /\ todo = <<>> /\ outcome = "none"

Firewalld == host.backend = "firewalld"
Idle == pc = "idle"
At(p) == pc = p
Fault(k) == k \in FaultKinds

\* GetStatus: nothing is listed while the firewall is inactive.  firewalld
\* lists services and ports before rich rules.
RichRule == {r \in Rule : r.act = "deny" \/ r.from # Anywhere}
Listed ==
  IF ~fw.active THEN <<>>
  ELSE IF Firewalld
  THEN Kept(fw.run, Rule \ RichRule) \o Kept(fw.run, RichRule)
  ELSE fw.run

\* guardSSH: on an inactive firewall it warns and lets the change through.
Guard(force, rules) ==
  \/ force
  \/ ~fw.active
  \/ SshReachable(rules, SshPort)

-----------------------------------------------------------------------------
(***************************************************************************)
(* Changes of the firewall.                                                *)
(***************************************************************************)
Edit(op, r, d) == [op |-> op, rule |-> r, deny |-> d]
AddRule(r) == Edit("add", r, FALSE)
DelRule(r) == Edit("del", r, FALSE)
Policy(d)  == Edit("policy", SshService, d)
Start      == Edit("start", SshService, FALSE)
Stop       == Edit("stop", SshService, FALSE)

\* firewalld rules always name a protocol, ufw's only if it was given.
PortRule(act, p, from, proto) ==
  [act |-> act, port |-> p, from |-> from,
   proto |-> IF Firewalld /\ p # AnyPort THEN "tcp" ELSE proto]

\* A rule that differs in its action alone is replaced by ufw, where it stands.
Same(x, r) ==
  /\ x.port = r.port /\ x.from = r.from /\ x.proto = r.proto
  /\ Firewalld => x.act = r.act

WithRule(rules, r) ==
  IF \E i \in DOMAIN rules : Same(rules[i], r)
  THEN [i \in DOMAIN rules |-> IF Same(rules[i], r) THEN r ELSE rules[i]]
  ELSE Append(rules, r)

EditedRules(e) ==
  CASE e.op = "add" -> WithRule(fw.stored, e.rule)
    [] e.op = "del" -> Without(fw.stored, e.rule)
    [] OTHER        -> fw.stored
EditedDeny(e) == IF e.op = "policy" THEN e.deny ELSE fw.sdeny

\* ensureClientSSHAllow: nothing is done for a session of unknown address.
Protect(client, rules) ==
  IF client = NoClient \/ HasSshAllow(rules, client, SshPort) THEN <<>>
  ELSE <<AddRule(PortRule("allow", SshPort, client, "tcp"))>>

Exit(r) ==
  /\ pc' = "idle" /\ job' = NoJob /\ todo' = <<>> /\ outcome' = r

Goto(p) == pc' = p /\ UNCHANGED <<job, todo, outcome>>

Begin(j, edits, first) ==
  /\ Idle /\ j.cmd \in Commands
  /\ Len(fw.stored) + Len(edits) <= MaxRules
  /\ job' = j /\ todo' = edits /\ pc' = first /\ outcome' = "none"
  /\ UNCHANGED <<host, fw, files, listen>>

Change(c, force, edits) ==
  Begin([NoJob EXCEPT !.cmd = c, !.force = force], edits, "edit")

Forces(c) == IF c \in ForceIn THEN BOOLEAN ELSE {FALSE}

Allow ==
  \E p \in AllowPorts, from \in AllowFrom, client \in Clients :
    Change("allow", FALSE, Protect(client, Listed) \o
             <<AddRule(PortRule("allow", p, from, ""))>>)

AllowIp ==
  \E a \in Addrs, client \in Clients :
    Change("allowIp", FALSE, Protect(client, Listed) \o
             <<AddRule(PortRule("allow", AnyPort, a, ""))>>)

Deny ==
  \E p \in DenyPorts, from \in DenyFrom, client \in Clients, force \in Forces("deny") :
    LET d == PortRule("deny", p, from, "")
    IN  /\ Guard(force, InsertDeny(Listed, d))
        /\ Change("deny", force, Protect(client, Listed) \o <<AddRule(d)>>)

\* DenyIP has no check.
DenyIp ==
  \E a \in DenyIps, client \in Clients :
    Change("denyIp", FALSE, Protect(client, Listed) \o
             <<AddRule(PortRule("deny", AnyPort, a, ""))>>)

\* RuleRemove, RemovePort and RemoveService.
Remove ==
  \E r \in Elems(Listed), force \in Forces("remove") :
    /\ Guard(force, Without(Listed, r))
    /\ Change("remove", force, <<DelRule(r)>>)

\* The check is made when incoming traffic was not blocked before.
SetDefaults ==
  \E d \in BOOLEAN, force \in Forces("defaults") :
    /\ d /\ ~fw.sdeny => Guard(force, Listed)
    /\ Change("defaults", force, <<Policy(d)>>)

\* --allow-ssh is job.allowFw.  firewalld has to run before it can be changed.
Enable ==
  \E client \in Clients, ssh \in BOOLEAN :
    LET allow == IF ssh THEN <<AddRule(PortRule("allow", SshPort, Anywhere, "tcp"))>>
                 ELSE <<>>
    IN  Begin([NoJob EXCEPT !.cmd = "enable", !.allowFw = ssh],
              IF Firewalld
              THEN <<Start>> \o Protect(client, IF fw.active THEN fw.run ELSE fw.stored)
                   \o allow
              ELSE Protect(client, Listed) \o allow \o <<Start>>, "edit")

Disable == Change("disable", FALSE, <<Stop>>)

\* The process goes on after the first change of todo.
Advance ==
  IF Len(todo) > 1 THEN pc' = "edit" /\ todo' = Tail(todo) /\ UNCHANGED <<job, outcome>>
  ELSE IF job.then = "exit" THEN Exit("ok")
  ELSE pc' = job.then /\ todo' = <<>> /\ UNCHANGED <<job, outcome>>

\* firewall-cmd fails while firewalld is not running.
EditFirewall ==
  /\ At("edit") /\ UNCHANGED <<host, files, listen>>
  /\ LET e == Head(todo)
     IN  \/ Fault("edit") /\ UNCHANGED fw /\ Exit("error")
         \/ /\ Firewalld /\ ~fw.active /\ e.op \notin {"start", "stop"}
            /\ UNCHANGED fw /\ Exit("error")
         \/ /\ e.op = "stop" /\ fw' = [fw EXCEPT !.active = FALSE] /\ Advance
         \/ /\ e.op = "start"
            /\ fw' = [fw EXCEPT !.active = TRUE, !.run = fw.stored, !.rdeny = fw.sdeny]
            /\ Advance
         \/ /\ ~Firewalld /\ e.op \notin {"start", "stop"}
            /\ fw' = [fw EXCEPT !.stored = EditedRules(e), !.run = EditedRules(e),
                                !.sdeny = EditedDeny(e), !.rdeny = EditedDeny(e)]
            /\ Advance
         \/ /\ Firewalld /\ fw.active /\ e.op \notin {"start", "stop"}
            /\ fw' = [fw EXCEPT !.stored = EditedRules(e), !.sdeny = EditedDeny(e)]
            /\ Goto("fwReload")

\* Mutant of ReloadFirewall: the stored rules are not taken into use.
NoReload ==
  /\ At("fwReload") /\ UNCHANGED <<host, fw, files, listen>> /\ Advance

\* firewall-cmd --reload.
ReloadFirewall ==
  /\ At("fwReload") /\ UNCHANGED <<host, files, listen>>
  /\ \/ Fault("fwReload") /\ UNCHANGED fw /\ Exit("error")
     \/ fw' = [fw EXCEPT !.run = fw.stored, !.rdeny = fw.sdeny] /\ Advance

-----------------------------------------------------------------------------
(***************************************************************************)
(* sshd.                                                                   *)
(***************************************************************************)

\* A directive other than Port: the old drop-in is moved, sshd is reloaded (and
\* ssh.socket, which holds the ports, is not).
Directive ==
  /\ Idle /\ "directive" \in Commands
  /\ files' = Migrated(files)
  /\ job' = [NoJob EXCEPT !.cmd = "directive"] /\ pc' = "applied"
  /\ outcome' = "none" /\ UNCHANGED <<host, fw, listen, todo>>

ApplyDirective ==
  /\ At("applied") /\ UNCHANGED <<host, fw, files>>
  /\ \/ /\ listen' = IF host.socket THEN listen ELSE Effective(files)
        /\ Exit("ok")
     \/ (Fault("validate") \/ Fault("sshd")) /\ UNCHANGED listen /\ Exit("error")

SetPort ==
  \E p \in NewPorts, allowFw \in CloseWith, close \in BOOLEAN, dry \in DryIn,
     client \in Clients :
    LET edits == IF allowFw /\ ~dry
                 THEN Protect(client, Listed) \o
                      <<AddRule(PortRule("allow", p, Anywhere, "tcp"))>>
                 ELSE <<>>
    IN  Begin([NoJob EXCEPT !.cmd = "setPort", !.port = p, !.allowFw = allowFw,
                 !.close = close, !.dry = dry, !.force = close /\ ~allowFw,
                 !.then = "label", !.old = CurrentPorts, !.snap = files],
              edits,
              IF edits # <<>> THEN "edit" ELSE IF dry THEN "ports" ELSE "label")

LabelPort ==
  /\ At("label") /\ UNCHANGED <<host, fw, files, listen>>
  /\ \/ Fault("label") /\ Exit("error")
     \/ Goto("migrate")

MigrateLegacy ==
  /\ At("migrate") /\ UNCHANGED <<host, fw, listen>>
  /\ \/ Fault("write") /\ UNCHANGED files /\ Exit("error")
     \/ files' = Migrated(files) /\ Goto("ports")

\* Mutants of Wanted: the old ports are dropped at once; a port is added again.
WantedNew == <<job.port>>
WantedAgain ==
  IF job.stage = "new" THEN <<job.port>> ELSE Append(job.old, job.port)

\* What set-port asks sshd to listen on, first beside the old ports, then alone.
Wanted ==
  IF job.stage = "new" THEN <<job.port>>
  ELSE IF job.port \in Elems(job.old) THEN job.old ELSE Append(job.old, job.port)

\* Mutant of RestoreFiles: the old drop-in is not put back.
RestoreManaged(s) == [s EXCEPT !.legacy = <<>>]

\* restore: the managed file, the old drop-in and the socket drop-in.
RestoreFiles(s) == s

\* A write fails: the files go back, and sshd with them if it had been reloaded.
NotWritten ==
  IF job.stage = "both" THEN files' = RestoreFiles(job.snap) /\ Exit("error")
                        ELSE UNCHANGED files /\ Goto("undo")

Stage(s, p) == job' = [job EXCEPT !.stage = s] /\ pc' = p /\ UNCHANGED <<todo, outcome>>

\* --dry-run writes the files all the same, and reloads nothing.
Listening ==
  IF ~job.dry THEN Goto("restart")
  ELSE IF job.close /\ job.stage = "both" THEN Stage("new", "ports")
  ELSE IF job.close /\ job.allowFw THEN Goto("closeFw") ELSE Exit("ok")

WritePorts ==
  /\ At("ports") /\ UNCHANGED <<host, fw, listen>>
  /\ \/ Fault("write") /\ NotWritten
     \/ /\ files' = [files EXCEPT !.managed = Wanted]
        /\ IF host.socket /\ ~job.dry THEN Goto("dropIn") ELSE Listening

WriteDropIn ==
  /\ At("dropIn") /\ UNCHANGED <<host, fw, listen>>
  /\ \/ Fault("write") /\ NotWritten
     \/ files' = [files EXCEPT !.dropIn = Wanted] /\ Goto("restart")

\* sshd -t, and a reload of sshd or a restart of ssh.socket.
RestartSshd ==
  /\ At("restart") /\ UNCHANGED <<host, fw, files>>
  /\ \/ listen' = Effective(files) /\ Goto("banner")
     \/ (Fault("validate") \/ Fault("sshd")) /\ UNCHANGED listen /\ Goto("undo")

CheckBanner ==
  /\ At("banner") /\ UNCHANGED <<host, fw, files, listen>>
  /\ \/ (job.port \notin listen \/ Fault("banner")) /\ Goto("undo")
     \/ /\ job.port \in listen
        /\ \/ job.close /\ job.stage = "both" /\ Stage("new", "ports")
           \/ ~job.close /\ Exit("ok")
           \/ job.stage = "new" /\ (IF job.allowFw THEN Goto("closeFw") ELSE Exit("ok"))

\* restore and reloadRestored, whose error is ignored.
UndoPort ==
  /\ At("undo") /\ UNCHANGED <<host, fw>>
  /\ files' = RestoreFiles(job.snap)
  /\ \/ ~job.dry /\ listen' = Effective(files')
     \/ (job.dry \/ Fault("undo")) /\ UNCHANGED listen
  /\ Exit("error")

\* RemovePort for each old port; it is an error on ufw.
CloseFirewall ==
  /\ At("closeFw") /\ UNCHANGED <<host, fw, files, listen>>
  /\ LET left == Kept(job.old, Ports \ {job.port})
         rule == PortRule("allow", Head(left), Anywhere, "tcp")
         safe == job.dry \/ Guard(FALSE, Without(Listed, rule))
     IN  \/ (left = <<>> \/ (Firewalld /\ job.dry)) /\ Exit("ok")
         \/ left # <<>> /\ (~Firewalld \/ ~safe) /\ Exit("error")
         \/ /\ left # <<>> /\ Firewalld /\ safe /\ ~job.dry
            /\ job' = [job EXCEPT !.old = Tail(left), !.then = "closeFw"]
            /\ todo' = <<DelRule(rule)>> /\ pc' = "edit" /\ UNCHANGED outcome

-----------------------------------------------------------------------------
Crash ==
  /\ pc \in CrashAt
  /\ Exit("crashed") /\ UNCHANGED <<host, fw, files, listen>>

\* The machine restarts: firewall and sshd read what is stored.
Reboot ==
  /\ Idle
  /\ fw' = [fw EXCEPT !.run = fw.stored, !.rdeny = fw.sdeny]
  /\ listen' = Effective(files)
  /\ UNCHANGED <<host, files, pc, job, todo, outcome>>

FirewallStart ==
  Allow \/ AllowIp \/ Deny \/ DenyIp \/ Remove \/ SetDefaults \/ Enable \/ Disable
FirewallStep == EditFirewall \/ ReloadFirewall
SshdStart == Directive \/ SetPort
SshdStep ==
  \/ ApplyDirective \/ LabelPort \/ MigrateLegacy \/ WritePorts \/ WriteDropIn
  \/ RestartSshd \/ CheckBanner \/ UndoPort \/ CloseFirewall

Next == FirewallStart \/ FirewallStep \/ SshdStart \/ SshdStep \/ Crash \/ Reboot
Spec == Init /\ [][Next]_vars

-----------------------------------------------------------------------------
(***************************************************************************)
(* Properties.                                                             *)
(***************************************************************************)
Lets(a, p) ==
  IF Firewalld THEN FirewalldLets(fw.run, fw.rdeny, a, p)
               ELSE UfwLets(fw.run, fw.rdeny, a, p)
Open(p)   == ~fw.active \/ \E a \in Addrs : Lets(a, p)
Reachable == \E p \in listen : Open(p)

PortSeqs == UNION {[1..n -> Ports] : n \in 0..Cardinality(Ports)}
FilesType == [managed : PortSeqs, legacy : PortSeqs, dropIn : PortSeqs]
RuleSeqs == Seq(Rule)

\* Every variable keeps its type; in particular no Port is written twice.
TypeOK ==
  /\ host.backend \in Backends /\ host.socket \in Sockets
  /\ fw.active \in BOOLEAN /\ fw.sdeny \in BOOLEAN /\ fw.rdeny \in BOOLEAN
  /\ fw.stored \in RuleSeqs /\ fw.run \in RuleSeqs
  /\ Len(fw.stored) <= MaxRules
  /\ files \in FilesType /\ listen \in (SUBSET Ports) \ {{}}
  /\ job.old \in PortSeqs /\ job.snap \in FilesType

\* While the firewall is active, no step of a command closes the last way in:
\* "refused while the firewall is active" (guardSSH).  Not checked by the code
\* are deny-ip, --force, and set-port --close-old-port without --allow-firewall
\* (job.force); a set-port that fails goes back to where it started.  Nor does
\* it hold where one address is both denied and allowed by name: the check counts
\* an allow of one address and passes over a deny of one (sshTCPReachable), so
\* that "deny 22 --from a" against the only allow, which is for a, is let through.
\* The addresses of deny-ip and deny --from are therefore others than those of
\* allow --from and of the session.
NoLockout ==
  [][/\ fw.active /\ Reachable
     /\ ~job.force /\ job.cmd # "denyIp" /\ ~At("undo")
     => Reachable']_vars

\* "--allow-firewall opens the new port before sshd is reloaded": sshd starts
\* to listen on a new port only when the firewall lets somebody in on it.
OpenBeforeListen ==
  [][At("restart") /\ job.allowFw /\ job.port \notin listen
     => (job.port \in listen' => Open(job.port))]_vars

\* "The previous port stays open until --close-old-port": no step of set-port
\* without it stops sshd from listening on a port that was configured.
OldPortKept ==
  [][job.cmd = "setPort" /\ ~job.close
     => listen \cap Elems(job.old) \subseteq listen']_vars

\* A set-port that fails before it closes the firewall leaves the files of sshd
\* as it found them, the old drop-in included.
SetPortUndone ==
  [][/\ job.cmd = "setPort" /\ outcome' = "error"
     /\ ~At("closeFw") /\ job.then # "closeFw"
     => files' = job.snap]_vars
=============================================================================
