------------------------------- MODULE Mysql --------------------------------
(***************************************************************************)
(* The database server as abstrax manages it (internal/services/mysql):    *)
(* its accounts, databases and grants, the root password saved in          *)
(* mysql.json, and the drop-in that opens the server to the network.       *)
(*                                                                         *)
(* Commands run one at a time.  A command is a list of SQL statements, or  *)
(* a sequence of steps around one; any of them may fail, and the process   *)
(* may be killed between two of them.  Each statement is sent by a mysql   *)
(* client of its own, which logs in again.                                 *)
(***************************************************************************)
EXTENDS Lists

CONSTANTS
  Users, Databases, Passwords,
  Root,       \* the account that administers the server
  None,       \* no account, no password, no drop-in
  Socket,     \* root is let in on the socket without a password
  NoBind,     \* a drop-in without a bind-address
  Binds, Loopback, BadBinds, \* addresses: all, local ones, not on this host
  OwnBinds,   \* what the other configuration files may bind to
  Commands,   \* the commands an administrator runs
  HostFlags,  \* values of --host, "" if it is not given
  Targets,    \* users whose password may be changed
  FaultKinds, \* the steps that may fail
  CrashAt,    \* the steps before which a process may be killed
  MaxCommands \* bound on the number of commands

AllCommands == {"configSet", "install", "reset", "dbAdd", "dbRemove", "userAdd",
                "userRemove", "userPassword", "grant", "revoke", "enable", "disable"}
Hosts == {"%", "127.0.0.1", "localhost"}
RemoteOps == {"enable", "disable"}
AllFaults == {"sql", "pkg", "stop", "launch", "shutdown", "start", "slow",
              "save", "write", "restart", "unlink"}
Labels == {"package", "stop", "launch", "ready", "connect", "sql", "abort",
           "shutdown", "start", "verify", "save", "write", "unlink", "restart",
           "wait", "confirm", "undo", "undoRestart", "undoWait"}

ASSUME MysqlAssumption ==
  /\ Root \notin Users /\ Targets \subseteq Users \cup {Root}
  /\ None \notin Passwords \cup Binds \cup {Socket, NoBind}
  /\ Socket \notin Passwords /\ NoBind \notin Binds
  /\ Loopback \cup BadBinds \cup OwnBinds \subseteq Binds
  /\ HostFlags \subseteq Hosts \cup {""}
  /\ Commands \subseteq AllCommands /\ FaultKinds \subseteq AllFaults
  /\ CrashAt \subseteq Labels /\ MaxCommands \in Nat

VARIABLES
  tcpAs,  \* the account the server prefers for root over TCP, if both exist
  srv,    \* mode of the server process; does it accept connections?
  live,   \* the address it listens on
  conf,   \* what the drop-in and the other files bind to
  acct,   \* password of user@host
  grants, \* who may use which database
  dbs,    \* the databases
  saved,  \* root's password in mysql.json
  cmd,    \* the running command, its next step and its arguments
  ran,    \* commands so far
  apart   \* users whose two local accounts were touched one by one

data == <<acct, grants, dbs>>
vars == <<tcpAs, srv, live, conf, acct, grants, dbs, saved, cmd, ran, apart>>

\* ORDER BY Host, and localAppHosts.
AllHosts   == <<"%", "127.0.0.1", "localhost">>
LocalHosts == <<"localhost", "127.0.0.1">>
Accounts == Users \cup {Root}
NoAccounts == [h \in Hosts |-> None]

Idle == cmd.pc = "idle"
NoCmd == [op |-> "none", pc |-> "idle", todo |-> <<>>, user |-> Root, host |-> "",
          pw |-> None, db |-> None, bind |-> None, ok |-> TRUE, hurt |-> FALSE]

Init ==
  /\ tcpAs \in {"localhost", "127.0.0.1"}
  /\ srv = [mode |-> "absent", ready |-> FALSE]
  /\ conf \in [own : OwnBinds, dropIn : {None}]
  /\ live = conf.own
  /\ acct = [u \in Accounts |-> NoAccounts]
  /\ grants = {} /\ dbs = {} /\ saved = None
  /\ cmd = NoCmd /\ ran = 0 /\ apart = {}

Fault(k) == k \in FaultKinds

-----------------------------------------------------------------------------
(***************************************************************************)
(* The server.                                                             *)
(*   "open"    started with --skip-grant-tables --skip-networking          *)
(*   "fenced"  the same after FLUSH PRIVILEGES: passwords count again      *)
(***************************************************************************)
Server(mode, ready) == srv' = [mode |-> mode, ready |-> ready]

\* A recovery server is no part of the systemd unit, which does not stop it, and
\* no other server can use the data files while it runs.
Recovery == srv.mode \in {"open", "fenced"}

\* Mutant of ConfBind: a drop-in without an address counts.
ConfBindRaw(c) == IF c.dropIn # None THEN c.dropIn ELSE c.own
\* The drop-in sorts last among the files, so its address wins.
ConfBind(c) == IF c.dropIn \in Binds THEN c.dropIn ELSE c.own

\* systemctl start and restart.  A server that cannot bind does not stay up.
Starts ==
  /\ ConfBind(conf) \notin BadBinds /\ ~Recovery
  /\ live' = ConfBind(conf)
  /\ \/ Server("normal", TRUE)
     \/ Fault("slow") /\ Server("normal", FALSE)
StartFails(fault) ==
  /\ Fault(fault) \/ ConfBind(conf) \in BadBinds \/ srv.mode = "absent" \/ Recovery
  /\ IF srv.mode = "absent" \/ Recovery THEN UNCHANGED srv ELSE Server("down", FALSE)
  /\ UNCHANGED live

\* probeRootConnection without a password, on the socket.
RootReady == srv.ready /\ (srv.mode = "open" \/ acct[Root]["localhost"] = Socket)
RootDenied == srv.ready /\ ~RootReady

RootTcp ==
  IF acct[Root]["127.0.0.1"] = None THEN "localhost"
  ELSE IF acct[Root]["localhost"] = None THEN "127.0.0.1" ELSE tcpAs
TcpLogin(p) ==
  srv.ready /\ srv.mode = "normal" /\ p \in Passwords /\ acct[Root][RootTcp] = p
SocketLogin(p) == srv.ready /\ acct[Root]["localhost"] \in {p, Socket}

-----------------------------------------------------------------------------
(***************************************************************************)
(* SQL statements.                                                         *)
(***************************************************************************)
Stmt(kind, u, h, x) == [kind |-> kind, user |-> u, host |-> h, arg |-> x]
OnEach(kind, u, hs, x) == [i \in 1..Len(hs) |-> Stmt(kind, u, hs[i], x)]
Flush == <<Stmt("flush", Root, "localhost", None)>>

\* An account and its grants go together; a grant needs an account.
Legal(s) ==
  CASE s.kind \in {"alter", "grant"} -> acct[s.user][s.host] # None
    [] s.kind = "revoke"   -> [user |-> s.user, host |-> s.host, db |-> s.arg] \in grants
    [] s.kind = "createDb" -> s.arg \notin dbs
    [] s.kind = "reject"   -> FALSE
    [] OTHER -> TRUE

Apply(s) ==
  LET at  == acct[s.user][s.host]
      new == [user |-> s.user, host |-> s.host, db |-> s.arg]
      Set(p) == acct' = [acct EXCEPT ![s.user][s.host] = p]
  IN  /\ CASE s.kind = "create" /\ at = None -> Set(s.arg)
           [] s.kind = "alter" -> Set(s.arg)
           [] s.kind = "clone" /\ at = None -> Set(acct[s.user][s.arg])
           [] s.kind = "drop"  -> Set(None)
           [] OTHER -> UNCHANGED acct
      /\ grants' = CASE s.kind = "grant"  -> grants \cup {new}
                     [] s.kind = "revoke" -> grants \ {new}
                     [] s.kind = "drop"   ->
                          {g \in grants : ~(g.user = s.user /\ g.host = s.host)}
                     [] OTHER -> grants
      /\ dbs' = CASE s.kind \in {"createDb", "createDbIf"} -> dbs \cup {s.arg}
                  [] s.kind = "dropDb" -> dbs \ {s.arg}
                  [] OTHER -> dbs
      /\ srv' = IF s.kind = "flush" /\ srv.mode = "open"
                THEN [srv EXCEPT !.mode = "fenced"] ELSE srv

\* What install and reset-root-password run in one client, on the socket.
RootPasswordSQL(p) ==
  <<Stmt("alter", Root, "localhost", p), Stmt("create", Root, "127.0.0.1", p)>>
SetRootPasswordSQL(p) == Flush \o RootPasswordSQL(p) \o Flush
\* Mutant of SecureInstallSQL: remote root accounts are left alone.
SecureInstallKeepingRemote(p) == RootPasswordSQL(p) \o Flush
SecureInstallSQL(p) ==
  RootPasswordSQL(p) \o <<Stmt("drop", Root, "%", None)>> \o Flush

-----------------------------------------------------------------------------
(***************************************************************************)
(* Commands.                                                               *)
(***************************************************************************)
Goto(p) == cmd' = [cmd EXCEPT !.pc = p]
Hurt(p) == cmd' = [cmd EXCEPT !.pc = p, !.hurt = TRUE]
End(good) == cmd' = [cmd EXCEPT !.pc = "idle", !.todo = <<>>, !.ok = good]
Broken(p) == cmd' = [cmd EXCEPT !.pc = p, !.todo = <<>>, !.ok = FALSE, !.hurt = TRUE]

Begin(c) ==
  /\ Idle /\ c.op \in Commands /\ ran < MaxCommands
  /\ cmd' = c /\ ran' = ran + 1
  /\ UNCHANGED <<tcpAs, srv, live, conf, acct, grants, dbs, saved>>

\* A command made of statements, one client each.
Sql(op, u, h, x, todo) ==
  /\ Begin([NoCmd EXCEPT !.op = op, !.pc = "sql", !.user = u, !.host = h,
                         !.pw = IF x \in Passwords THEN x ELSE None,
                         !.db = IF x \in Databases THEN x ELSE None, !.todo = todo])
  /\ apart' = IF h = "127.0.0.1" \/ (h = "localhost" /\ op \in {"grant", "revoke"})
              THEN apart \cup ({u} \ {Root}) ELSE apart

HostsOf(u) == {h \in Hosts : acct[u][h] # None}

\* Mutant of UserHosts: only the local accounts are looked up.
UserLocalHosts(u) == Kept(LocalHosts, HostsOf(u))
\* userHosts: the hosts a user exists on; it is an error if there is none.
UserHosts(u) == Kept(AllHosts, HostsOf(u))

\* Mutant of AccountHosts: localhost stands for itself alone.
AccountHostsNamed(u, h) ==
  IF h = "" THEN UserHosts(u) ELSE Kept(<<h>>, HostsOf(u))
\* resolveAccountHosts: every host, the local pair, or the one that is named.
AccountHosts(u, h) ==
  IF h = "" THEN UserHosts(u)
  ELSE IF h = "localhost" THEN Kept(LocalHosts, HostsOf(u))
  ELSE Kept(<<h>>, HostsOf(u))

\* ensureLocalAppUserHosts: the missing one of the two local accounts.
CloneMissing(u) ==
  LET only(x, y) == acct[u][x] # None /\ acct[u][y] = None
  IN  IF only("localhost", "127.0.0.1")
      THEN <<Stmt("clone", u, "127.0.0.1", "localhost")>>
      ELSE IF only("127.0.0.1", "localhost")
      THEN <<Stmt("clone", u, "localhost", "127.0.0.1")>> ELSE <<>>

\* Mutant of OnTargets: without --host only localhost is meant.
OnLocalhost(kind, u, h, d) ==
  OnEach(kind, u, IF h # "" THEN <<h>> ELSE <<"localhost">>, d) \o Flush
\* grantTargetHosts: the host that is named, or both local ones.
OnTargets(kind, u, h, d) ==
  IF h # "" THEN OnEach(kind, u, <<h>>, d) \o Flush
  ELSE CloneMissing(u) \o OnEach(kind, u, LocalHosts, d) \o Flush
HasTargets(u, h) == h # "" \/ AccountHosts(u, "localhost") # <<>>

DbAdd(d, ifNotExists) ==
  Sql("dbAdd", Root, "", None,
      OnEach(IF ifNotExists THEN "createDbIf" ELSE "createDb", Root, <<"localhost">>, d))

DbRemove(d) == Sql("dbRemove", Root, "", None, OnEach("dropDb", Root, <<"localhost">>, d))

\* The preset is looked up once the accounts are there.
UserAdd(u, h, p, d, preset) ==
  LET hs == IF h \in {"", "localhost"} THEN LocalHosts ELSE <<h>>
  IN  Sql("userAdd", u, h, p,
          OnEach("create", u, hs, p) \o
          (IF d = None THEN <<>>
           ELSE IF preset = "unknown" THEN OnEach("reject", u, <<h>>, d)
           ELSE OnEach("grant", u, hs, d) \o Flush))

UserRemove(u, h) ==
  /\ TcpLogin(saved) /\ AccountHosts(u, h) # <<>>
  /\ Sql("userRemove", u, h, None, OnEach("drop", u, AccountHosts(u, h), None))

UserPassword(u, h, p) ==
  /\ TcpLogin(saved) /\ AccountHosts(u, h) # <<>>
  /\ Sql("userPassword", u, h, p, OnEach("alter", u, AccountHosts(u, h), p))

Grant(u, h, d) ==
  /\ h # "" \/ (TcpLogin(saved) /\ HasTargets(u, h))
  /\ Sql("grant", u, h, d, OnTargets("grant", u, h, d))

Revoke(u, h, d) ==
  /\ h # "" \/ (TcpLogin(saved) /\ HasTargets(u, h))
  /\ Sql("revoke", u, h, d, OnTargets("revoke", u, h, d))

\* SetConfig, called by config set: what the administrator typed.
SetConfig(p) ==
  /\ Idle /\ "configSet" \in Commands /\ ran < MaxCommands
  /\ saved' = p /\ ran' = ran + 1
  /\ cmd' = [NoCmd EXCEPT !.op = "configSet"]
  /\ UNCHANGED <<tcpAs, srv, live, conf, data, apart>>

Install(p) ==
  Begin([NoCmd EXCEPT !.op = "install", !.pc = "package", !.pw = p]) /\ UNCHANGED apart

ResetRootPassword(p) ==
  /\ srv.mode # "absent"
  /\ Begin([NoCmd EXCEPT !.op = "reset", !.pc = "stop", !.pw = p]) /\ UNCHANGED apart

EnableRemote(b) ==
  Begin([NoCmd EXCEPT !.op = "enable", !.pc = "write", !.bind = b]) /\ UNCHANGED apart

\* Nothing is removed unless the address in use comes from the drop-in; when
\* the server is down there is nothing to compare with.
DisableRemote ==
  /\ conf.dropIn # None
  /\ srv.ready => TcpLogin(saved) /\ conf.dropIn \in Binds /\ conf.dropIn = live
  /\ Begin([NoCmd EXCEPT !.op = "disable", !.pc = "unlink", !.bind = conf.dropIn])
  /\ UNCHANGED apart

-----------------------------------------------------------------------------
(***************************************************************************)
(* The command line: what an administrator can ask for.                    *)
(***************************************************************************)
ConfigSetCmd == \E p \in Passwords \cup {None} : SetConfig(p)
InstallCmd == \E p \in Passwords : Install(p)
ResetCmd   == \E p \in Passwords : ResetRootPassword(p)
DbAddCmd   == \E d \in Databases, b \in BOOLEAN : DbAdd(d, b)
DbRemoveCmd == \E d \in Databases : DbRemove(d)
UserAddCmd ==
  \E u \in Users, h \in HostFlags \ {""}, p \in Passwords, d \in Databases \cup {None},
     preset \in {"app", "unknown"} :
    /\ d = None => preset = "app"
    /\ UserAdd(u, h, p, d, preset)
UserRemoveCmd == \E u \in Users, h \in HostFlags \ {""} : UserRemove(u, h)
UserPasswordCmd ==
  \E u \in Targets, h \in HostFlags, p \in Passwords : UserPassword(u, h, p)
GrantCmd  == \E u \in Users, h \in HostFlags, d \in Databases : Grant(u, h, d)
RevokeCmd == \E u \in Users, h \in HostFlags, d \in Databases : Revoke(u, h, d)
EnableCmd == \E b \in Binds : EnableRemote(b)

-----------------------------------------------------------------------------
(***************************************************************************)
(* Steps.                                                                  *)
(***************************************************************************)
At(p) == cmd.pc = p
Op(o) == cmd.op = o
NoServer == UNCHANGED <<tcpAs, live, conf, data, saved, ran, apart>>

\* Where a command goes once its statements are done, or one of them failed.
AfterSql ==
  CASE Op("install") -> "verify" [] Op("reset") -> "shutdown" [] OTHER -> "idle"
\* Mutant of SqlFailed: the recovery server is left to itself.
SqlFailedAndReturns(hurt) ==
  cmd' = [cmd EXCEPT !.pc = "idle", !.todo = <<>>, !.ok = FALSE, !.hurt = @ \/ hurt]
\* A reset stops the recovery server before it returns.
SqlFailed(hurt) ==
  cmd' = [cmd EXCEPT !.pc = IF Op("reset") THEN "abort" ELSE "idle",
                     !.todo = <<>>, !.ok = FALSE, !.hurt = @ \/ hurt]

\* The statements of install and of reset share one client, logged in before.
LoggedIn == Op("install") \/ Op("reset") \/ TcpLogin(saved)

RunStatement ==
  /\ At("sql")
  /\ IF LoggedIn /\ Legal(Head(cmd.todo))
     THEN /\ Apply(Head(cmd.todo))
          /\ cmd' = IF Len(cmd.todo) > 1 THEN [cmd EXCEPT !.todo = Tail(@)]
                    ELSE [cmd EXCEPT !.todo = <<>>, !.pc = AfterSql]
          /\ UNCHANGED apart
     ELSE /\ SqlFailed(FALSE)
          /\ apart' = apart \cup ({cmd.user} \ {Root})
          /\ UNCHANGED <<srv, data>>
  /\ UNCHANGED <<tcpAs, live, conf, saved, ran>>

StatementFails ==
  /\ At("sql") /\ Fault("sql")
  /\ SqlFailed(TRUE)
  /\ apart' = apart \cup ({cmd.user} \ {Root})
  /\ UNCHANGED <<tcpAs, srv, live, conf, data, saved, ran>>

\* apt or dnf, then enable and start.  A new server lets root in on the socket.
InstallPackage ==
  /\ At("package")
  /\ \/ /\ srv.mode \in {"absent", "down"} /\ Starts /\ Goto("ready")
        /\ IF srv.mode # "absent" THEN UNCHANGED acct
           ELSE \E r \in {None, Socket} :
                  acct' = [acct EXCEPT ![Root] =
                             [NoAccounts EXCEPT !["localhost"] = Socket, !["%"] = r]]
     \/ srv.mode = "normal" /\ Goto("ready") /\ UNCHANGED <<srv, live, acct>>
     \/ Recovery /\ End(FALSE) /\ UNCHANGED <<srv, live, acct>>
     \/ Fault("pkg") /\ Broken("idle") /\ UNCHANGED <<srv, live, acct>>
     \/ srv.mode = "down" /\ StartFails("start") /\ Broken("idle") /\ UNCHANGED acct
  /\ UNCHANGED <<tcpAs, conf, grants, dbs, saved, ran, apart>>

\* waitForReady: it polls until root is let in, turned away, or time is up.
WaitForReady ==
  /\ At("ready")
  /\ \/ RootReady /\ Goto("connect")
     \/ RootDenied /\ End(FALSE)
     \/ ~srv.ready /\ Broken("idle")
  /\ UNCHANGED srv /\ NoServer

Statements ==
  IF Op("install") THEN SecureInstallSQL(cmd.pw) ELSE SetRootPasswordSQL(cmd.pw)

ExecAsRootSocket ==
  /\ At("connect")
  /\ IF RootReady THEN cmd' = [cmd EXCEPT !.pc = "sql", !.todo = Statements]
     ELSE SqlFailed(FALSE)
  /\ UNCHANGED srv /\ NoServer

\* Mutant of VerifyRootLogin: the login over TCP is not tried.
VerifySocketLogin ==
  /\ At("verify")
  /\ IF SocketLogin(cmd.pw) THEN Goto("save")
     ELSE IF srv.ready THEN End(FALSE) ELSE Broken("idle")
  /\ UNCHANGED srv /\ NoServer

VerifyRootLogin ==
  /\ At("verify")
  /\ IF TcpLogin(cmd.pw) /\ SocketLogin(cmd.pw) THEN Goto("save")
     ELSE IF srv.ready THEN End(FALSE) ELSE Broken("idle")
  /\ UNCHANGED srv /\ NoServer

\* saveRootCredentials.
SaveCredentials ==
  /\ At("save")
  /\ \/ saved' = cmd.pw /\ End(TRUE)
     \/ Fault("save") /\ saved' \in {saved, None} /\ Broken("idle")
  /\ UNCHANGED <<tcpAs, srv, live, conf, data, ran, apart>>

\* systemctl stop: a recovery server that an earlier reset left keeps running.
StopService ==
  /\ At("stop")
  /\ \/ (IF Recovery THEN UNCHANGED srv ELSE Server("down", FALSE)) /\ Goto("launch")
     \/ Fault("stop") /\ Broken("idle") /\ UNCHANGED srv
  /\ NoServer

StartRecovery ==
  /\ At("launch")
  /\ \/ ~Recovery /\ Server("open", TRUE) /\ Goto("ready")
     \/ ~Recovery /\ Fault("slow") /\ Server("open", FALSE) /\ Goto("ready")
     \/ (Recovery \/ Fault("launch")) /\ Broken("idle") /\ UNCHANGED srv
  /\ NoServer

\* stopRecoveryMysqld: SHUTDOWN without a password, or else kill.
StopRecovery ==
  /\ At("shutdown") \/ At("abort")
  /\ \/ Server("down", FALSE) /\ IF At("abort") THEN End(FALSE) ELSE Goto("start")
     \/ ~RootReady /\ Fault("shutdown") /\ Broken("idle") /\ UNCHANGED srv
  /\ NoServer

StartService ==
  /\ At("start")
  /\ \/ Starts /\ Goto("verify")
     \/ StartFails("start") /\ Broken("idle")
  /\ UNCHANGED <<tcpAs, conf, data, saved, ran, apart>>

-----------------------------------------------------------------------------
(* Remote access. *)
WriteDropIn ==
  /\ At("write")
  /\ \/ conf' = [conf EXCEPT !.dropIn = cmd.bind] /\ Goto("restart")
     \/ Fault("write") /\ conf' = [conf EXCEPT !.dropIn = NoBind] /\ Broken("idle")
  /\ UNCHANGED <<tcpAs, srv, live, data, saved, ran, apart>>

RemoveDropIn ==
  /\ At("unlink")
  /\ \/ conf' = [conf EXCEPT !.dropIn = None] /\ Goto("restart")
     \/ Fault("unlink") /\ Broken("idle") /\ UNCHANGED conf
  /\ UNCHANGED <<tcpAs, srv, live, data, saved, ran, apart>>

RestartServer ==
  /\ At("restart") \/ At("undoRestart")
  /\ \/ /\ srv.mode # "absent" /\ Starts
        /\ Goto(IF At("restart") THEN "wait" ELSE "undoWait")
     \/ StartFails("restart") /\ (IF At("restart") THEN Hurt("undo") ELSE Broken("idle"))
  /\ UNCHANGED <<tcpAs, conf, data, saved, ran, apart>>

\* waitForDatabase: being asked for a password is good enough.
WaitForDatabase ==
  /\ At("wait") \/ At("undoWait")
  /\ CASE At("undoWait") -> End(FALSE)
       [] At("wait") /\ ~srv.ready -> Hurt("undo")
       [] At("wait") /\ srv.ready /\ Op("enable")  -> End(TRUE)
       [] At("wait") /\ srv.ready /\ Op("disable") -> Goto("confirm")
  /\ UNCHANGED srv /\ NoServer

\* Mutant of UndoDropIn: the server is not restarted.
UndoQuietly ==
  /\ At("undo")
  /\ conf' = [conf EXCEPT !.dropIn = IF Op("enable") THEN None ELSE cmd.bind]
  /\ End(FALSE)
  /\ UNCHANGED <<tcpAs, srv, live, data, saved, ran, apart>>
\* Mutant of UndoDropIn: a failed disable removes the drop-in too.
UndoByRemoving ==
  /\ At("undo")
  /\ conf' = [conf EXCEPT !.dropIn = None] /\ Goto("undoRestart")
  /\ UNCHANGED <<tcpAs, srv, live, data, saved, ran, apart>>
\* rollbackEnable removes the drop-in; rollbackDisable writes it again.
UndoDropIn ==
  /\ At("undo")
  /\ \/ conf' = [conf EXCEPT !.dropIn = IF Op("enable") THEN None ELSE cmd.bind]
     \/ Op("enable")  /\ Fault("unlink") /\ UNCHANGED conf
     \/ Op("disable") /\ Fault("write")  /\ conf' = [conf EXCEPT !.dropIn = NoBind]
  /\ Goto("undoRestart")
  /\ UNCHANGED <<tcpAs, srv, live, data, saved, ran, apart>>

\* Mutant of ConfirmDisabled: the address is not read again.
TrustDisabled == At("confirm") /\ End(TRUE) /\ UNCHANGED srv /\ NoServer

ConfirmDisabled ==
  /\ At("confirm")
  /\ End(TcpLogin(saved) /\ live \in Loopback)
  /\ UNCHANGED srv /\ NoServer

-----------------------------------------------------------------------------
\* A server that was slow to start accepts connections in the end.
ComesUp ==
  /\ srv.mode \in {"normal", "open"} /\ ~srv.ready
  /\ srv' = [srv EXCEPT !.ready = TRUE]
  /\ UNCHANGED cmd /\ NoServer

\* The process is killed; a file being written is left without contents.
Kill ==
  /\ cmd.pc \in CrashAt
  /\ cmd' = [NoCmd EXCEPT !.op = "killed"]
  /\ apart' = IF At("sql") THEN apart \cup ({cmd.user} \ {Root}) ELSE apart
  /\ saved' \in IF At("save") THEN {saved, None} ELSE {saved}
  /\ conf' \in IF At("write") \/ (At("undo") /\ Op("disable"))
               THEN {conf, [conf EXCEPT !.dropIn = NoBind]} ELSE {conf}
  /\ UNCHANGED <<tcpAs, srv, live, data, ran>>

Next ==
  \/ ConfigSetCmd \/ InstallCmd \/ ResetCmd \/ DbAddCmd \/ DbRemoveCmd
  \/ UserAddCmd \/ UserRemoveCmd \/ UserPasswordCmd \/ GrantCmd \/ RevokeCmd
  \/ EnableCmd \/ DisableRemote
  \/ RunStatement \/ StatementFails
  \/ InstallPackage \/ WaitForReady \/ ExecAsRootSocket \/ VerifyRootLogin
  \/ SaveCredentials \/ StopService \/ StartRecovery \/ StopRecovery \/ StartService
  \/ WriteDropIn \/ RemoveDropIn \/ RestartServer \/ WaitForDatabase
  \/ UndoDropIn \/ ConfirmDisabled
  \/ ComesUp \/ Kill

Spec == Init /\ [][Next]_vars

-----------------------------------------------------------------------------
(***************************************************************************)
(* Properties.                                                             *)
(***************************************************************************)
TypeOK ==
  /\ tcpAs \in {"localhost", "127.0.0.1"}
  /\ srv \in [mode : {"absent", "down", "normal", "open", "fenced"}, ready : BOOLEAN]
  /\ live \in Binds
  /\ conf \in [own : OwnBinds, dropIn : Binds \cup {None, NoBind}]
  /\ acct \in [Accounts -> [Hosts -> Passwords \cup {None, Socket}]]
  /\ grants \in SUBSET [user : Users, host : Hosts, db : Databases]
  /\ dbs \subseteq Databases
  /\ saved \in Passwords \cup {None}
  /\ cmd.pc \in Labels \cup {"idle"} /\ cmd.op \in AllCommands \cup {"none", "killed"}
  /\ ran \in 0..MaxCommands /\ apart \subseteq Users

\* The step with which a command ends by itself.
Ends(op) == ~Idle /\ cmd'.pc = "idle" /\ cmd'.op = op

\* A user's two local accounts, localhost and 127.0.0.1, have one password and
\* the same grants, whatever commands touched them, as long as none named one of
\* the two or stopped half way.  (UserAdd, UserPassword, UserRemove, Grant and
\* Revoke each loop over the hosts, one mysql client per host.)
PairAgrees ==
  Idle => \A u \in Users \ apart :
    /\ acct[u]["localhost"] = acct[u]["127.0.0.1"]
    /\ \A d \in Databases :
         [user |-> u, host |-> "localhost", db |-> d] \in grants
         <=> [user |-> u, host |-> "127.0.0.1", db |-> d] \in grants

\* A revoke without --host that reports success leaves neither local account
\* with the database, although an account that never had it makes the server
\* refuse the statement.  (Revoke, grantTargetHosts)  It is all that holds: the
\* help of --host says "default: all hosts the user exists on", but what the
\* user's account on any other host ("%") was granted stays, and nothing is said.
RevokedLocally ==
  [][Ends("revoke") /\ cmd'.ok /\ cmd.host = "" =>
       \A g \in grants' : g.user = cmd.user /\ g.db = cmd.db => g.host = "%"]_vars

\* A password change that reports success left no account it covers, and that
\* still exists, with another password.  (UserPassword, resolveAccountHosts)
PasswordChanged ==
  [][Ends("userPassword") /\ cmd'.ok =>
       \A h \in Hosts :
         /\ acct'[cmd.user][h] # None
         /\ cmd.host \in {"", h} \/ (cmd.host = "localhost" /\ h # "%")
         => acct'[cmd.user][h] = cmd.pw]_vars

\* install and reset-root-password save a password only after it opened the
\* server both over TCP and on the socket.  (verifyRootLogin, waitForRootLogin)
SavedPasswordWorks ==
  [][(Ends("install") \/ Ends("reset")) /\ cmd'.ok =>
       /\ acct'[Root][RootTcp] = saved' /\ saved' = cmd.pw
       /\ acct'[Root]["localhost"] \in {saved', Socket}
       /\ srv'.mode = "normal"]_vars

\* Root is never left without a password by an install that reports success,
\* and cannot log in from elsewhere.  (buildSecureInstallSQL)
InstallSecures ==
  [][Ends("install") /\ cmd'.ok =>
       acct'[Root]["localhost"] \in Passwords /\ acct'[Root]["%"] = None]_vars

\* A reset that ends by itself stops the server it started that ignores the
\* grant tables, unless that could not be stopped or was too slow to answer in
\* time (startRecoveryMysqld returns without stopping it).  At "stop" and at
\* "launch" it has started none: what runs there is one that a killed reset left,
\* which nothing stops and which makes every later reset fail.
RecoveryStopped ==
  [][Ends("reset") /\ srv'.mode \in {"open", "fenced"} =>
       \/ ~RootReady /\ (At("shutdown") \/ At("abort"))
       \/ At("ready") /\ ~srv.ready
       \/ (At("stop") \/ At("launch")) /\ srv' = srv]_vars

\* remote disable reports success only if the server listens locally, whatever
\* other file sets the address.  (DisableRemote reads the address once more)
DisabledIsLocal ==
  [][Ends("disable") /\ cmd'.ok => live' \in Loopback /\ srv'.ready]_vars

\* A remote command that ends leaves the server with the address its files ask
\* for: the drop-in never changes without a restart after it, not even when the
\* command fails and undoes itself.  (rollbackEnable, rollbackDisable)
RemoteSettled ==
  [][(Ends("enable") \/ Ends("disable")) /\ ~At("write") /\ ~At("unlink") /\ srv'.mode = "normal" =>
       live' = ConfBind(conf')]_vars

\* A remote disable that reports an error is not left half done: the drop-in is
\* there as before ("If the service does not come back, the drop-in is restored"),
\* or it is gone, and the server runs with the address of the other files (the
\* address could not be confirmed, or is not a local one).
DisabledOrRestored ==
  [][Ends("disable") /\ ~cmd'.ok =>
       \/ conf'.dropIn = cmd.bind
       \/ conf'.dropIn = None /\ srv'.mode = "normal" /\ live' = conf'.own]_vars

\* A reset that meets no failing command succeeds.  (mysql.go: "use `mysql
\* reset-root-password` if you have lost the root password")
ResetSucceeds ==
  [][Ends("reset") /\ ~cmd'.ok => cmd'.hurt]_vars
=============================================================================
