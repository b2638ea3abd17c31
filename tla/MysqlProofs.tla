---------------------------- MODULE MysqlProofs -----------------------------
(***************************************************************************)
(* Theorems about Mysql, for every value of its constants.                 *)
(***************************************************************************)
EXTENDS Mysql, ListsProofs

Kinds == {"create", "alter", "clone", "drop", "flush", "grant", "revoke",
          "createDb", "createDbIf", "dropDb", "reject"}
Statement == [kind : Kinds, user : Accounts, host : Hosts,
              arg : Passwords \cup Databases \cup Hosts \cup {None}]
HostArgs == Hosts \cup {""}
SqlOps == {"dbAdd", "dbRemove", "userAdd", "userRemove", "userPassword", "grant", "revoke"}

\* --host h covers the account on y.
Covered(h, y) == h \in {"", y} \/ (h = "localhost" /\ y # "%")

LEMMA TailEmpty ==
  ASSUME NEW S, NEW s \in Seq(S), s # <<>>
  PROVE  IF Len(s) > 1 THEN Tail(s) # <<>> ELSE Tail(s) = <<>>
<1>1. Len(s) \in Nat /\ Len(s) # 0 /\ Tail(s) \in Seq(S) /\ Len(Tail(s)) = Len(s) - 1
  OBVIOUS
<1>2. \A t \in Seq(S) : t = <<>> <=> Len(t) = 0
  OBVIOUS
<1>3. Tail(s) = <<>> <=> Len(Tail(s)) = 0
  BY <1>1, <1>2
<1> QED
  BY <1>1, <1>3

LEMMA HostArgsHave == Hosts \subseteq HostArgs /\ "" \in HostArgs
BY DEF HostArgs

-----------------------------------------------------------------------------
(***************************************************************************)
(* The lists of statements.                                                *)
(***************************************************************************)
LEMMA OnEachShape ==
  ASSUME NEW k \in Kinds, NEW u \in Accounts, NEW hs \in Seq(Hosts),
         NEW x \in Passwords \cup Databases \cup Hosts \cup {None}
  PROVE  /\ OnEach(k, u, hs, x) \in Seq(Statement)
         /\ \A s : s \in Elems(OnEach(k, u, hs, x)) <=> \E h \in Elems(hs) : s = Stmt(k, u, h, x)
         /\ hs # <<>> => OnEach(k, u, hs, x) # <<>>
<1>1. Len(hs) \in Nat
  OBVIOUS
<1>2. \A h \in Hosts : Stmt(k, u, h, x) \in Statement
  BY DEF Stmt, Statement
<1>3. DOMAIN hs = 1..Len(hs) /\ \A i \in 1..Len(hs) : hs[i] \in Hosts
  OBVIOUS
<1> HIDE DEF Stmt, Statement
<1>4. OnEach(k, u, hs, x) = [i \in 1..Len(hs) |-> Stmt(k, u, hs[i], x)]
  BY DEF OnEach
<1>5. OnEach(k, u, hs, x) \in Seq(Statement)
  BY <1>1, <1>2, <1>3, <1>4
<1>6. \A s : s \in Elems(OnEach(k, u, hs, x)) <=> \E h \in Elems(hs) : s = Stmt(k, u, h, x)
  BY <1>3, <1>4 DEF Elems
<1>7. hs # <<>> => OnEach(k, u, hs, x) # <<>>
  <2>1. Len(OnEach(k, u, hs, x)) = Len(hs)
    BY <1>1, <1>4
  <2> QED BY <2>1, <1>1
<1> QED
  BY <1>5, <1>6, <1>7

LEMMA OnOneShape ==
  ASSUME NEW k \in Kinds, NEW u \in Accounts, NEW h \in Hosts,
         NEW x \in Passwords \cup Databases \cup Hosts \cup {None}
  PROVE  /\ OnEach(k, u, <<h>>, x) \in Seq(Statement)
         /\ Elems(OnEach(k, u, <<h>>, x)) = {Stmt(k, u, h, x)}
         /\ OnEach(k, u, <<h>>, x) # <<>>
<1>1. <<h>> \in Seq(Hosts) /\ Elems(<<h>>) = {h} /\ <<h>> # <<>>
  BY ElemsShort
<1>2. \A s : s \in Elems(OnEach(k, u, <<h>>, x))
             <=> \E y \in Elems(<<h>>) : s = Stmt(k, u, y, x)
  BY <1>1, OnEachShape
<1>3. Elems(OnEach(k, u, <<h>>, x)) = {Stmt(k, u, h, x)}
  BY <1>1, <1>2
<1> QED
  BY <1>1, <1>3, OnEachShape

\* The hosts of an account: the accounts of the user, the local ones, or the one named.
LEMMA HostLists ==
  /\ AllHosts \in Seq(Hosts) /\ Elems(AllHosts) = Hosts
  /\ LocalHosts \in Seq(Hosts) /\ Elems(LocalHosts) = {"localhost", "127.0.0.1"}
  /\ LocalHosts # <<>>
  /\ \A h \in Hosts : <<h>> \in Seq(Hosts) /\ Elems(<<h>>) = {h} /\ <<h>> # <<>>
<1>1. Elems(AllHosts) = Hosts /\ Elems(LocalHosts) = {"localhost", "127.0.0.1"}
  BY ElemsShort DEF AllHosts, LocalHosts, Hosts
<1>2. \A h \in Hosts : Elems(<<h>>) = {h}
  BY ElemsShort
<1> QED
  BY <1>1, <1>2 DEF AllHosts, LocalHosts, Hosts

LEMMA AccountHostsShape ==
  ASSUME NEW u, NEW h \in HostArgs
  PROVE  /\ AccountHosts(u, h) \in Seq(Hosts)
         /\ Elems(AccountHosts(u, h)) =
              {x \in Hosts : acct[u][x] # None /\ Covered(h, x)}
<1>1. \A s \in Seq(Hosts) : /\ Kept(s, HostsOf(u)) \in Seq(Hosts)
                            /\ Elems(Kept(s, HostsOf(u))) = Elems(s) \cap HostsOf(u)
  BY KeptShape
<1>2. CASE h = ""
  BY <1>1, <1>2, HostLists DEF AccountHosts, UserHosts, HostsOf, Covered
<1>3. CASE h = "localhost"
  BY <1>1, <1>3, HostLists DEF AccountHosts, HostsOf, Hosts, Covered
<1>4. CASE h \in {"%", "127.0.0.1"}
  <2>1. AccountHosts(u, h) = Kept(<<h>>, HostsOf(u)) /\ h \in Hosts
    BY <1>4 DEF AccountHosts, Hosts
  <2>2. /\ AccountHosts(u, h) \in Seq(Hosts)
        /\ Elems(AccountHosts(u, h)) = {h} \cap HostsOf(u)
    BY <2>1, <1>1, HostLists
  <2> QED
    BY <2>2, <1>4 DEF HostsOf, Hosts, Covered
<1> QED
  BY <1>2, <1>3, <1>4 DEF Hosts, HostArgs

-----------------------------------------------------------------------------
(***************************************************************************)
(* The running command: which step belongs to which command, and which     *)
(* statements it may still have to send.                                   *)
(***************************************************************************)
CmdSet == [op : AllCommands \cup {"none", "killed"}, pc : Labels \cup {"idle"},
           todo : Seq(Statement), user : Accounts, host : HostArgs,
           pw : Passwords \cup {None}, db : Databases \cup {None},
           bind : Binds \cup {None, NoBind}, ok : BOOLEAN, hurt : BOOLEAN]

FlushStmt == Stmt("flush", Root, "localhost", None)
Fits(s) ==
  \/ s = FlushStmt /\ cmd.op \in {"userAdd", "grant", "revoke", "install", "reset"}
  \/ Op("dbAdd") /\ s.kind \in {"createDb", "createDbIf"} /\ s.arg \in Databases
  \/ Op("dbRemove") /\ s.kind = "dropDb"
  \/ Op("userAdd") /\ s.user = cmd.user /\ s.kind = "create" /\ s.arg = cmd.pw
  \/ Op("userAdd") /\ s.user = cmd.user /\ s.kind = "grant" /\ s.arg \in Databases
  \/ Op("userAdd") /\ s.user = cmd.user /\ s.kind = "reject"
  \/ Op("userPassword") /\ s.user = cmd.user /\ s.kind = "alter" /\ s.arg = cmd.pw
  \/ Op("userRemove") /\ s.user = cmd.user /\ s.kind = "drop" /\ s.arg = None
  \/ cmd.op \in {"grant", "revoke"} /\ s.user = cmd.user /\ s.kind = "clone" /\ s.arg \in Hosts
  \/ cmd.op \in {"grant", "revoke"} /\ s.user = cmd.user /\ s.kind = cmd.op /\ s.arg = cmd.db
  \/ /\ cmd.op \in {"install", "reset"} /\ s.user = Root
     /\ \/ s.kind = "alter" /\ s.host = "localhost" /\ s.arg = cmd.pw
        \/ s.kind = "create" /\ s.host = "127.0.0.1" /\ s.arg = cmd.pw
        \/ s.kind = "drop" /\ s.host = "%"

\* Step p is one of command o.
Belongs(p, o) ==
  /\ p = "sql" => o \in SqlOps \cup {"install", "reset"}
  /\ p = "package" => o = "install"
  /\ p \in {"stop", "launch", "shutdown", "abort", "start"} => o = "reset"
  /\ p \in {"ready", "connect", "verify", "save"} => o \in {"install", "reset"}
  /\ p = "write" => o = "enable"
  /\ p \in {"unlink", "confirm"} => o = "disable"
  /\ p \in {"restart", "wait", "undo", "undoRestart", "undoWait"} => o \in RemoteOps
Args ==
  /\ cmd.op \in {"install", "reset", "userAdd", "userPassword"} => cmd.pw \in Passwords
  /\ cmd.op \in {"install", "reset"} => cmd.user = Root
  /\ cmd.op \in {"userAdd", "userRemove", "grant", "revoke"} => cmd.user \in Users
  /\ cmd.op \in {"grant", "revoke"} => cmd.db \in Databases
  /\ cmd.op = "enable" => cmd.bind \in Binds
  /\ cmd.op = "disable" => cmd.bind \in Binds \cup {NoBind}

CmdInv ==
  /\ cmd \in CmdSet
  /\ \A s \in Elems(cmd.todo) : Fits(s)
  /\ At("sql") <=> cmd.todo # <<>>
  /\ Belongs(cmd.pc, cmd.op)
  /\ ~Idle => Args

LEMMA NoCmdTyped == NoCmd \in CmdSet
<1>1. Root \in Accounts /\ "" \in HostArgs
  BY HostArgsHave DEF Accounts
<1> QED
  BY <1>1, EmptyList DEF NoCmd, CmdSet

\* The start of a command that is a list of statements.
LEMMA SqlShape ==
  ASSUME NEW op \in SqlOps, NEW u \in Accounts, NEW h \in HostArgs,
         NEW x \in Passwords \cup Databases \cup {None},
         NEW todo \in Seq(Statement), todo # <<>>, Sql(op, u, h, x, todo)
  PROVE  /\ Idle /\ cmd' \in CmdSet
         /\ cmd'.op = op /\ cmd'.pc = "sql" /\ cmd'.todo = todo
         /\ cmd'.user = u /\ cmd'.host = h /\ cmd'.ok
         /\ x \in Passwords => cmd'.pw = x
         /\ x \in Databases => cmd'.db = x
         /\ apart' = IF h = "127.0.0.1" \/ (h = "localhost" /\ op \in {"grant", "revoke"})
                     THEN apart \cup ({u} \ {Root}) ELSE apart
         /\ ran' = ran + 1 /\ ran < MaxCommands
         /\ UNCHANGED <<tcpAs, srv, live, conf, acct, grants, dbs, saved>>
<1>1. NoCmd \in CmdSet
  BY NoCmdTyped
<1>2. /\ Idle /\ ran < MaxCommands /\ ran' = ran + 1
      /\ cmd' = [NoCmd EXCEPT !.op = op, !.pc = "sql", !.user = u, !.host = h,
                         !.pw = IF x \in Passwords THEN x ELSE None,
                         !.db = IF x \in Databases THEN x ELSE None, !.todo = todo]
      /\ UNCHANGED <<tcpAs, srv, live, conf, acct, grants, dbs, saved>>
      /\ apart' = IF h = "127.0.0.1" \/ (h = "localhost" /\ op \in {"grant", "revoke"})
                  THEN apart \cup ({u} \ {Root}) ELSE apart
  BY DEF Sql, Begin
<1>3. NoCmd.ok /\ op \in AllCommands /\ "sql" \in Labels
  BY DEF NoCmd, SqlOps, AllCommands, Labels
<1>4. /\ cmd'.op = op /\ cmd'.pc = "sql" /\ cmd'.todo = todo
      /\ cmd'.user = u /\ cmd'.host = h /\ cmd'.ok
      /\ x \in Passwords => cmd'.pw = x
      /\ x \in Databases => cmd'.db = x
  BY <1>1, <1>2, <1>3 DEF CmdSet
<1>5. cmd' \in CmdSet
  <2> DEFINE pw == IF x \in Passwords THEN x ELSE None
             db == IF x \in Databases THEN x ELSE None
  <2>1. pw \in Passwords \cup {None} /\ db \in Databases \cup {None}
    OBVIOUS
  <2>2. cmd' = [NoCmd EXCEPT !.op = op, !.pc = "sql", !.user = u, !.host = h,
                             !.pw = pw, !.db = db, !.todo = todo]
    BY <1>2
  <2> HIDE DEF pw, db
  <2> QED BY <1>1, <1>3, <2>1, <2>2 DEF CmdSet
<1> QED
  BY <1>2, <1>4, <1>5

-----------------------------------------------------------------------------
(***************************************************************************)
(* What each command is made of.                                           *)
(***************************************************************************)
\* The variables a command made of statements leaves alone when it starts.
Started ==
  /\ Idle /\ cmd'.pc = "sql" /\ cmd'.ok /\ cmd' \in CmdSet /\ cmd'.todo # <<>>
  /\ ran' = ran + 1 /\ ran < MaxCommands
  /\ UNCHANGED <<tcpAs, srv, live, conf, acct, grants, dbs, saved>>
OnHosts(kind, hs, x) == {Stmt(kind, cmd'.user, h, x) : h \in hs}

LEMMA FlushShape ==
  Flush \in Seq(Statement) /\ Elems(Flush) = {FlushStmt} /\ Flush # <<>>
<1>1. FlushStmt \in Statement
  BY DEF FlushStmt, Stmt, Statement, Kinds, Accounts, Hosts
<1> QED
  BY <1>1, ElemsShort DEF Flush, FlushStmt

LEMMA DbAddStarts ==
  ASSUME DbAddCmd
  PROVE  /\ Started /\ cmd'.op = "dbAdd" /\ UNCHANGED apart
         /\ \A s \in Elems(cmd'.todo) : s.kind \in {"createDb", "createDbIf"} /\ s.arg \in Databases
<1>1. PICK d \in Databases, b \in BOOLEAN : DbAdd(d, b)
  BY DEF DbAddCmd
<1> DEFINE k == IF b THEN "createDbIf" ELSE "createDb"
           todo == OnEach(k, Root, <<"localhost">>, d)
<1>2. k \in {"createDb", "createDbIf"} /\ k \in Kinds /\ Root \in Accounts /\ "localhost" \in Hosts
  BY DEF Kinds, Accounts, Hosts
<1>3. Sql("dbAdd", Root, "", None, todo)
  BY <1>1 DEF DbAdd
<1> HIDE DEF k
<1>4. /\ todo \in Seq(Statement) /\ Elems(todo) = {Stmt(k, Root, "localhost", d)} /\ todo # <<>>
  BY <1>1, <1>2, OnOneShape
<1> HIDE DEF todo
<1>6. /\ Started /\ cmd'.op = "dbAdd" /\ cmd'.todo = todo /\ UNCHANGED apart
  <2>1. "dbAdd" \in SqlOps /\ "" \in HostArgs /\ "" # "127.0.0.1" /\ "" # "localhost"
    BY HostArgsHave DEF SqlOps
  <2> HIDE DEF SqlOps, Hosts
  <2> QED BY <1>2, <1>3, <1>4, <2>1, SqlShape DEF Started
<1> QED
  BY <1>1, <1>2, <1>4, <1>6 DEF Stmt

LEMMA DbRemoveStarts ==
  ASSUME DbRemoveCmd
  PROVE  /\ Started /\ cmd'.op = "dbRemove" /\ UNCHANGED apart
         /\ \A s \in Elems(cmd'.todo) : s.kind = "dropDb"
<1>1. PICK d \in Databases : DbRemove(d)
  BY DEF DbRemoveCmd
<1> DEFINE todo == OnEach("dropDb", Root, <<"localhost">>, d)
<1>2. "dropDb" \in Kinds /\ Root \in Accounts /\ "localhost" \in Hosts
  BY DEF Kinds, Accounts, Hosts
<1>3. Sql("dbRemove", Root, "", None, todo)
  BY <1>1 DEF DbRemove
<1>4. /\ todo \in Seq(Statement) /\ Elems(todo) = {Stmt("dropDb", Root, "localhost", d)}
      /\ todo # <<>>
  BY <1>1, <1>2, OnOneShape
<1> HIDE DEF todo
<1>6. /\ Started /\ cmd'.op = "dbRemove" /\ cmd'.todo = todo /\ UNCHANGED apart
  <2>1. "dbRemove" \in SqlOps /\ "" \in HostArgs /\ "" # "127.0.0.1" /\ "" # "localhost"
    BY HostArgsHave DEF SqlOps
  <2> HIDE DEF SqlOps, Hosts
  <2> QED BY <1>2, <1>3, <1>4, <2>1, SqlShape DEF Started
<1> QED
  BY <1>4, <1>6 DEF Stmt

\* A list with the same statements for localhost and for 127.0.0.1.
Local == {"localhost", "127.0.0.1"}
Twin(todo, u) ==
  \A k \in {"create", "alter", "drop", "grant", "revoke"} : \A x :
    Stmt(k, u, "localhost", x) \in Elems(todo) <=> Stmt(k, u, "127.0.0.1", x) \in Elems(todo)
Apart(h, op) == h = "127.0.0.1" \/ (h = "localhost" /\ op \in {"grant", "revoke"})
Marked == apart' = IF Apart(cmd'.host, cmd'.op) THEN apart \cup ({cmd'.user} \ {Root}) ELSE apart

LEMMA UserAddStarts ==
  ASSUME NEW u \in Users, NEW h \in Hosts, NEW p \in Passwords,
         NEW d \in Databases \cup {None}, NEW preset,
         d = None => preset = "app", UserAdd(u, h, p, d, preset)
  PROVE  /\ Started /\ cmd'.op = "userAdd" /\ Marked
         /\ cmd'.user \in Users /\ cmd'.pw \in Passwords
         /\ \A s \in Elems(cmd'.todo) :
              \/ s = FlushStmt
              \/ s.user = cmd'.user /\ s.kind = "create" /\ s.arg = cmd'.pw
              \/ s.user = cmd'.user /\ s.kind = "grant" /\ s.arg \in Databases
              \/ s.user = cmd'.user /\ s.kind = "reject"
         /\ ~Apart(cmd'.host, cmd'.op) => Twin(cmd'.todo, cmd'.user)
<1> DEFINE hs == IF h \in {"", "localhost"} THEN LocalHosts ELSE <<h>>
           create == OnEach("create", u, hs, p)
           grant == IF d = None THEN <<>>
                    ELSE IF preset = "unknown" THEN OnEach("reject", u, <<h>>, d)
                    ELSE OnEach("grant", u, hs, d) \o Flush
<1>2. Sql("userAdd", u, h, p, create \o grant)
  BY DEF UserAdd
<1>3. u \in Accounts
  BY DEF Accounts
<1>k. "create" \in Kinds /\ "grant" \in Kinds /\ "reject" \in Kinds
  BY DEF Kinds
<1>h. hs \in Seq(Hosts) /\ hs # <<>>
  BY HostLists
<1>4. /\ h = "localhost" => Elems(hs) = Local
      /\ h # "localhost" => Elems(hs) = {h}
  BY HostLists DEF Local, Hosts
<1> HIDE DEF hs
<1>c. create \in Seq(Statement) /\ create # <<>>
  BY <1>3, <1>k, <1>h, OnEachShape
<1>5. \A s : s \in Elems(create) <=> \E x \in Elems(hs) : s = Stmt("create", u, x, p)
  BY <1>3, <1>k, <1>h, OnEachShape
<1> HIDE DEF create
<1> DEFINE reject == OnEach("reject", u, <<h>>, d)
           give == OnEach("grant", u, hs, d)
<1>r. d \in Databases => reject \in Seq(Statement) /\ Elems(reject) = {Stmt("reject", u, h, d)}
  BY <1>3, <1>k, OnOneShape
<1>g. d \in Databases => give \in Seq(Statement)
  BY <1>3, <1>k, <1>h, OnEachShape
<1>i. d \in Databases =>
        \A s : s \in Elems(give) <=> \E x \in Elems(hs) : s = Stmt("grant", u, x, d)
  BY <1>3, <1>k, <1>h, OnEachShape
<1> HIDE DEF reject, give
<1>j. d \in Databases => /\ give \o Flush \in Seq(Statement)
                         /\ Elems(give \o Flush) = Elems(give) \cup {FlushStmt}
  BY <1>g, FlushShape, ElemsConcat
<1>l. \/ d = None /\ grant = <<>>
      \/ d \in Databases /\ grant = reject
      \/ d \in Databases /\ grant = give \o Flush
  BY DEF reject, give
<1> HIDE DEF grant
<1>m. grant \in Seq(Statement)
  BY <1>l, <1>r, <1>j, EmptyList
<1>6. \/ \A s \in Elems(grant) : s = Stmt("reject", u, h, d)
      \/ /\ d \in Databases
         /\ \A s : s \in Elems(grant)
                  <=> s = FlushStmt \/ \E x \in Elems(hs) : s = Stmt("grant", u, x, d)
  <2>1. CASE grant = <<>>
    BY <2>1, ElemsShort
  <2>2. CASE d \in Databases /\ grant = reject
    BY <2>2, <1>r
  <2>3. CASE d \in Databases /\ grant = give \o Flush
    BY <2>3, <1>i, <1>j
  <2> QED BY <2>1, <2>2, <2>3, <1>l
<1> DEFINE todo == create \o grant
<1>7. todo \in Seq(Statement) /\ todo # <<>>
  BY <1>c, <1>m, ElemsConcat
<1>n. Elems(todo) = Elems(create) \cup Elems(grant)
  BY <1>c, <1>m, ElemsConcat
<1>8. /\ Started /\ cmd'.op = "userAdd" /\ cmd'.todo = todo /\ Marked
      /\ cmd'.user = u /\ cmd'.host = h /\ cmd'.pw = p
  <2>1. "userAdd" \in SqlOps /\ h \in HostArgs /\ Sql("userAdd", u, h, p, todo)
    BY <1>2, <1>3, HostArgsHave DEF SqlOps
  <2> HIDE DEF SqlOps, Hosts, todo
  <2> QED BY <1>3, <1>7, <2>1, SqlShape DEF Started, Marked, Apart
<1> HIDE DEF todo
<1>9. \A s \in Elems(todo) :
        \/ s = FlushStmt
        \/ s.user = u /\ s.kind = "create" /\ s.arg = p
        \/ s.user = u /\ s.kind = "grant" /\ s.arg \in Databases
        \/ s.user = u /\ s.kind = "reject"
  <2> TAKE s \in Elems(todo)
  <2>1. CASE s \in Elems(create)
    BY <2>1, <1>5 DEF Stmt
  <2>2. CASE s \in Elems(grant)
    BY <2>2, <1>6 DEF Stmt
  <2> QED BY <2>1, <2>2, <1>n
<1>10. ~Apart(h, "userAdd") => Twin(todo, u)
  <2>1. SUFFICES ASSUME h # "127.0.0.1" PROVE Twin(todo, u)
    BY DEF Apart
  <2>2. "localhost" \in Elems(hs) <=> "127.0.0.1" \in Elems(hs)
    BY <1>4, <2>1 DEF Local
  <2>4. \A k, v, x, l, w, y : Stmt(k, u, v, x) = Stmt(l, u, w, y) <=> k = l /\ v = w /\ x = y
    BY DEF Stmt
  <2>5. \A k, v, x : Stmt(k, u, v, x) = FlushStmt => k = "flush"
    BY DEF Stmt, FlushStmt
  <2> HIDE DEF Stmt, FlushStmt
  <2>c. \A k, v, x : Stmt(k, u, v, x) \in Elems(create)
                     <=> k = "create" /\ v \in Elems(hs) /\ x = p
    BY <1>5, <2>4
  <2>6. \A k \in {"create", "alter", "drop", "grant", "revoke"} : \A x :
          Stmt(k, u, "localhost", x) \in Elems(grant) <=> Stmt(k, u, "127.0.0.1", x) \in Elems(grant)
    <3>1. CASE \A s \in Elems(grant) : s = Stmt("reject", u, h, d)
      BY <3>1, <2>4
    <3>2. CASE \A s : s \in Elems(grant)
                  <=> s = FlushStmt \/ \E x \in Elems(hs) : s = Stmt("grant", u, x, d)
      <4>1. \A k \in {"create", "alter", "drop", "grant", "revoke"} : \A v, x :
              Stmt(k, u, v, x) \in Elems(grant) <=> k = "grant" /\ v \in Elems(hs) /\ x = d
        BY <3>2, <2>4, <2>5
      <4> QED BY <4>1, <2>2
    <3> QED BY <3>1, <3>2, <1>6
  <2> QED
    BY <2>2, <2>c, <2>6, <1>n DEF Twin
<1> QED
  BY <1>8, <1>9, <1>10

\* The user exists on both local hosts or on none of them.
Even(u) == acct[u]["localhost"] = None <=> acct[u]["127.0.0.1"] = None

\* UserRemove and UserPassword send one statement to every account they cover.
LEMMA AccountsShape ==
  ASSUME NEW k \in Kinds, NEW u \in Accounts, NEW h \in HostArgs,
         NEW x \in Passwords \cup {None}, AccountHosts(u, h) # <<>>,
         NEW todo, todo = OnEach(k, u, AccountHosts(u, h), x)
  PROVE  /\ todo \in Seq(Statement) /\ todo # <<>>
         /\ \A s : s \in Elems(todo) <=>
              \E y \in Hosts : s = Stmt(k, u, y, x) /\ acct[u][y] # None /\ Covered(h, y)
         /\ Even(u) /\ h # "127.0.0.1" => Twin(todo, u)
<1> DEFINE hs == AccountHosts(u, h)
<1>1. hs \in Seq(Hosts) /\ hs # <<>>
  BY AccountHostsShape
<1>2. Elems(hs) = {y \in Hosts : acct[u][y] # None /\ Covered(h, y)}
  BY AccountHostsShape
<1>3. todo = OnEach(k, u, hs, x)
  OBVIOUS
<1> HIDE DEF hs
<1>5. todo \in Seq(Statement) /\ todo # <<>>
  BY <1>1, <1>3, OnEachShape
<1>6. \A s : s \in Elems(todo) <=> \E y \in Elems(hs) : s = Stmt(k, u, y, x)
  BY <1>1, <1>3, OnEachShape
<1>7. ASSUME Even(u), h # "127.0.0.1" PROVE Twin(todo, u)
  <2>1. "localhost" \in Elems(hs) <=> "127.0.0.1" \in Elems(hs)
    BY <1>2, <1>7 DEF Even, Hosts, Covered
  <2>2. \A l, v, z, w : Stmt(l, u, v, z) = Stmt(k, u, w, x) <=> l = k /\ v = w /\ z = x
    BY DEF Stmt
  <2> HIDE DEF Stmt
  <2>3. \A l, v, z : Stmt(l, u, v, z) \in Elems(todo) <=> l = k /\ v \in Elems(hs) /\ z = x
    BY <1>6, <2>2
  <2> QED BY <2>1, <2>3 DEF Twin
<1> QED
  BY <1>2, <1>5, <1>6, <1>7

LEMMA UserRemoveStarts ==
  ASSUME NEW u \in Users, NEW h \in Hosts, UserRemove(u, h)
  PROVE  /\ Started /\ cmd'.op = "userRemove" /\ Marked /\ cmd'.user \in Users
         /\ \A s \in Elems(cmd'.todo) : s.user = cmd'.user /\ s.kind = "drop" /\ s.arg = None
         /\ ~Apart(cmd'.host, cmd'.op) /\ Even(cmd'.user) => Twin(cmd'.todo, cmd'.user)
<1> DEFINE todo == OnEach("drop", u, AccountHosts(u, h), None)
<1>1. AccountHosts(u, h) # <<>> /\ Sql("userRemove", u, h, None, todo)
  BY DEF UserRemove
<1>2. u \in Accounts /\ h \in HostArgs /\ "userRemove" \in SqlOps /\ "drop" \in Kinds
  BY HostArgsHave DEF Accounts, SqlOps, Kinds
<1>3. /\ todo \in Seq(Statement) /\ todo # <<>>
      /\ Even(u) /\ h # "127.0.0.1" => Twin(todo, u)
  BY <1>1, <1>2, AccountsShape
<1>4. \A s \in Elems(todo) : \E y \in Hosts : s = Stmt("drop", u, y, None)
  BY <1>1, <1>2, AccountsShape
<1> HIDE DEF todo
<1>5. /\ Started /\ cmd'.op = "userRemove" /\ cmd'.todo = todo /\ Marked
      /\ cmd'.user = u /\ cmd'.host = h
  <2> HIDE DEF SqlOps, Hosts
  <2> QED BY <1>1, <1>2, <1>3, SqlShape DEF Started, Marked, Apart
<1> QED
  BY <1>3, <1>4, <1>5 DEF Stmt, Apart

LEMMA UserPasswordStarts ==
  ASSUME NEW u \in Accounts, NEW h \in HostArgs, NEW p \in Passwords, UserPassword(u, h, p)
  PROVE  /\ Started /\ cmd'.op = "userPassword" /\ Marked /\ cmd'.pw \in Passwords
         /\ \A s \in Elems(cmd'.todo) :
              s.user = cmd'.user /\ s.kind = "alter" /\ s.arg = cmd'.pw
         /\ \A y \in Hosts :
              acct[cmd'.user][y] # None /\ Covered(cmd'.host, y)
              => Stmt("alter", cmd'.user, y, cmd'.pw) \in Elems(cmd'.todo)
         /\ ~Apart(cmd'.host, cmd'.op) /\ Even(cmd'.user) => Twin(cmd'.todo, cmd'.user)
<1> DEFINE todo == OnEach("alter", u, AccountHosts(u, h), p)
<1>1. AccountHosts(u, h) # <<>> /\ Sql("userPassword", u, h, p, todo)
  BY DEF UserPassword
<1>2. "userPassword" \in SqlOps /\ "alter" \in Kinds
  BY DEF SqlOps, Kinds
<1>3. /\ todo \in Seq(Statement) /\ todo # <<>>
      /\ Even(u) /\ h # "127.0.0.1" => Twin(todo, u)
  BY <1>1, <1>2, AccountsShape
<1>4. \A s : s \in Elems(todo) <=>
        \E y \in Hosts : s = Stmt("alter", u, y, p) /\ acct[u][y] # None /\ Covered(h, y)
  BY <1>1, <1>2, AccountsShape
<1> HIDE DEF todo
<1>5. /\ Started /\ cmd'.op = "userPassword" /\ cmd'.todo = todo /\ Marked
      /\ cmd'.user = u /\ cmd'.host = h /\ cmd'.pw = p
  <2> HIDE DEF SqlOps, Hosts
  <2> QED BY <1>1, <1>2, <1>3, SqlShape DEF Started, Marked, Apart
<1>6. \A s \in Elems(todo) : s.user = u /\ s.kind = "alter" /\ s.arg = p
  BY <1>4 DEF Stmt
<1> QED
  BY <1>3, <1>4, <1>5, <1>6 DEF Apart

\* What a grant or a revoke sends: k to the host that is named, or to both local
\* ones; nothing is cloned for a user who is on both of them.
Sends(todo, k, u, h, d) ==
  /\ todo \in Seq(Statement) /\ todo # <<>>
  /\ \A s \in Elems(todo) :
       \/ s = FlushStmt
       \/ s.user = u /\ s.kind = k /\ s.arg = d
       \/ s.user = u /\ s.kind = "clone" /\ s.arg \in Hosts /\ h = "" /\ ~Even(u)
  /\ h = "" => \A y \in Local : Stmt(k, u, y, d) \in Elems(todo)
  /\ h \in {"", "%"} => Twin(todo, u)

LEMMA OnTargetsShape ==
  ASSUME NEW k \in Kinds, NEW u \in Users, NEW h \in HostArgs,
         NEW d \in Databases, NEW todo, todo = OnTargets(k, u, h, d)
  PROVE  Sends(todo, k, u, h, d)
<1>1. u \in Accounts /\ "clone" \in Kinds
  BY DEF Kinds, Accounts
<1>2. \A l, m, v, z, w, y : Stmt(l, u, v, z) = Stmt(m, u, w, y) <=> l = m /\ v = w /\ z = y
  BY DEF Stmt
<1>3. \A l, v, z : Stmt(l, u, v, z) = FlushStmt => l = "flush"
  BY DEF Stmt, FlushStmt
<1>4. \A l, v, z : /\ Stmt(l, u, v, z).user = u /\ Stmt(l, u, v, z).kind = l
                  /\ Stmt(l, u, v, z).arg = z
  BY DEF Stmt
<1> DEFINE clone == CloneMissing(u)
           each(hs) == OnEach(k, u, hs, d)
<1>c. /\ clone \in Seq(Statement)
      /\ \/ clone = <<>>
         \/ ~Even(u) /\ clone = <<Stmt("clone", u, "127.0.0.1", "localhost")>>
         \/ ~Even(u) /\ clone = <<Stmt("clone", u, "localhost", "127.0.0.1")>>
  <2>1. /\ Stmt("clone", u, "127.0.0.1", "localhost") \in Statement
        /\ Stmt("clone", u, "localhost", "127.0.0.1") \in Statement
    BY <1>1 DEF Stmt, Statement, Hosts
  <2>2. \A s \in Statement : <<s>> \in Seq(Statement)
    OBVIOUS
  <2>3. \/ clone = <<>>
        \/ ~Even(u) /\ clone = <<Stmt("clone", u, "127.0.0.1", "localhost")>>
        \/ ~Even(u) /\ clone = <<Stmt("clone", u, "localhost", "127.0.0.1")>>
    BY DEF CloneMissing, Even
  <2> HIDE DEF clone
  <2> QED BY <2>1, <2>2, <2>3, EmptyList
<1> HIDE DEF clone
<1>d. \A s \in Elems(clone) :
        /\ ~Even(u)
        /\ \/ s = Stmt("clone", u, "127.0.0.1", "localhost")
           \/ s = Stmt("clone", u, "localhost", "127.0.0.1")
  BY <1>c, ElemsShort
<1>e. \A hs \in Seq(Hosts) :
        /\ each(hs) \o Flush \in Seq(Statement) /\ each(hs) \o Flush # <<>>
        /\ Elems(each(hs) \o Flush) = Elems(each(hs)) \cup {FlushStmt}
  <2> TAKE hs \in Seq(Hosts)
  <2>1. each(hs) \in Seq(Statement)
    BY <1>1, OnEachShape
  <2> HIDE DEF each
  <2> QED BY <2>1, FlushShape, ElemsConcat
<1>f. \A hs \in Seq(Hosts) : \A s :
        s \in Elems(each(hs)) <=> \E y \in Elems(hs) : s = Stmt(k, u, y, d)
  <2> TAKE hs \in Seq(Hosts)
  <2> QED BY <1>1, OnEachShape
<1> HIDE DEF Stmt, FlushStmt
<1>7. CASE h # ""
  <2>1. <<h>> \in Seq(Hosts) /\ Elems(<<h>>) = {h} /\ todo = each(<<h>>) \o Flush
    BY <1>7, HostLists DEF OnTargets, HostArgs
  <2> HIDE DEF each
  <2>2. todo \in Seq(Statement) /\ todo # <<>>
    BY <2>1, <1>e
  <2>3. \A s : s \in Elems(todo) <=> s = FlushStmt \/ s = Stmt(k, u, h, d)
    <3>1. Elems(todo) = Elems(each(<<h>>)) \cup {FlushStmt}
      BY <2>1, <1>e
    <3>2. \A s : s \in Elems(each(<<h>>)) <=> \E y \in {h} : s = Stmt(k, u, y, d)
      BY <2>1, <1>f
    <3> QED BY <3>1, <3>2
  <2>4. \A s \in Elems(todo) : s = FlushStmt \/ (s.user = u /\ s.kind = k /\ s.arg = d)
    <3>1. Stmt(k, u, h, d).user = u /\ Stmt(k, u, h, d).kind = k /\ Stmt(k, u, h, d).arg = d
      BY <1>4
    <3> TAKE s \in Elems(todo)
    <3>2. s = FlushStmt \/ s = Stmt(k, u, h, d)
      BY <2>3
    <3> QED BY <3>1, <3>2
  <2>5. h = "%" => Twin(todo, u)
    BY <2>3, <1>2, <1>3 DEF Twin
  <2> QED BY <1>7, <2>2, <2>4, <2>5 DEF Sends
<1>8. CASE h = ""
  <2> DEFINE rest == each(LocalHosts) \o Flush
  <2>1. rest \in Seq(Statement) /\ rest # <<>>
    BY HostLists, <1>e
  <2>2. \A s : s \in Elems(rest) <=> s = FlushStmt \/ \E y \in Local : s = Stmt(k, u, y, d)
    <3>1. Elems(rest) = Elems(each(LocalHosts)) \cup {FlushStmt}
      BY HostLists, <1>e
    <3>2. \A s : s \in Elems(each(LocalHosts)) <=> \E y \in Elems(LocalHosts) : s = Stmt(k, u, y, d)
      BY HostLists, <1>f
    <3> HIDE DEF rest, each
    <3> QED BY <3>1, <3>2, HostLists DEF Local
  <2>3. todo = (clone \o each(LocalHosts)) \o Flush
    BY <1>8 DEF OnTargets, clone
  <2>4. each(LocalHosts) \in Seq(Statement) /\ Flush \in Seq(Statement) /\ Flush # <<>>
    BY <1>1, HostLists, FlushShape, OnEachShape
  <2>5. clone \o each(LocalHosts) \in Seq(Statement)
    <3> HIDE DEF each
    <3> QED BY <1>c, <2>4, ElemsConcat
  <2>6. Elems(clone \o each(LocalHosts)) = Elems(clone) \cup Elems(each(LocalHosts))
    <3>1. clone \in Seq(Statement)
      BY <1>c
    <3> HIDE DEF each
    <3> QED BY <3>1, <2>4, ElemsConcat
  <2>7. todo \in Seq(Statement) /\ todo # <<>>
    <3> HIDE DEF each
    <3> QED BY <2>3, <2>4, <2>5, ElemsConcat
  <2>8. Elems(todo) = Elems(clone) \cup Elems(each(LocalHosts)) \cup {FlushStmt}
    <3> HIDE DEF each
    <3>1. Elems(todo) = Elems(clone \o each(LocalHosts)) \cup Elems(Flush)
      BY <2>3, <2>4, <2>5, ElemsConcat
    <3> QED BY <3>1, <2>6, FlushShape
  <2>9. Elems(each(LocalHosts)) \cup {FlushStmt} = Elems(rest)
    BY HostLists, <1>e
  <2>10. \A s : s \in Elems(todo) <=>
           \/ s \in Elems(clone) \/ s = FlushStmt \/ \E y \in Local : s = Stmt(k, u, y, d)
    <3> HIDE DEF each, rest
    <3> QED BY <2>2, <2>8, <2>9
  <2> HIDE DEF each, rest
  <2>11. \A s \in Elems(todo) :
              \/ s = FlushStmt
              \/ s.user = u /\ s.kind = k /\ s.arg = d
              \/ s.user = u /\ s.kind = "clone" /\ s.arg \in Hosts /\ ~Even(u)
    <3> TAKE s \in Elems(todo)
    <3>1. CASE s \in Elems(clone)
      <4>1. /\ ~Even(u) /\ s.user = u /\ s.kind = "clone"
            /\ s.arg = "localhost" \/ s.arg = "127.0.0.1"
        BY <3>1, <1>d, <1>4
      <4> QED BY <4>1 DEF Hosts
    <3>2. CASE \E y \in Local : s = Stmt(k, u, y, d)
      BY <3>2, <1>4
    <3> QED BY <3>1, <3>2, <2>10
  <2>12. Twin(todo, u)
    <3>1. \A l \in {"create", "alter", "drop", "grant", "revoke"} : \A v, x :
            Stmt(l, u, v, x) \in Elems(todo) <=> l = k /\ v \in Local /\ x = d
      BY <2>10, <1>2, <1>3, <1>d
    <3> QED BY <3>1 DEF Twin, Local
  <2> QED BY <1>8, <2>7, <2>10, <2>11, <2>12 DEF Sends
<1> QED
  BY <1>7, <1>8

LEMMA TargetsListed ==
  ASSUME NEW k \in Kinds, NEW u \in Users, NEW h \in HostArgs, NEW d \in Databases
  PROVE  OnTargets(k, u, h, d) \in Seq(Statement) /\ OnTargets(k, u, h, d) # <<>>
<1>1. Sends(OnTargets(k, u, h, d), k, u, h, d)
  BY OnTargetsShape
<1> QED
  BY <1>1 DEF Sends

LEMMA TargetsMeant ==
  ASSUME NEW k \in Kinds, NEW u \in Users, NEW h \in HostArgs, NEW d \in Databases
  PROVE  \A s \in Elems(OnTargets(k, u, h, d)) :
           \/ s = FlushStmt
           \/ s.user = u /\ s.kind = k /\ s.arg = d
           \/ s.user = u /\ s.kind = "clone" /\ s.arg \in Hosts /\ h = "" /\ ~Even(u)
<1>1. Sends(OnTargets(k, u, h, d), k, u, h, d)
  BY OnTargetsShape
<1> QED
  BY <1>1 DEF Sends

LEMMA TargetsLocal ==
  ASSUME NEW k \in Kinds, NEW u \in Users, NEW h \in HostArgs, NEW d \in Databases
  PROVE  h = "" => \A y \in Local : Stmt(k, u, y, d) \in Elems(OnTargets(k, u, h, d))
<1>1. Sends(OnTargets(k, u, h, d), k, u, h, d)
  BY OnTargetsShape
<1> QED
  BY <1>1 DEF Sends

LEMMA TargetsTwin ==
  ASSUME NEW k \in Kinds, NEW u \in Users, NEW h \in HostArgs, NEW d \in Databases
  PROVE  h \in {"", "%"} => Twin(OnTargets(k, u, h, d), u)
<1>1. Sends(OnTargets(k, u, h, d), k, u, h, d)
  BY OnTargetsShape
<1> QED
  BY <1>1 DEF Sends

-----------------------------------------------------------------------------
(***************************************************************************)
(* The steps of a running command.                                         *)
(***************************************************************************)
RootStep ==
  \/ InstallPackage \/ WaitForReady \/ ExecAsRootSocket \/ VerifyRootLogin
  \/ SaveCredentials \/ StopService \/ StartRecovery \/ StopRecovery \/ StartService
RemoteStep ==
  \/ WriteDropIn \/ RemoveDropIn \/ RestartServer \/ WaitForDatabase
  \/ UndoDropIn \/ ConfirmDisabled
SqlStart ==
  \/ DbAddCmd \/ DbRemoveCmd \/ UserAddCmd \/ UserRemoveCmd \/ UserPasswordCmd
  \/ GrantCmd \/ RevokeCmd
OtherStart == ConfigSetCmd \/ InstallCmd \/ ResetCmd \/ EnableCmd \/ DisableRemote

LEMMA Steps ==
  Next <=> \/ SqlStart \/ OtherStart \/ RunStatement \/ StatementFails
           \/ RootStep \/ RemoteStep \/ ComesUp \/ Kill
BY DEF Next, SqlStart, OtherStart, RootStep, RemoteStep

\* The command goes on, with its arguments.
Same == /\ cmd'.op = cmd.op /\ cmd'.user = cmd.user /\ cmd'.host = cmd.host
        /\ cmd'.pw = cmd.pw /\ cmd'.db = cmd.db /\ cmd'.bind = cmd.bind

LEMMA Moves ==
  ASSUME cmd \in CmdSet, NEW p \in Labels \cup {"idle"}
  PROVE  /\ Goto(p) => /\ Same /\ cmd' \in CmdSet /\ cmd'.pc = p /\ cmd'.todo = cmd.todo
                        /\ cmd'.ok = cmd.ok /\ cmd'.hurt = cmd.hurt
         /\ Hurt(p) => /\ Same /\ cmd' \in CmdSet /\ cmd'.pc = p /\ cmd'.todo = cmd.todo
                        /\ cmd'.ok = cmd.ok /\ cmd'.hurt
         /\ Broken(p) => /\ Same /\ cmd' \in CmdSet /\ cmd'.pc = p /\ cmd'.todo = <<>>
                          /\ ~cmd'.ok /\ cmd'.hurt
         /\ \A good \in BOOLEAN :
              End(good) => /\ Same /\ cmd' \in CmdSet /\ cmd'.pc = "idle" /\ cmd'.todo = <<>>
                           /\ cmd'.ok = good /\ cmd'.hurt = cmd.hurt
<1>1. <<>> \in Seq(Statement)
  BY EmptyList
<1>2. ASSUME Goto(p)
      PROVE  /\ Same /\ cmd' \in CmdSet /\ cmd'.pc = p /\ cmd'.todo = cmd.todo
             /\ cmd'.ok = cmd.ok /\ cmd'.hurt = cmd.hurt
  BY <1>2 DEF Goto, Same, CmdSet
<1>3. ASSUME Hurt(p)
      PROVE  /\ Same /\ cmd' \in CmdSet /\ cmd'.pc = p /\ cmd'.todo = cmd.todo
             /\ cmd'.ok = cmd.ok /\ cmd'.hurt
  BY <1>3 DEF Hurt, Same, CmdSet
<1>4. ASSUME Broken(p)
      PROVE  /\ Same /\ cmd' \in CmdSet /\ cmd'.pc = p /\ cmd'.todo = <<>>
             /\ ~cmd'.ok /\ cmd'.hurt
  BY <1>1, <1>4 DEF Broken, Same, CmdSet
<1>5. ASSUME NEW good \in BOOLEAN, End(good)
      PROVE  /\ Same /\ cmd' \in CmdSet /\ cmd'.pc = "idle" /\ cmd'.todo = <<>>
             /\ cmd'.ok = good /\ cmd'.hurt = cmd.hurt
  <2>1. "idle" \in Labels \cup {"idle"}
    OBVIOUS
  <2> QED BY <1>1, <1>5, <2>1 DEF End, Same, CmdSet
<1> QED
  BY <1>2, <1>3, <1>4, <1>5

LEMMA SameArgs ==
  ASSUME Same
  PROVE  /\ Args => Args'
         /\ \A s : Fits(s) => Fits(s)'
BY DEF Same, Args, Fits, Op

LEMMA NoTodo ==
  ASSUME CmdInv, ~Idle, Same, cmd' \in CmdSet, cmd'.todo = <<>>, ~At("sql")',
         Belongs(cmd'.pc, cmd.op)
  PROVE  CmdInv'
<1>1. Elems(cmd'.todo) = {}
  BY ElemsShort
<1>2. Args'
  BY SameArgs DEF CmdInv
<1>3. Belongs(cmd'.pc, cmd'.op)
  BY DEF Same
<1> QED
  BY <1>1, <1>2, <1>3 DEF CmdInv, At

\* What install and reset send, in one client.
RootStmts == {Stmt("alter", Root, "localhost", cmd.pw), Stmt("create", Root, "127.0.0.1", cmd.pw)}
LEMMA StatementsShape ==
  ASSUME cmd.pw \in Passwords
  PROVE  /\ Statements \in Seq(Statement) /\ Statements # <<>>
         /\ Elems(Statements) = RootStmts \cup {FlushStmt} \cup
              (IF Op("install") THEN {Stmt("drop", Root, "%", None)} ELSE {})
<1> DEFINE root == RootPasswordSQL(cmd.pw)
           drop == <<Stmt("drop", Root, "%", None)>>
<1>1. /\ Stmt("alter", Root, "localhost", cmd.pw) \in Statement
      /\ Stmt("create", Root, "127.0.0.1", cmd.pw) \in Statement
      /\ Stmt("drop", Root, "%", None) \in Statement
  BY DEF Stmt, Statement, Kinds, Accounts, Hosts
<1>2. /\ \A s, t \in Statement : <<s, t>> \in Seq(Statement)
      /\ \A s \in Statement : <<s>> \in Seq(Statement)
  OBVIOUS
<1>3. /\ root \in Seq(Statement) /\ Elems(root) = RootStmts
      /\ drop \in Seq(Statement) /\ Elems(drop) = {Stmt("drop", Root, "%", None)}
  BY <1>1, <1>2, ElemsShort DEF RootPasswordSQL, RootStmts
<1>4. /\ Statements = IF Op("install") THEN (root \o drop) \o Flush ELSE (Flush \o root) \o Flush
  BY DEF Statements, SecureInstallSQL, SetRootPasswordSQL
<1> HIDE DEF root, drop
<1>f. Flush \in Seq(Statement) /\ Flush # <<>>
  BY FlushShape
<1>5. root \o drop \in Seq(Statement) /\ Elems(root \o drop) = Elems(root) \cup Elems(drop)
  BY <1>3, ElemsConcat
<1>6. Flush \o root \in Seq(Statement) /\ Elems(Flush \o root) = Elems(Flush) \cup Elems(root)
  BY <1>3, <1>f, ElemsConcat
<1>7. \A s \in Seq(Statement) : /\ s \o Flush \in Seq(Statement) /\ s \o Flush # <<>>
                                /\ Elems(s \o Flush) = Elems(s) \cup Elems(Flush)
  BY <1>f, ElemsConcat
<1>8. Statements \in Seq(Statement) /\ Statements # <<>>
  BY <1>4, <1>5, <1>6, <1>7
<1>9. Elems(Statements) = IF Op("install") THEN Elems(root) \cup Elems(drop) \cup Elems(Flush)
                          ELSE Elems(Flush) \cup Elems(root) \cup Elems(Flush)
  BY <1>4, <1>5, <1>6, <1>7
<1> QED
  BY <1>3, <1>8, <1>9, FlushShape

LEMMA SqlFailedShape ==
  ASSUME cmd \in CmdSet, NEW hurt \in BOOLEAN, SqlFailed(hurt)
  PROVE  /\ Same /\ cmd' \in CmdSet /\ cmd'.todo = <<>> /\ ~cmd'.ok
         /\ cmd'.pc = IF Op("reset") THEN "abort" ELSE "idle"
         /\ cmd'.hurt = (cmd.hurt \/ hurt)
<1>1. <<>> \in Seq(Statement)
  BY EmptyList
<1> DEFINE to == IF Op("reset") THEN "abort" ELSE "idle"
           h == cmd.hurt \/ hurt
<1>2. to \in Labels \cup {"idle"} /\ h \in BOOLEAN
  BY DEF Labels
<1>3. cmd' = [cmd EXCEPT !.pc = to, !.todo = <<>>, !.ok = FALSE, !.hurt = h]
  BY DEF SqlFailed, CmdSet
<1> HIDE DEF to, h
<1>4. /\ Same /\ cmd' \in CmdSet /\ cmd'.todo = <<>> /\ ~cmd'.ok /\ cmd'.pc = to /\ cmd'.hurt = h
  BY <1>1, <1>2, <1>3 DEF Same, CmdSet
<1> QED
  BY <1>4 DEF to, h

LEMMA ExecShape ==
  ASSUME CmdInv, ExecAsRootSocket
  PROVE  /\ Same /\ cmd' \in CmdSet /\ cmd.op \in {"install", "reset"} /\ cmd.pw \in Passwords
         /\ \/ RootReady /\ cmd'.pc = "sql" /\ cmd'.todo = Statements
            \/ ~RootReady /\ cmd'.todo = <<>> /\ ~cmd'.ok
               /\ cmd'.pc = IF Op("reset") THEN "abort" ELSE "idle"
         /\ UNCHANGED <<tcpAs, srv, live, conf, data, saved, ran, apart>>
<1>1. /\ cmd \in CmdSet /\ cmd.op \in {"install", "reset"} /\ cmd.pw \in Passwords
      /\ UNCHANGED <<tcpAs, srv, live, conf, data, saved, ran, apart>>
  BY DEF CmdInv, ExecAsRootSocket, At, Belongs, Args, Idle, NoServer
<1>2. Statements \in Seq(Statement)
  BY <1>1, StatementsShape
<1>3. CASE RootReady
  <2>1. cmd' = [cmd EXCEPT !.pc = "sql", !.todo = Statements] /\ "sql" \in Labels
    BY <1>3 DEF ExecAsRootSocket, Labels
  <2>2. Same /\ cmd' \in CmdSet /\ cmd'.pc = "sql" /\ cmd'.todo = Statements
    BY <1>1, <1>2, <2>1 DEF Same, CmdSet
  <2> QED BY <1>1, <1>3, <2>2
<1>4. CASE ~RootReady
  <2>1. SqlFailed(FALSE)
    BY <1>4 DEF ExecAsRootSocket
  <2> QED BY <1>1, <1>4, <2>1, SqlFailedShape
<1> QED
  BY <1>3, <1>4

LEMMA ExecCmd ==
  ASSUME CmdInv, ExecAsRootSocket
  PROVE  CmdInv'
<1>1. /\ ~Idle /\ Args /\ Same /\ cmd' \in CmdSet /\ cmd.op \in {"install", "reset"}
      /\ cmd.pw \in Passwords
  BY ExecShape DEF CmdInv, ExecAsRootSocket, At, Idle
<1>2. Args' /\ \A s : Fits(s) => Fits(s)'
  BY <1>1, SameArgs
<1>3. CASE cmd'.pc = "sql" /\ cmd'.todo = Statements
  <2>1. Statements # <<>> /\ Elems(cmd'.todo) = RootStmts \cup {FlushStmt} \cup
          (IF Op("install") THEN {Stmt("drop", Root, "%", None)} ELSE {})
    BY <1>1, <1>3, StatementsShape
  <2>2. \A s \in Elems(cmd'.todo) : Fits(s)
    BY <1>1, <2>1 DEF RootStmts, Fits, Stmt
  <2>3. Belongs(cmd'.pc, cmd'.op)
    BY <1>1, <1>3 DEF Belongs, Same
  <2> QED BY <1>1, <1>2, <1>3, <2>1, <2>2, <2>3 DEF CmdInv, At
<1>4. CASE cmd'.todo = <<>> /\ cmd'.pc = IF Op("reset") THEN "abort" ELSE "idle"
  <2>1. Belongs(cmd'.pc, cmd.op) /\ ~At("sql")'
    BY <1>4 DEF Belongs, Op, At
  <2> QED BY <1>1, <1>4, <2>1, NoTodo
<1> QED
  BY <1>3, <1>4, ExecShape

LEMMA RootCmd ==
  ASSUME CmdInv, RootStep
  PROVE  CmdInv'
<1> USE DEF At
<1>1. cmd \in CmdSet /\ Belongs(cmd.pc, cmd.op) /\ (cmd.pc # "sql" => cmd.todo = <<>>)
  BY DEF CmdInv
<1>2. \A p \in {"idle", "ready", "connect", "abort", "save", "launch", "start", "verify"} :
        p \in Labels \cup {"idle"}
  BY DEF Labels
<1>3. CASE InstallPackage
  BY <1>1, <1>2, <1>3, Moves, NoTodo DEF InstallPackage, Belongs, Idle
<1>4. CASE WaitForReady
  BY <1>1, <1>2, <1>4, Moves, NoTodo DEF WaitForReady, Belongs, Idle
<1>6. CASE VerifyRootLogin
  BY <1>1, <1>2, <1>6, Moves, NoTodo DEF VerifyRootLogin, Belongs, Idle
<1>7. CASE SaveCredentials
  BY <1>1, <1>2, <1>7, Moves, NoTodo DEF SaveCredentials, Belongs, Idle
<1>8. CASE StopService
  BY <1>1, <1>2, <1>8, Moves, NoTodo DEF StopService, Belongs, Idle
<1>9. CASE StartRecovery
  BY <1>1, <1>2, <1>9, Moves, NoTodo DEF StartRecovery, Belongs, Idle
<1>10. CASE StopRecovery
  BY <1>1, <1>2, <1>10, Moves, NoTodo DEF StopRecovery, Belongs, Idle
<1>11. CASE StartService
  BY <1>1, <1>2, <1>11, Moves, NoTodo DEF StartService, Belongs, Idle
<1> QED
  BY <1>3, <1>4, <1>6, <1>7, <1>8, <1>9, <1>10, <1>11, ExecCmd DEF RootStep

LEMMA RemoteCmd ==
  ASSUME CmdInv, RemoteStep
  PROVE  CmdInv'
<1> USE DEF At
<1>1. cmd \in CmdSet /\ Belongs(cmd.pc, cmd.op) /\ (cmd.pc # "sql" => cmd.todo = <<>>)
  BY DEF CmdInv
<1>2. \A p \in {"idle", "restart", "wait", "undo", "undoRestart", "undoWait", "confirm"} :
        p \in Labels \cup {"idle"}
  BY DEF Labels
<1>3. CASE WriteDropIn
  BY <1>1, <1>2, <1>3, Moves, NoTodo DEF WriteDropIn, Belongs, Idle, RemoteOps
<1>4. CASE RemoveDropIn
  BY <1>1, <1>2, <1>4, Moves, NoTodo DEF RemoveDropIn, Belongs, Idle, RemoteOps
<1>5. CASE RestartServer
  BY <1>1, <1>2, <1>5, Moves, NoTodo DEF RestartServer, Belongs, Idle, RemoteOps
<1>6. CASE WaitForDatabase
  BY <1>1, <1>2, <1>6, Moves, NoTodo DEF WaitForDatabase, Belongs, Idle, RemoteOps, Op
<1>7. CASE UndoDropIn
  BY <1>1, <1>2, <1>7, Moves, NoTodo DEF UndoDropIn, Belongs, Idle, RemoteOps
<1>8. CASE ConfirmDisabled
  <2>1. (TcpLogin(saved) /\ live \in Loopback) \in BOOLEAN
    BY DEF TcpLogin
  <2> QED BY <1>1, <1>2, <1>8, <2>1, Moves, NoTodo DEF ConfirmDisabled, Belongs, Idle
<1> QED
  BY <1>3, <1>4, <1>5, <1>6, <1>7, <1>8 DEF RemoteStep

\* A statement was answered: it is off the list, or the list was the last.
LEMMA RunShape ==
  ASSUME CmdInv, RunStatement
  PROVE  /\ Same /\ cmd' \in CmdSet /\ Head(cmd.todo) \in Elems(cmd.todo)
         /\ Head(cmd.todo) \in Statement
         /\ \/ /\ LoggedIn /\ Legal(Head(cmd.todo)) /\ Apply(Head(cmd.todo))
               /\ cmd'.ok = cmd.ok /\ cmd'.hurt = cmd.hurt /\ UNCHANGED apart
               /\ \/ cmd'.pc = "sql" /\ cmd'.todo = Tail(cmd.todo) /\ cmd'.todo # <<>>
                  \/ cmd'.pc = AfterSql /\ cmd'.todo = <<>> /\ Tail(cmd.todo) = <<>>
            \/ /\ ~(LoggedIn /\ Legal(Head(cmd.todo)))
               /\ SqlFailed(FALSE) /\ UNCHANGED <<srv, data>>
               /\ apart' = apart \cup ({cmd.user} \ {Root})
         /\ \A s \in Elems(cmd.todo) : s = Head(cmd.todo) \/ s \in Elems(Tail(cmd.todo))
         /\ Elems(Tail(cmd.todo)) \subseteq Elems(cmd.todo)
<1>1. cmd \in CmdSet /\ cmd.todo \in Seq(Statement) /\ cmd.todo # <<>>
  BY DEF CmdInv, CmdSet, RunStatement, At
<1>2. /\ Tail(cmd.todo) \in Seq(Statement) /\ Head(cmd.todo) \in Elems(cmd.todo)
      /\ Head(cmd.todo) \in Statement
      /\ Elems(cmd.todo) = {Head(cmd.todo)} \cup Elems(Tail(cmd.todo))
  BY <1>1, ElemsTail
<1>3. IF Len(cmd.todo) > 1 THEN Tail(cmd.todo) # <<>> ELSE Tail(cmd.todo) = <<>>
  BY <1>1, TailEmpty
<1>4. CASE LoggedIn /\ Legal(Head(cmd.todo))
  <2>1. Apply(Head(cmd.todo)) /\ UNCHANGED apart
    BY <1>4 DEF RunStatement
  <2>2. cmd' = IF Len(cmd.todo) > 1 THEN [cmd EXCEPT !.todo = Tail(@)]
               ELSE [cmd EXCEPT !.todo = <<>>, !.pc = AfterSql]
    BY <1>4 DEF RunStatement
  <2>3. AfterSql \in Labels \cup {"idle"} /\ <<>> \in Seq(Statement)
    BY EmptyList DEF AfterSql, Labels
  <2>4. CASE Len(cmd.todo) > 1
    <3>1. cmd' = [cmd EXCEPT !.todo = Tail(cmd.todo)]
      BY <2>2, <2>4
    <3>2. /\ Same /\ cmd' \in CmdSet /\ cmd'.todo = Tail(cmd.todo) /\ cmd'.pc = cmd.pc
          /\ cmd'.ok = cmd.ok /\ cmd'.hurt = cmd.hurt
      BY <1>1, <1>2, <3>1 DEF Same, CmdSet
    <3>3. cmd.pc = "sql"
      BY DEF RunStatement, At
    <3> QED BY <1>2, <1>3, <1>4, <2>1, <2>4, <3>2, <3>3
  <2>5. CASE ~(Len(cmd.todo) > 1)
    <3>1. cmd' = [cmd EXCEPT !.todo = <<>>, !.pc = AfterSql]
      BY <2>2, <2>5
    <3> HIDE DEF AfterSql
    <3>2. /\ Same /\ cmd' \in CmdSet /\ cmd'.todo = <<>> /\ cmd'.pc = AfterSql
          /\ cmd'.ok = cmd.ok /\ cmd'.hurt = cmd.hurt
      BY <1>1, <2>3, <3>1 DEF Same, CmdSet
    <3> QED BY <1>2, <1>3, <1>4, <2>1, <2>5, <3>2
  <2> QED BY <2>4, <2>5
<1>5. CASE ~(LoggedIn /\ Legal(Head(cmd.todo)))
  <2>1. /\ SqlFailed(FALSE) /\ UNCHANGED <<srv, data>>
        /\ apart' = apart \cup ({cmd.user} \ {Root})
    BY <1>5 DEF RunStatement
  <2> QED BY <1>1, <1>2, <1>5, <2>1, SqlFailedShape
<1> QED
  BY <1>4, <1>5

LEMMA FailedCmd ==
  ASSUME CmdInv, At("sql"), NEW hurt \in BOOLEAN, SqlFailed(hurt)
  PROVE  CmdInv'
<1>1. /\ cmd \in CmdSet /\ Same /\ cmd' \in CmdSet /\ cmd'.todo = <<>>
      /\ cmd'.pc = IF Op("reset") THEN "abort" ELSE "idle"
  BY SqlFailedShape DEF CmdInv
<1>2. ~At("sql")' /\ ~Idle
  BY <1>1 DEF At, Idle
<1>3. Belongs(cmd'.pc, cmd.op)
  BY <1>1 DEF Belongs, Op
<1> QED
  BY <1>1, <1>2, <1>3, NoTodo

LEMMA RunCmd ==
  ASSUME CmdInv, RunStatement \/ StatementFails
  PROVE  CmdInv'
<1>1. At("sql") /\ ~Idle
  BY DEF RunStatement, StatementFails, At, Idle
<1>2. CASE \E hurt \in BOOLEAN : SqlFailed(hurt)
  BY <1>1, <1>2, FailedCmd
<1>3. CASE /\ RunStatement /\ cmd'.pc = "sql" /\ cmd'.todo = Tail(cmd.todo) /\ cmd'.todo # <<>>
  <2>1. Same /\ cmd' \in CmdSet /\ Elems(cmd'.todo) \subseteq Elems(cmd.todo)
    BY <1>3, RunShape
  <2>2. Args' /\ \A s : Fits(s) => Fits(s)'
    BY <1>1, <2>1, SameArgs DEF CmdInv
  <2>3. Belongs(cmd'.pc, cmd'.op)
    BY <1>1, <1>3, <2>1 DEF Same, CmdInv, At
  <2> QED BY <1>3, <2>1, <2>2, <2>3 DEF CmdInv, At
<1>4. CASE /\ RunStatement /\ cmd'.pc = AfterSql /\ cmd'.todo = <<>>
  <2>1. Same /\ cmd' \in CmdSet
    BY <1>4, RunShape
  <2>2. Belongs(AfterSql, cmd.op) /\ AfterSql # "sql"
    BY DEF Belongs, AfterSql, Op
  <2> QED BY <1>1, <1>4, <2>1, <2>2, NoTodo DEF At
<1> QED
  BY <1>2, <1>3, <1>4, RunShape DEF StatementFails

LEMMA KillShape ==
  ASSUME Kill
  PROVE  /\ cmd' \in CmdSet /\ cmd'.op = "killed" /\ cmd'.pc = "idle" /\ cmd'.todo = <<>>
<1>1. NoCmd \in CmdSet /\ cmd' = [NoCmd EXCEPT !.op = "killed"]
  BY NoCmdTyped DEF Kill
<1>2. NoCmd.pc = "idle" /\ NoCmd.todo = <<>>
  BY DEF NoCmd
<1> QED
  BY <1>1, <1>2 DEF CmdSet

-----------------------------------------------------------------------------
(***************************************************************************)
(* Commands start.                                                         *)
(***************************************************************************)
LEMMA GrantStarts ==
  ASSUME NEW u \in Users, NEW h \in HostArgs, NEW d \in Databases, Grant(u, h, d)
  PROVE  /\ Started /\ cmd'.op = "grant" /\ Marked /\ cmd'.user \in Users /\ cmd'.db \in Databases
         /\ \A s \in Elems(cmd'.todo) :
              \/ s = FlushStmt
              \/ s.user = cmd'.user /\ s.kind = "grant" /\ s.arg = cmd'.db
              \/ s.user = cmd'.user /\ s.kind = "clone" /\ s.arg \in Hosts /\ ~Even(cmd'.user)
         /\ ~Apart(cmd'.host, cmd'.op) => Twin(cmd'.todo, cmd'.user)
<1> DEFINE todo == OnTargets("grant", u, h, d)
<1>t. todo = OnTargets("grant", u, h, d)
  OBVIOUS
<1>a. u \in Users /\ h \in HostArgs /\ "grant" \in Kinds /\ d \in Databases
  BY DEF Kinds
<1> HIDE DEF todo
<1>2. /\ u \in Accounts /\ h \in HostArgs /\ "grant" \in SqlOps /\ "grant" \in Kinds
      /\ Sql("grant", u, h, d, todo)
  BY <1>t DEF Grant, Accounts, SqlOps, Kinds
<1>b. todo \in Seq(Statement) /\ todo # <<>>
  BY <1>a, <1>t, TargetsListed
<1>c. h \in {"", "%"} => Twin(todo, u)
  BY <1>a, <1>t, TargetsTwin
<1>d. \A s \in Elems(todo) :
        \/ s = FlushStmt
        \/ s.user = u /\ s.kind = "grant" /\ s.arg = d
        \/ s.user = u /\ s.kind = "clone" /\ s.arg \in Hosts /\ h = "" /\ ~Even(u)
  BY <1>a, <1>t, TargetsMeant
<1>4. /\ Started /\ cmd'.op = "grant" /\ cmd'.todo = todo /\ Marked
      /\ cmd'.user = u /\ cmd'.host = h /\ cmd'.db = d
  <2> HIDE DEF SqlOps, Hosts
  <2> QED BY <1>2, <1>b, SqlShape DEF Started, Marked, Apart
<1> QED
  BY <1>a, <1>c, <1>d, <1>4 DEF Apart, HostArgs, Hosts

LEMMA RevokeStarts ==
  ASSUME NEW u \in Users, NEW h \in HostArgs, NEW d \in Databases, Revoke(u, h, d)
  PROVE  /\ Started /\ cmd'.op = "revoke" /\ Marked /\ cmd'.user \in Users /\ cmd'.db \in Databases
         /\ \A s \in Elems(cmd'.todo) :
              \/ s = FlushStmt
              \/ s.user = cmd'.user /\ s.kind = "revoke" /\ s.arg = cmd'.db
              \/ s.user = cmd'.user /\ s.kind = "clone" /\ s.arg \in Hosts /\ ~Even(cmd'.user)
         /\ cmd'.host = "" =>
              \A y \in Local : Stmt("revoke", cmd'.user, y, cmd'.db) \in Elems(cmd'.todo)
         /\ ~Apart(cmd'.host, cmd'.op) => Twin(cmd'.todo, cmd'.user)
<1> DEFINE todo == OnTargets("revoke", u, h, d)
<1>t. todo = OnTargets("revoke", u, h, d)
  OBVIOUS
<1>a. u \in Users /\ h \in HostArgs /\ "revoke" \in Kinds /\ d \in Databases
  BY DEF Kinds
<1> HIDE DEF todo
<1>2. /\ u \in Accounts /\ h \in HostArgs /\ "revoke" \in SqlOps /\ "revoke" \in Kinds
      /\ Sql("revoke", u, h, d, todo)
  BY <1>t DEF Revoke, Accounts, SqlOps, Kinds
<1>b. todo \in Seq(Statement) /\ todo # <<>>
  BY <1>a, <1>t, TargetsListed
<1>c. h \in {"", "%"} => Twin(todo, u)
  BY <1>a, <1>t, TargetsTwin
<1>d. \A s \in Elems(todo) :
        \/ s = FlushStmt
        \/ s.user = u /\ s.kind = "revoke" /\ s.arg = d
        \/ s.user = u /\ s.kind = "clone" /\ s.arg \in Hosts /\ h = "" /\ ~Even(u)
  BY <1>a, <1>t, TargetsMeant
<1>e. h = "" => \A y \in Local : Stmt("revoke", u, y, d) \in Elems(todo)
  BY <1>a, <1>t, TargetsLocal
<1>4. /\ Started /\ cmd'.op = "revoke" /\ cmd'.todo = todo /\ Marked
      /\ cmd'.user = u /\ cmd'.host = h /\ cmd'.db = d
  <2> HIDE DEF SqlOps, Hosts
  <2> QED BY <1>2, <1>b, SqlShape DEF Started, Marked, Apart
<1> QED
  BY <1>a, <1>c, <1>d, <1>e, <1>4 DEF Apart, HostArgs, Hosts

LEMMA Flags ==
  /\ \A h \in HostFlags : h \in HostArgs
  /\ \A h \in HostFlags \ {""} : h \in Hosts
BY MysqlAssumption DEF HostArgs

\* Whatever the command, its statements fit it.
SqlBegins ==
  /\ Started /\ cmd'.op \in SqlOps
  /\ \A s \in Elems(cmd'.todo) : Fits(s)'
  /\ Args'
  /\ apart' = apart \/ Marked
LEMMA SqlStarts ==
  ASSUME SqlStart
  PROVE  SqlBegins
<1> USE DEF SqlOps, Op
<1>1. CASE DbAddCmd
  BY <1>1, DbAddStarts DEF SqlBegins, Args, Fits
<1>2. CASE DbRemoveCmd
  BY <1>2, DbRemoveStarts DEF SqlBegins, Args, Fits
<1>3. CASE UserAddCmd
  <2>1. PICK u \in Users, h \in HostFlags \ {""}, p \in Passwords, d \in Databases \cup {None},
             preset \in {"app", "unknown"} : (d = None => preset = "app") /\ UserAdd(u, h, p, d, preset)
    BY <1>3 DEF UserAddCmd
  <2>2. h \in Hosts
    BY <2>1, Flags
  <2>3. /\ Started /\ cmd'.op = "userAdd" /\ Marked /\ cmd'.user \in Users /\ cmd'.pw \in Passwords
        /\ \A s \in Elems(cmd'.todo) :
             \/ s = FlushStmt
             \/ s.user = cmd'.user /\ s.kind = "create" /\ s.arg = cmd'.pw
             \/ s.user = cmd'.user /\ s.kind = "grant" /\ s.arg \in Databases
             \/ s.user = cmd'.user /\ s.kind = "reject"
    BY <2>1, <2>2, UserAddStarts
  <2> QED BY <2>3 DEF SqlBegins, Args, Fits
<1>4. CASE UserRemoveCmd
  <2>1. PICK u \in Users, h \in HostFlags \ {""} : UserRemove(u, h)
    BY <1>4 DEF UserRemoveCmd
  <2>2. h \in Hosts
    BY <2>1, Flags
  <2>3. /\ Started /\ cmd'.op = "userRemove" /\ Marked /\ cmd'.user \in Users
        /\ \A s \in Elems(cmd'.todo) : s.user = cmd'.user /\ s.kind = "drop" /\ s.arg = None
    BY <2>1, <2>2, UserRemoveStarts
  <2> QED BY <2>3 DEF SqlBegins, Args, Fits
<1>5. CASE UserPasswordCmd
  <2>1. PICK u \in Targets, h \in HostFlags, p \in Passwords : UserPassword(u, h, p)
    BY <1>5 DEF UserPasswordCmd
  <2>2. u \in Accounts /\ h \in HostArgs
    BY <2>1, Flags, MysqlAssumption DEF Accounts
  <2>3. /\ Started /\ cmd'.op = "userPassword" /\ Marked /\ cmd'.pw \in Passwords
        /\ \A s \in Elems(cmd'.todo) : s.user = cmd'.user /\ s.kind = "alter" /\ s.arg = cmd'.pw
    BY <2>1, <2>2, UserPasswordStarts
  <2> QED BY <2>3 DEF SqlBegins, Args, Fits
<1>6. CASE GrantCmd
  <2>1. PICK u \in Users, h \in HostFlags, d \in Databases : Grant(u, h, d)
    BY <1>6 DEF GrantCmd
  <2>2. h \in HostArgs
    BY <2>1, Flags
  <2>3. /\ Started /\ cmd'.op = "grant" /\ Marked /\ cmd'.user \in Users /\ cmd'.db \in Databases
        /\ \A s \in Elems(cmd'.todo) :
             \/ s = FlushStmt
             \/ s.user = cmd'.user /\ s.kind = "grant" /\ s.arg = cmd'.db
             \/ s.user = cmd'.user /\ s.kind = "clone" /\ s.arg \in Hosts
    BY <2>1, <2>2, GrantStarts
  <2> QED BY <2>3 DEF SqlBegins, Args, Fits
<1>7. CASE RevokeCmd
  <2>1. PICK u \in Users, h \in HostFlags, d \in Databases : Revoke(u, h, d)
    BY <1>7 DEF RevokeCmd
  <2>2. h \in HostArgs
    BY <2>1, Flags
  <2>3. /\ Started /\ cmd'.op = "revoke" /\ Marked /\ cmd'.user \in Users /\ cmd'.db \in Databases
        /\ \A s \in Elems(cmd'.todo) :
             \/ s = FlushStmt
             \/ s.user = cmd'.user /\ s.kind = "revoke" /\ s.arg = cmd'.db
             \/ s.user = cmd'.user /\ s.kind = "clone" /\ s.arg \in Hosts
    BY <2>1, <2>2, RevokeStarts
  <2> QED BY <2>3 DEF SqlBegins, Args, Fits
<1> QED
  BY <1>1, <1>2, <1>3, <1>4, <1>5, <1>6, <1>7 DEF SqlStart

\* The commands that are not a list of statements from the start.
OtherBegins ==
  /\ Idle /\ cmd' \in CmdSet /\ cmd'.todo = <<>> /\ cmd'.ok /\ ~cmd'.hurt /\ cmd'.user = Root
  /\ UNCHANGED <<tcpAs, srv, live, conf, acct, grants, dbs, apart>>
  /\ ran' = ran + 1 /\ ran < MaxCommands
  /\ \/ /\ cmd'.op = "configSet" /\ cmd'.pc = "idle" /\ saved' \in Passwords \cup {None}
     \/ /\ cmd'.op = "install" /\ cmd'.pc = "package" /\ cmd'.pw \in Passwords
        /\ UNCHANGED saved
     \/ /\ cmd'.op = "reset" /\ cmd'.pc = "stop" /\ cmd'.pw \in Passwords
        /\ srv.mode # "absent" /\ UNCHANGED saved
     \/ /\ cmd'.op = "enable" /\ cmd'.pc = "write" /\ cmd'.bind \in Binds /\ UNCHANGED saved
     \/ /\ cmd'.op = "disable" /\ cmd'.pc = "unlink" /\ cmd'.bind = conf.dropIn
        /\ conf.dropIn # None /\ UNCHANGED saved
LEMMA OtherStarts ==
  ASSUME OtherStart, conf.dropIn \in Binds \cup {None, NoBind}
  PROVE  OtherBegins
<1>1. /\ NoCmd \in CmdSet /\ NoCmd.pc = "idle" /\ NoCmd.todo = <<>> /\ NoCmd.ok /\ ~NoCmd.hurt
      /\ NoCmd.user = Root
  BY NoCmdTyped DEF NoCmd
<1>2. "configSet" \in AllCommands
  BY DEF AllCommands
<1>3. CASE ConfigSetCmd
  <2>1. PICK p \in Passwords \cup {None} : SetConfig(p)
    BY <1>3 DEF ConfigSetCmd
  <2>2. cmd' = [NoCmd EXCEPT !.op = "configSet"]
    BY <2>1 DEF SetConfig
  <2>3. /\ cmd' \in CmdSet /\ cmd'.op = "configSet" /\ cmd'.pc = "idle" /\ cmd'.todo = <<>>
        /\ cmd'.ok /\ ~cmd'.hurt /\ cmd'.user = Root
    BY <1>1, <1>2, <2>2 DEF CmdSet
  <2> QED BY <2>1, <2>3 DEF SetConfig, OtherBegins, data
<1>4. CASE InstallCmd
  <2>1. PICK p \in Passwords : Install(p)
    BY <1>4 DEF InstallCmd
  <2>2. cmd' = [NoCmd EXCEPT !.op = "install", !.pc = "package", !.pw = p]
    BY <2>1 DEF Install, Begin
  <2>3. "install" \in AllCommands /\ "package" \in Labels
    BY DEF AllCommands, Labels
  <2>4. /\ cmd' \in CmdSet /\ cmd'.op = "install" /\ cmd'.pc = "package" /\ cmd'.todo = <<>>
        /\ cmd'.ok /\ ~cmd'.hurt /\ cmd'.user = Root /\ cmd'.pw = p
    BY <1>1, <2>2, <2>3 DEF CmdSet
  <2> QED BY <2>1, <2>4 DEF Install, Begin, OtherBegins
<1>5. CASE ResetCmd
  <2>1. PICK p \in Passwords : ResetRootPassword(p)
    BY <1>5 DEF ResetCmd
  <2>2. cmd' = [NoCmd EXCEPT !.op = "reset", !.pc = "stop", !.pw = p]
    BY <2>1 DEF ResetRootPassword, Begin
  <2>3. "reset" \in AllCommands /\ "stop" \in Labels
    BY DEF AllCommands, Labels
  <2>4. /\ cmd' \in CmdSet /\ cmd'.op = "reset" /\ cmd'.pc = "stop" /\ cmd'.todo = <<>>
        /\ cmd'.ok /\ ~cmd'.hurt /\ cmd'.user = Root /\ cmd'.pw = p
    BY <1>1, <2>2, <2>3 DEF CmdSet
  <2> QED BY <2>1, <2>4 DEF ResetRootPassword, Begin, OtherBegins
<1>6. CASE EnableCmd
  <2>1. PICK b \in Binds : EnableRemote(b)
    BY <1>6 DEF EnableCmd
  <2>2. cmd' = [NoCmd EXCEPT !.op = "enable", !.pc = "write", !.bind = b]
    BY <2>1 DEF EnableRemote, Begin
  <2>3. "enable" \in AllCommands /\ "write" \in Labels
    BY DEF AllCommands, Labels
  <2>4. /\ cmd' \in CmdSet /\ cmd'.op = "enable" /\ cmd'.pc = "write" /\ cmd'.todo = <<>>
        /\ cmd'.ok /\ ~cmd'.hurt /\ cmd'.user = Root /\ cmd'.bind = b
    BY <1>1, <2>2, <2>3 DEF CmdSet
  <2> QED BY <2>1, <2>4 DEF EnableRemote, Begin, OtherBegins
<1>7. CASE DisableRemote
  <2>2. cmd' = [NoCmd EXCEPT !.op = "disable", !.pc = "unlink", !.bind = conf.dropIn]
    BY <1>7 DEF DisableRemote, Begin
  <2>3. "disable" \in AllCommands /\ "unlink" \in Labels
    BY DEF AllCommands, Labels
  <2>4. /\ cmd' \in CmdSet /\ cmd'.op = "disable" /\ cmd'.pc = "unlink" /\ cmd'.todo = <<>>
        /\ cmd'.ok /\ ~cmd'.hurt /\ cmd'.user = Root /\ cmd'.bind = conf.dropIn
    BY <1>1, <2>2, <2>3 DEF CmdSet
  <2> QED BY <1>7, <2>4 DEF DisableRemote, Begin, OtherBegins
<1> QED
  BY <1>3, <1>4, <1>5, <1>6, <1>7 DEF OtherStart

LEMMA CmdStep ==
  ASSUME CmdInv, Next, conf.dropIn \in Binds \cup {None, NoBind}
  PROVE  CmdInv'
<1>1. CASE SqlStart
  <2>1. SqlBegins
    BY <1>1, SqlStarts
  <2>2. Belongs(cmd'.pc, cmd'.op)
    BY <2>1 DEF SqlBegins, Started, Belongs
  <2> QED BY <2>1, <2>2 DEF SqlBegins, Started, CmdInv, At
<1>2. CASE OtherStart
  <2>1. OtherBegins
    BY <1>2, OtherStarts
  <2>2. Elems(cmd'.todo) = {}
    BY <2>1, ElemsShort DEF OtherBegins
  <2>3. Belongs(cmd'.pc, cmd'.op) /\ (~Idle' => Args')
    BY <2>1 DEF OtherBegins, Belongs, Idle, Args
  <2> QED BY <2>1, <2>2, <2>3 DEF OtherBegins, CmdInv, At
<1>3. CASE ComesUp
  <2>1. cmd' = cmd
    BY <1>3 DEF ComesUp
  <2> QED BY <2>1 DEF CmdInv, Fits, At, Idle, Args, Op
<1>4. CASE Kill
  <2>1. Elems(cmd'.todo) = {}
    BY <1>4, KillShape, ElemsShort
  <2> QED BY <1>4, <2>1, KillShape DEF CmdInv, At, Idle, Belongs
<1> QED
  BY <1>1, <1>2, <1>3, <1>4, RunCmd, RootCmd, RemoteCmd, Steps

-----------------------------------------------------------------------------
(***************************************************************************)
(* What a statement changes.                                               *)
(***************************************************************************)
Secrets == Passwords \cup {None, Socket}
AcctType == acct \in [Accounts -> [Hosts -> Secrets]]
GrantSet == [user : Users, host : Hosts, db : Databases]

\* The password of user@host after a statement for it.
After(s, at) ==
  CASE s.kind = "create" -> IF at = None THEN s.arg ELSE at
    [] s.kind = "clone"  -> IF at = None THEN acct[s.user][s.arg] ELSE at
    [] s.kind = "alter"  -> s.arg
    [] s.kind = "drop"   -> None
    [] OTHER -> at
LEMMA ApplyAcct ==
  ASSUME AcctType, NEW s \in Statement, Apply(s),
         s.kind \in {"create", "alter"} => s.arg \in Passwords,
         s.kind = "clone" => s.arg \in Hosts
  PROVE  /\ AcctType'
         /\ \A u \in Accounts, h \in Hosts :
              u # s.user \/ h # s.host => acct'[u][h] = acct[u][h]
         /\ acct'[s.user][s.host] = After(s, acct[s.user][s.host])
<1>1. s.user \in Accounts /\ s.host \in Hosts /\ s.kind \in Kinds
  BY DEF Statement
<1> DEFINE at == acct[s.user][s.host]
<1>2. at \in Secrets /\ None \in Secrets
  BY <1>1 DEF AcctType, Secrets
<1>3. After(s, at) \in Secrets
  <2>1. s.kind = "clone" => acct[s.user][s.arg] \in Secrets
    BY <1>1 DEF AcctType
  <2> HIDE DEF at
  <2> QED BY <1>2, <2>1 DEF After, Secrets
<1>4. \/ acct' = [acct EXCEPT ![s.user][s.host] = After(s, at)]
      \/ acct' = acct /\ After(s, at) = at
  BY DEF Apply, After
<1> HIDE DEF at
<1>5. CASE acct' = [acct EXCEPT ![s.user][s.host] = After(s, at)]
  <2> DEFINE new == After(s, at)
  <2> HIDE DEF new
  <2>1. new \in Secrets /\ acct' = [acct EXCEPT ![s.user][s.host] = new]
    BY <1>3, <1>5 DEF new
  <2>2. /\ AcctType' /\ acct'[s.user][s.host] = new
        /\ \A u \in Accounts, h \in Hosts :
             u # s.user \/ h # s.host => acct'[u][h] = acct[u][h]
    BY <1>1, <2>1 DEF AcctType
  <2> QED BY <2>2 DEF new, at
<1>6. CASE acct' = acct /\ After(s, at) = at
  BY <1>6 DEF AcctType, at
<1> QED
  BY <1>4, <1>5, <1>6

LEMMA ApplyOther ==
  ASSUME grants \subseteq GrantSet, dbs \subseteq Databases, NEW s \in Statement, Apply(s),
         s.kind = "grant" => s.user \in Users /\ s.arg \in Databases,
         s.kind \in {"createDb", "createDbIf"} => s.arg \in Databases
  PROVE  /\ grants' \subseteq GrantSet /\ dbs' \subseteq Databases
         /\ \A g : g \in grants' <=>
              \/ g \in grants /\ ~(s.kind = "drop" /\ g.user = s.user /\ g.host = s.host)
                 /\ ~(s.kind = "revoke" /\ g = [user |-> s.user, host |-> s.host, db |-> s.arg])
              \/ s.kind = "grant" /\ g = [user |-> s.user, host |-> s.host, db |-> s.arg]
         /\ srv' = IF s.kind = "flush" /\ srv.mode = "open" THEN [srv EXCEPT !.mode = "fenced"] ELSE srv
<1> DEFINE new == [user |-> s.user, host |-> s.host, db |-> s.arg]
<1>1. s.kind = "grant" => new \in GrantSet
  BY DEF Statement, GrantSet
<1>2. grants' = CASE s.kind = "grant"  -> grants \cup {new}
                  [] s.kind = "revoke" -> grants \ {new}
                  [] s.kind = "drop"   ->
                       {g \in grants : ~(g.user = s.user /\ g.host = s.host)}
                  [] OTHER -> grants
  BY DEF Apply
<1>3. /\ dbs' = CASE s.kind \in {"createDb", "createDbIf"} -> dbs \cup {s.arg}
                   [] s.kind = "dropDb" -> dbs \ {s.arg}
                   [] OTHER -> dbs
      /\ srv' = IF s.kind = "flush" /\ srv.mode = "open"
                THEN [srv EXCEPT !.mode = "fenced"] ELSE srv
  BY DEF Apply
<1>4. dbs' \subseteq Databases
  BY <1>3
<1> HIDE DEF new
<1>5. \A g : g \in grants' <=>
              \/ g \in grants /\ ~(s.kind = "drop" /\ g.user = s.user /\ g.host = s.host)
                 /\ ~(s.kind = "revoke" /\ g = new)
              \/ s.kind = "grant" /\ g = new
  <2>1. CASE s.kind = "grant"
    BY <1>2, <2>1
  <2>2. CASE s.kind = "revoke"
    BY <1>2, <2>2
  <2>3. CASE s.kind = "drop"
    BY <1>2, <2>3
  <2>4. CASE s.kind \notin {"grant", "revoke", "drop"}
    BY <1>2, <2>4
  <2> QED BY <2>1, <2>2, <2>3, <2>4
<1>6. grants' \subseteq GrantSet
  BY <1>1, <1>5
<1> QED
  BY <1>3, <1>4, <1>5, <1>6 DEF new

-----------------------------------------------------------------------------
(***************************************************************************)
(* Type correctness.                                                       *)
(***************************************************************************)
Modes == {"absent", "down", "normal", "open", "fenced"}
ConfType == conf \in [own : OwnBinds, dropIn : Binds \cup {None, NoBind}]
DataTyped ==
  /\ tcpAs \in {"localhost", "127.0.0.1"}
  /\ srv \in [mode : Modes, ready : BOOLEAN]
  /\ live \in Binds /\ ConfType
  /\ AcctType /\ grants \subseteq GrantSet /\ dbs \subseteq Databases
  /\ saved \in Passwords \cup {None}
  /\ ran \in 0..MaxCommands /\ apart \subseteq Users
TypeInv == DataTyped /\ CmdInv

LEMMA InvTypeOK == TypeInv => TypeOK
BY DEF TypeInv, DataTyped, CmdInv, CmdSet, TypeOK, AcctType, ConfType, GrantSet, Modes, Secrets

LEMMA ConfBinds == ConfType => ConfBind(conf) \in Binds
BY MysqlAssumption DEF ConfType, ConfBind

LEMMA ServerTyped ==
  ASSUME NEW m \in Modes, NEW b \in BOOLEAN, Server(m, b)
  PROVE  srv' \in [mode : Modes, ready : BOOLEAN] /\ srv'.mode = m /\ srv'.ready = b
BY DEF Server

LEMMA Bounded == MaxCommands \in Nat
BY MysqlAssumption

LEMMA StartsTyped ==
  ASSUME ConfType
  PROVE  /\ Starts => /\ srv'.mode = "normal" /\ live' = ConfBind(conf) /\ live' \in Binds
                      /\ srv' \in [mode : Modes, ready : BOOLEAN]
         /\ \A f : StartFails(f) => /\ srv'.mode = "down" \/ UNCHANGED srv
                                    /\ live' = live /\ srv'.mode # "normal"
                                    /\ srv \in [mode : Modes, ready : BOOLEAN] =>
                                         srv' \in [mode : Modes, ready : BOOLEAN]
<1>1. "normal" \in Modes /\ "absent" \in Modes /\ "down" \in Modes /\ TRUE \in BOOLEAN /\ FALSE \in BOOLEAN
  BY DEF Modes
<1>2. ASSUME Starts
      PROVE  /\ srv'.mode = "normal" /\ live' = ConfBind(conf) /\ live' \in Binds
             /\ srv' \in [mode : Modes, ready : BOOLEAN]
  <2>1. live' = ConfBind(conf) /\ \E b \in BOOLEAN : Server("normal", b)
    BY <1>1, <1>2 DEF Starts
  <2> QED BY <1>1, <2>1, ConfBinds, ServerTyped
<1>3. ASSUME NEW f, StartFails(f)
      PROVE  /\ srv'.mode = "down" \/ UNCHANGED srv
             /\ live' = live /\ srv'.mode # "normal"
             /\ srv \in [mode : Modes, ready : BOOLEAN] => srv' \in [mode : Modes, ready : BOOLEAN]
  <2>1. CASE srv.mode = "absent" \/ Recovery
    BY <1>3, <2>1 DEF StartFails, Recovery
  <2>2. CASE ~(srv.mode = "absent" \/ Recovery)
    <3>1. live' = live /\ Server("down", FALSE)
      BY <1>3, <2>2 DEF StartFails
    <3> QED BY <1>1, <3>1, ServerTyped
  <2> QED BY <2>1, <2>2
<1> QED
  BY <1>2, <1>3

LEMMA DropInTyped ==
  ASSUME ConfType, NEW d \in Binds \cup {None, NoBind}
  PROVE  LET c == [conf EXCEPT !.dropIn = d]
         IN  /\ c \in [own : OwnBinds, dropIn : Binds \cup {None, NoBind}]
             /\ c.own = conf.own /\ c.dropIn = d
BY DEF ConfType

LEMMA RunTyped ==
  ASSUME TypeInv, RunStatement
  PROVE  DataTyped'
<1> DEFINE s == Head(cmd.todo)
<1>1. s \in Statement /\ Fits(s) /\ cmd.user \in Accounts
  BY RunShape DEF TypeInv, CmdInv, CmdSet
<1>2. Args
  BY DEF TypeInv, CmdInv, RunStatement, At, Idle
<1>3. /\ s.kind \in {"create", "alter"} => s.arg \in Passwords
      /\ s.kind = "clone" => s.arg \in Hosts
      /\ s.kind = "grant" => s.user \in Users /\ s.arg \in Databases
      /\ s.kind \in {"createDb", "createDbIf"} => s.arg \in Databases
  BY <1>1, <1>2 DEF Fits, Args, FlushStmt, Stmt, Op
<1>4. /\ AcctType /\ grants \subseteq GrantSet /\ dbs \subseteq Databases
      /\ srv \in [mode : Modes, ready : BOOLEAN]
  BY DEF TypeInv, DataTyped
<1>5. UNCHANGED <<tcpAs, live, conf, saved, ran>>
  BY DEF RunStatement
<1>6. CASE Apply(s) /\ UNCHANGED apart
  <2> HIDE DEF s
  <2>1. AcctType'
    BY <1>1, <1>3, <1>4, <1>6, ApplyAcct
  <2>2. grants' \subseteq GrantSet /\ dbs' \subseteq Databases
    BY <1>1, <1>3, <1>4, <1>6, ApplyOther
  <2>3. srv' \in [mode : Modes, ready : BOOLEAN]
    BY <1>4, <1>6 DEF Apply, Modes
  <2> QED BY <1>5, <1>6, <2>1, <2>2, <2>3 DEF TypeInv, DataTyped, ConfType
<1>7. CASE UNCHANGED <<srv, data>> /\ apart' = apart \cup ({cmd.user} \ {Root})
  <2>1. apart' \subseteq Users
    BY <1>1, <1>7 DEF TypeInv, DataTyped, Accounts
  <2> QED BY <1>5, <1>7, <2>1 DEF TypeInv, DataTyped, ConfType, AcctType, data
<1> QED
  BY <1>6, <1>7, RunShape DEF TypeInv

LEMMA RootTyped ==
  ASSUME TypeInv, RootStep
  PROVE  DataTyped'
<1>1. DataTyped /\ ConfType /\ cmd \in CmdSet
  BY DEF TypeInv, DataTyped, CmdInv
<1>2. CASE InstallPackage
  <2>1. AcctType'
    <3>1. \A r \in {None, Socket} :
            [NoAccounts EXCEPT !["localhost"] = Socket, !["%"] = r] \in [Hosts -> Secrets]
      BY DEF NoAccounts, Hosts, Secrets
    <3>2. \/ acct' = acct
          \/ \E r \in {None, Socket} :
               acct' = [acct EXCEPT ![Root] =
                          [NoAccounts EXCEPT !["localhost"] = Socket, !["%"] = r]]
      BY <1>2 DEF InstallPackage
    <3>3. \A a \in [Hosts -> Secrets] : [acct EXCEPT ![Root] = a] \in [Accounts -> [Hosts -> Secrets]]
      BY <1>1 DEF DataTyped, AcctType
    <3>4. acct \in [Accounts -> [Hosts -> Secrets]]
      BY <1>1 DEF DataTyped, AcctType
    <3> QED BY <3>1, <3>2, <3>3, <3>4 DEF AcctType
  <2>2. srv' \in [mode : Modes, ready : BOOLEAN] /\ live' \in Binds
    BY <1>1, <1>2, StartsTyped DEF InstallPackage, DataTyped
  <2> QED BY <1>1, <1>2, <2>1, <2>2 DEF InstallPackage, DataTyped, ConfType
<1>3. CASE WaitForReady \/ ExecAsRootSocket \/ VerifyRootLogin
  BY <1>1, <1>3 DEF WaitForReady, ExecAsRootSocket, VerifyRootLogin, NoServer, DataTyped,
                    ConfType, AcctType, data
<1>4. CASE SaveCredentials
  <2>1. At("save")
    BY <1>4 DEF SaveCredentials
  <2>2. cmd.pw \in Passwords \cup {None}
    BY <1>1 DEF CmdSet
  <2>3. saved' \in Passwords \cup {None}
    BY <1>1, <1>4, <2>2 DEF SaveCredentials, DataTyped
  <2> QED BY <1>1, <1>4, <2>3 DEF SaveCredentials, DataTyped, ConfType, AcctType, data
<1>5. CASE StopService \/ StartRecovery \/ StopRecovery
  <2>1. srv' \in [mode : Modes, ready : BOOLEAN]
    <3>1. srv' = srv \/ Server("down", FALSE) \/ \E b \in BOOLEAN : Server("open", b)
      BY <1>5 DEF StopService, StartRecovery, StopRecovery
    <3>2. "down" \in Modes /\ "open" \in Modes /\ FALSE \in BOOLEAN
      BY DEF Modes
    <3> QED BY <1>1, <3>1, <3>2, ServerTyped DEF DataTyped
  <2>2. NoServer
    BY <1>5 DEF StopService, StartRecovery, StopRecovery
  <2> QED BY <1>1, <2>1, <2>2 DEF NoServer, DataTyped, ConfType, AcctType, data
<1>6. CASE StartService
  <2>1. srv' \in [mode : Modes, ready : BOOLEAN] /\ live' \in Binds
    BY <1>1, <1>6, StartsTyped DEF StartService, DataTyped
  <2> QED BY <1>1, <1>6, <2>1 DEF StartService, DataTyped, ConfType, AcctType, data
<1> QED
  BY <1>2, <1>3, <1>4, <1>5, <1>6 DEF RootStep

LEMMA RemoteTyped ==
  ASSUME TypeInv, RemoteStep
  PROVE  DataTyped'
<1>1. DataTyped /\ ConfType /\ cmd.bind \in Binds \cup {None, NoBind}
  BY DEF TypeInv, DataTyped, CmdInv, CmdSet
<1>2. CASE WriteDropIn \/ RemoveDropIn \/ UndoDropIn
  <2>1. conf' = conf \/ \E d \in Binds \cup {None, NoBind} : conf' = [conf EXCEPT !.dropIn = d]
    BY <1>1, <1>2 DEF WriteDropIn, RemoveDropIn, UndoDropIn
  <2>2. ConfType'
    BY <1>1, <2>1, DropInTyped DEF ConfType
  <2>3. UNCHANGED <<tcpAs, srv, live, data, saved, ran, apart>>
    BY <1>2 DEF WriteDropIn, RemoveDropIn, UndoDropIn
  <2> QED BY <1>1, <2>2, <2>3 DEF DataTyped, AcctType, data
<1>3. CASE RestartServer
  <2>1. srv' \in [mode : Modes, ready : BOOLEAN] /\ live' \in Binds
    BY <1>1, <1>3, StartsTyped DEF RestartServer, DataTyped
  <2> QED BY <1>1, <1>3, <2>1 DEF RestartServer, DataTyped, ConfType, AcctType, data
<1>4. CASE WaitForDatabase \/ ConfirmDisabled
  BY <1>1, <1>4 DEF WaitForDatabase, ConfirmDisabled, NoServer, DataTyped, ConfType, AcctType, data
<1> QED
  BY <1>2, <1>3, <1>4 DEF RemoteStep

LEMMA TypeStep ==
  ASSUME TypeInv, Next
  PROVE  TypeInv'
<1>1. DataTyped /\ ConfType /\ cmd.user \in Accounts
  BY DEF TypeInv, DataTyped, CmdInv, CmdSet
<1>2. CmdInv' /\ cmd' \in CmdSet
  BY <1>1, CmdStep DEF TypeInv, ConfType, CmdInv
<1>3. ran < MaxCommands /\ ran' = ran + 1 => ran' \in 0..MaxCommands
  BY <1>1, Bounded DEF DataTyped
<1>4. CASE SqlStart
  <2>1. SqlBegins
    BY <1>4, SqlStarts
  <2>2. cmd'.user \in Accounts
    BY <1>2 DEF CmdSet
  <2>3. apart' \subseteq Users
    BY <1>1, <2>1, <2>2 DEF SqlBegins, Marked, DataTyped, Accounts
  <2> QED BY <1>1, <1>2, <1>3, <2>1, <2>3 DEF SqlBegins, Started, TypeInv, DataTyped, ConfType, AcctType
<1>5. CASE OtherStart
  <2>1. OtherBegins
    BY <1>1, <1>5, OtherStarts DEF ConfType
  <2>2. saved' \in Passwords \cup {None}
    BY <1>1, <2>1 DEF OtherBegins, DataTyped
  <2> QED BY <1>1, <1>2, <1>3, <2>1, <2>2 DEF OtherBegins, TypeInv, DataTyped, ConfType, AcctType
<1>6. CASE StatementFails
  <2>1. apart' \subseteq Users
    BY <1>1, <1>6 DEF StatementFails, DataTyped, Accounts
  <2> QED BY <1>1, <1>2, <1>6, <2>1 DEF StatementFails, TypeInv, DataTyped, ConfType, AcctType, data
<1>7. CASE ComesUp
  <2>1. srv' \in [mode : Modes, ready : BOOLEAN]
    BY <1>1, <1>7 DEF ComesUp, DataTyped
  <2> QED BY <1>1, <1>2, <1>7, <2>1 DEF ComesUp, NoServer, TypeInv, DataTyped, ConfType, AcctType, data
<1>8. CASE Kill
  <2>1. apart' \subseteq Users
    BY <1>1, <1>8 DEF Kill, DataTyped, Accounts
  <2>2. saved' \in Passwords \cup {None}
    BY <1>1, <1>8 DEF Kill, DataTyped
  <2>3. conf' = conf \/ conf' = [conf EXCEPT !.dropIn = NoBind]
    BY <1>8 DEF Kill
  <2>4. ConfType'
    BY <1>1, <2>3, DropInTyped DEF ConfType
  <2> QED BY <1>1, <1>2, <1>8, <2>1, <2>2, <2>4 DEF Kill, TypeInv, DataTyped, AcctType, data
<1> QED
  BY <1>2, <1>4, <1>5, <1>6, <1>7, <1>8, RunTyped, RootTyped, RemoteTyped, Steps DEF TypeInv

LEMMA TypeStays == TypeInv /\ UNCHANGED vars => TypeInv'
BY DEF vars, TypeInv, DataTyped, ConfType, AcctType, CmdInv, Fits, At, Idle, Args, Op

LEMMA FirstCmd == Init => cmd.pc = "idle" /\ cmd.op = "none" /\ cmd.todo = <<>>
<1>1. Init => cmd = NoCmd
  BY DEF Init
<1>2. NoCmd.pc = "idle" /\ NoCmd.op = "none" /\ NoCmd.todo = <<>>
  BY DEF NoCmd
<1> QED
  BY <1>1, <1>2

LEMMA TypeInit == Init => TypeInv
<1> SUFFICES ASSUME Init PROVE TypeInv
  OBVIOUS
<1>1. /\ cmd \in CmdSet /\ cmd.todo = <<>> /\ cmd.pc = "idle" /\ cmd.op = "none"
  BY NoCmdTyped DEF Init, NoCmd
<1>2. Elems(cmd.todo) = {}
  BY <1>1, ElemsShort
<1>3. CmdInv
  BY <1>1, <1>2 DEF CmdInv, At, Idle, Belongs
<1>4. AcctType
  BY DEF Init, AcctType, NoAccounts, Secrets
<1>5. ConfType /\ live \in Binds
  BY MysqlAssumption DEF Init, ConfType
<1>6. srv \in [mode : Modes, ready : BOOLEAN]
  BY DEF Init, Modes
<1>7. ran \in 0..MaxCommands
  BY Bounded DEF Init
<1> QED
  BY <1>3, <1>4, <1>5, <1>6, <1>7 DEF TypeInv, DataTyped, Init

LEMMA TypeAlways == Spec => []TypeInv
<1>1. TypeInv /\ [Next]_vars => TypeInv'
  BY TypeStep, TypeStays
<1> QED
  BY <1>1, TypeInit, PTL DEF Spec

\* The accounts, grants and settings keep their types, for every number of
\* users, databases and passwords.  (internal/services/mysql)
THEOREM MysqlTyped == Spec => []TypeOK
BY TypeAlways, InvTypeOK, PTL

-----------------------------------------------------------------------------
(***************************************************************************)
(* What each step of a running command leaves behind.                      *)
(***************************************************************************)
\* Step p and the ones that may follow it within a command.
LEMMA RootMoves ==
  ASSUME CmdInv, RootStep
  PROVE  /\ Same /\ cmd' \in CmdSet /\ UNCHANGED <<conf, grants, dbs, apart>>
         /\ \/ InstallPackage /\ At("package") /\ cmd'.pc \in {"ready", "idle"}
            \/ WaitForReady /\ At("ready") /\ UNCHANGED srv
               /\ \/ RootReady /\ cmd'.pc = "connect"
                  \/ RootDenied /\ cmd'.pc = "idle"
                  \/ ~srv.ready /\ cmd'.pc = "idle"
            \/ ExecAsRootSocket /\ At("connect") /\ UNCHANGED srv
               /\ \/ cmd'.pc = "sql" /\ cmd'.todo = Statements
                  \/ cmd'.pc = "abort" /\ Op("reset")
                  \/ cmd'.pc = "idle" /\ ~Op("reset")
            \/ VerifyRootLogin /\ At("verify") /\ UNCHANGED srv
               /\ \/ cmd'.pc = "save" /\ TcpLogin(cmd.pw) /\ SocketLogin(cmd.pw)
                  \/ cmd'.pc = "idle"
            \/ SaveCredentials /\ At("save") /\ cmd'.pc = "idle" /\ UNCHANGED srv
               /\ (cmd'.ok => saved' = cmd.pw)
            \/ StopService /\ At("stop")
               /\ \/ cmd'.pc = "launch"
                  \/ cmd'.pc = "idle" /\ UNCHANGED srv
            \/ StartRecovery /\ At("launch")
               /\ \/ cmd'.pc = "ready" /\ srv'.mode = "open"
                  \/ cmd'.pc = "idle" /\ UNCHANGED srv
            \/ StopRecovery /\ (At("shutdown") \/ At("abort"))
               /\ \/ cmd'.pc \in {"start", "idle"} /\ srv'.mode = "down"
                  \/ cmd'.pc = "idle" /\ ~RootReady
            \/ StartService /\ At("start")
               /\ \/ cmd'.pc = "verify" /\ srv'.mode = "normal"
                  \/ cmd'.pc = "idle" /\ (srv'.mode = "down" \/ UNCHANGED srv)
         /\ cmd'.pc = "idle" /\ cmd'.ok => SaveCredentials
         /\ ~InstallPackage => UNCHANGED acct
<1> USE DEF At
<1>1. cmd \in CmdSet
  BY DEF CmdInv
<1>2. \A p \in {"idle", "ready", "connect", "abort", "save", "launch", "start", "verify"} :
        p \in Labels \cup {"idle"}
  BY DEF Labels
<1>3. /\ TRUE \in BOOLEAN /\ FALSE \in BOOLEAN
      /\ \A m, b : Server(m, b) => srv'.mode = m
  BY DEF Server
<1>4. CASE InstallPackage
  BY <1>1, <1>2, <1>3, <1>4, Moves DEF InstallPackage
<1>5. CASE WaitForReady
  BY <1>1, <1>2, <1>3, <1>5, Moves DEF WaitForReady, NoServer, data
<1>6. CASE ExecAsRootSocket
  BY <1>1, <1>6, ExecShape DEF ExecAsRootSocket, NoServer, data, Op
<1>7. CASE VerifyRootLogin
  BY <1>1, <1>2, <1>3, <1>7, Moves DEF VerifyRootLogin, NoServer, data
<1>8. CASE SaveCredentials
  BY <1>1, <1>2, <1>3, <1>8, Moves DEF SaveCredentials, data
<1>9. CASE StopService
  BY <1>1, <1>2, <1>3, <1>9, Moves DEF StopService, NoServer, data
<1>10. CASE StartRecovery
  BY <1>1, <1>2, <1>3, <1>10, Moves DEF StartRecovery, NoServer, data
<1>11. CASE StopRecovery
  BY <1>1, <1>2, <1>3, <1>11, Moves DEF StopRecovery, NoServer, data
<1>12. CASE StartService
  <2>1. /\ Starts => srv'.mode = "normal"
        /\ StartFails("start") => srv'.mode = "down" \/ UNCHANGED srv
    BY DEF Starts, StartFails, Server
  <2> QED BY <1>1, <1>2, <1>3, <1>12, <2>1, Moves DEF StartService, data
<1> QED
  BY <1>4, <1>5, <1>6, <1>7, <1>8, <1>9, <1>10, <1>11, <1>12 DEF RootStep

LEMMA RemoteMoves ==
  ASSUME CmdInv, RemoteStep, ConfType
  PROVE  /\ Same /\ cmd' \in CmdSet /\ UNCHANGED <<data, apart, saved>>
         /\ \/ WriteDropIn /\ At("write") /\ cmd'.pc \in {"restart", "idle"}
            \/ /\ RemoveDropIn /\ At("unlink")
               /\ \/ cmd'.pc = "restart" /\ conf'.dropIn = None /\ conf'.own = conf.own
                  \/ cmd'.pc = "idle" /\ UNCHANGED conf
            \/ /\ RestartServer /\ (At("restart") \/ At("undoRestart")) /\ UNCHANGED conf
               /\ \/ /\ cmd'.pc \in {"wait", "undoWait"} /\ live' = ConfBind(conf)
                     /\ cmd'.pc = (IF At("restart") THEN "wait" ELSE "undoWait")
                     /\ srv'.mode = "normal"
                  \/ /\ cmd'.pc = (IF At("restart") THEN "undo" ELSE "idle")
                     /\ srv'.mode # "normal"
            \/ /\ WaitForDatabase /\ (At("wait") \/ At("undoWait")) /\ UNCHANGED <<srv, live, conf>>
               /\ cmd'.pc \in {"idle", "undo", "confirm"}
               /\ At("undoWait") => cmd'.pc = "idle"
            \/ /\ UndoDropIn /\ At("undo") /\ cmd'.pc = "undoRestart"
               /\ Op("disable") /\ "write" \notin FaultKinds => conf'.dropIn = cmd.bind
            \/ ConfirmDisabled /\ At("confirm") /\ cmd'.pc = "idle" /\ UNCHANGED <<srv, live, conf>>
         /\ cmd'.pc = "idle" /\ cmd'.ok =>
              \/ WaitForDatabase /\ Op("enable")
              \/ ConfirmDisabled /\ TcpLogin(saved) /\ live \in Loopback
<1> USE DEF At
<1>1. cmd \in CmdSet
  BY DEF CmdInv
<1>2. \A p \in {"idle", "restart", "wait", "undo", "undoRestart", "undoWait", "confirm"} :
        p \in Labels \cup {"idle"}
  BY DEF Labels
<1>3. TRUE \in BOOLEAN /\ FALSE \in BOOLEAN /\ (TcpLogin(saved) /\ live \in Loopback) \in BOOLEAN
  BY DEF TcpLogin
<1>4. CASE WriteDropIn
  BY <1>1, <1>2, <1>3, <1>4, Moves DEF WriteDropIn
<1>5. CASE RemoveDropIn
  <2>1. [conf EXCEPT !.dropIn = None].dropIn = None /\ [conf EXCEPT !.dropIn = None].own = conf.own
    BY DropInTyped
  <2> QED BY <1>1, <1>2, <1>3, <1>5, <2>1, Moves DEF RemoveDropIn
<1>6. CASE RestartServer
  <2>1. /\ Starts => live' = ConfBind(conf) /\ srv'.mode = "normal"
        /\ StartFails("restart") => srv'.mode # "normal"
    BY StartsTyped DEF Starts, Server
  <2> QED BY <1>1, <1>2, <1>3, <1>6, <2>1, Moves DEF RestartServer
<1>7. CASE WaitForDatabase
  <2>1. Op("enable") \/ Op("disable")
    BY <1>7 DEF WaitForDatabase, CmdInv, Belongs, RemoteOps, Op
  <2> QED BY <1>1, <1>2, <1>3, <1>7, <2>1, Moves DEF WaitForDatabase, NoServer, Op
<1>8. CASE UndoDropIn
  <2>1. cmd.bind \in Binds \cup {None, NoBind}
    BY <1>1 DEF CmdSet
  <2>2. Op("disable") /\ "write" \notin FaultKinds => conf'.dropIn = cmd.bind
    BY <1>8, <2>1, DropInTyped DEF UndoDropIn, Op, Fault
  <2> QED BY <1>1, <1>2, <1>3, <1>8, <2>2, Moves DEF UndoDropIn
<1>9. CASE ConfirmDisabled
  BY <1>1, <1>2, <1>3, <1>9, Moves DEF ConfirmDisabled, NoServer
<1> QED
  BY <1>4, <1>5, <1>6, <1>7, <1>8, <1>9 DEF RemoteStep

LEMMA SqlMoves ==
  ASSUME CmdInv, RunStatement \/ StatementFails
  PROVE  /\ Same /\ cmd' \in CmdSet /\ At("sql") /\ UNCHANGED <<conf, live, saved>>
         /\ cmd'.pc \in {"sql", "verify", "shutdown", "abort", "idle"}
         /\ cmd'.pc = "idle" => cmd.op # "reset"
         /\ cmd'.pc = "verify" => cmd.op = "install"
         /\ cmd'.pc = "idle" /\ cmd'.ok => cmd.op \in SqlOps
<1>1. At("sql") /\ UNCHANGED <<conf, live, saved>> /\ cmd \in CmdSet
      /\ cmd.op \in SqlOps \cup {"install", "reset"}
  BY DEF RunStatement, StatementFails, CmdInv, At, Belongs
<1>2. CASE \E hurt \in BOOLEAN : SqlFailed(hurt)
  BY <1>1, <1>2, SqlFailedShape DEF Op
<1>3. CASE RunStatement /\ ~SqlFailed(FALSE)
  BY <1>1, <1>3, RunShape DEF AfterSql, Op, SqlOps
<1> QED
  BY <1>2, <1>3 DEF StatementFails

\* A command that reports success ends here.
LEMMA EndsWell ==
  ASSUME TypeInv, Next, ~Idle, cmd'.pc = "idle", cmd'.op # "killed", cmd'.ok
  PROVE  /\ Same
         /\ \/ RunStatement /\ cmd.op \in SqlOps
            \/ SaveCredentials /\ At("save") /\ saved' = cmd.pw /\ UNCHANGED <<srv, acct>>
               /\ cmd.op \in {"install", "reset"}
            \/ WaitForDatabase /\ cmd.op = "enable"
            \/ ConfirmDisabled /\ cmd.op = "disable" /\ TcpLogin(saved) /\ live \in Loopback
               /\ UNCHANGED <<srv, live>>
<1>1. CmdInv /\ ConfType
  BY DEF TypeInv, DataTyped
<1>2. CASE SqlStart \/ OtherStart
  <2>1. Idle
    BY <1>1, <1>2, SqlStarts, OtherStarts DEF SqlBegins, Started, OtherBegins, ConfType
  <2> QED BY <2>1
<1>3. CASE RunStatement \/ StatementFails
  <2>1. /\ Same /\ cmd.op \in SqlOps /\ cmd.op # "reset"
    BY <1>1, <1>3, SqlMoves
  <2>2. ~StatementFails
    BY <1>1, SqlFailedShape DEF StatementFails, CmdInv
  <2> QED BY <1>3, <2>1, <2>2
<1>4. CASE RootStep
  <2>1. Same /\ SaveCredentials
    BY <1>1, <1>4, RootMoves
  <2>2. /\ At("save") /\ UNCHANGED <<srv, acct>>
    BY <2>1 DEF SaveCredentials, data
  <2>3. cmd.op \in {"install", "reset"}
    BY <1>1, <2>2 DEF CmdInv, Belongs, At
  <2>4. saved' = cmd.pw
    <3>1. "idle" \in Labels \cup {"idle"} /\ cmd \in CmdSet
      BY <1>1 DEF CmdInv
    <3> QED BY <2>1, <3>1, Moves DEF SaveCredentials
  <2> QED BY <2>1, <2>2, <2>3, <2>4
<1>5. CASE RemoteStep
  <2>1. /\ Same
        /\ \/ WaitForDatabase /\ Op("enable")
           \/ ConfirmDisabled /\ TcpLogin(saved) /\ live \in Loopback
    BY <1>1, <1>5, RemoteMoves
  <2>2. ConfirmDisabled => cmd.op = "disable" /\ UNCHANGED <<srv, live>>
    BY <1>1 DEF CmdInv, Belongs, At, ConfirmDisabled, NoServer
  <2> QED BY <2>1, <2>2 DEF Op
<1>6. CASE ComesUp
  BY <1>6 DEF ComesUp, Idle
<1>7. CASE Kill
  BY <1>7, KillShape
<1> QED
  BY <1>2, <1>3, <1>4, <1>5, <1>6, <1>7, Steps

\* remote disable reports success only while the server listens locally, and it
\* answered when the address was read.  (DisableRemote reads the address again)
THEOREM DisableConfirmed == Spec => DisabledIsLocal
<1> DEFINE A == Ends("disable") /\ cmd'.ok => live' \in Loopback /\ srv'.ready
<1>1. ASSUME TypeInv, [Next]_vars PROVE A
  <2> SUFFICES ASSUME Ends("disable"), cmd'.ok PROVE live' \in Loopback /\ srv'.ready
    OBVIOUS
  <2>1. Next
    BY <1>1 DEF vars, Ends, Idle
  <2>2. /\ Same
        /\ \/ cmd.op \in SqlOps \cup {"install", "reset", "enable"}
           \/ TcpLogin(saved) /\ live \in Loopback /\ UNCHANGED <<srv, live>>
    BY <1>1, <2>1, EndsWell DEF Ends
  <2>3. cmd.op = "disable"
    BY <2>2 DEF Ends, Same
  <2> QED BY <2>2, <2>3 DEF TcpLogin, SqlOps
<1> QED
  BY <1>1, TypeAlways, PTL DEF Spec, DisabledIsLocal

-----------------------------------------------------------------------------
(***************************************************************************)
(* Remote access.                                                          *)
(***************************************************************************)
\* Between the restart and the end the server has the address of its files.
Restarted ==
  cmd.pc \in {"wait", "confirm", "undoWait"} /\ srv.mode = "normal" => live = ConfBind(conf)
LEMMA RestartedStep ==
  ASSUME TypeInv, Next, Restarted
  PROVE  Restarted'
<1>1. CmdInv /\ ConfType
  BY DEF TypeInv, DataTyped
<1>2. CASE SqlStart \/ OtherStart
  <2>1. cmd'.pc \notin {"wait", "confirm", "undoWait"}
    BY <1>1, <1>2, SqlStarts, OtherStarts DEF SqlBegins, Started, OtherBegins, ConfType
  <2> QED BY <2>1 DEF Restarted
<1>3. CASE RunStatement \/ StatementFails
  BY <1>1, <1>3, SqlMoves DEF Restarted
<1>4. CASE RootStep
  BY <1>1, <1>4, RootMoves DEF Restarted
<1>5. CASE RemoteStep
  BY <1>1, <1>5, RemoteMoves DEF Restarted, At, ConfBind
<1>6. CASE ComesUp
  BY <1>6 DEF ComesUp, NoServer, Restarted, ConfBind
<1>7. CASE Kill
  BY <1>7, KillShape DEF Restarted
<1> QED
  BY <1>2, <1>3, <1>4, <1>5, <1>6, <1>7, Steps

LEMMA RestartedAlways == Spec => []Restarted
<1>1. Init => Restarted
  BY FirstCmd DEF Restarted
<1>2. TypeInv /\ Restarted /\ [Next]_vars => Restarted'
  BY RestartedStep DEF vars, Restarted, ConfBind
<1> QED
  BY <1>1, <1>2, TypeAlways, PTL DEF Spec

\* A remote command that ends leaves the server with the address its files ask
\* for, also when it fails and undoes itself.  (EnableRemote, DisableRemote,
\* rollbackEnable, rollbackDisable)
THEOREM RemoteSettles == Spec => RemoteSettled
<1> DEFINE A == (Ends("enable") \/ Ends("disable")) /\ ~At("write") /\ ~At("unlink")
                /\ srv'.mode = "normal" => live' = ConfBind(conf')
<1>1. ASSUME TypeInv, Restarted, [Next]_vars PROVE A
  <2> SUFFICES ASSUME ~Idle, cmd'.pc = "idle", cmd'.op \in RemoteOps, ~At("write"), ~At("unlink"),
                      srv'.mode = "normal"
               PROVE  live' = ConfBind(conf')
    BY DEF Ends, RemoteOps
  <2>1. Next /\ CmdInv /\ ConfType
    BY <1>1 DEF vars, Idle, TypeInv, DataTyped
  <2>2. CASE SqlStart \/ OtherStart
    BY <2>1, <2>2, SqlStarts, OtherStarts DEF SqlBegins, Started, OtherBegins, ConfType
  <2>3. CASE RunStatement \/ StatementFails
    <3>1. cmd.op \in SqlOps \cup {"install", "reset"} /\ Same
      BY <2>1, <2>3, SqlMoves DEF CmdInv, At, Belongs
    <3> QED BY <3>1 DEF Same, SqlOps, RemoteOps
  <2>4. CASE RootStep
    <3>1. cmd.op \in {"install", "reset"} /\ Same
      BY <2>1, <2>4, RootMoves DEF CmdInv, At, Belongs
    <3> QED BY <3>1 DEF Same, RemoteOps
  <2>5. CASE RemoteStep
    BY <1>1, <2>1, <2>5, RemoteMoves DEF At, Restarted, ConfBind
  <2>6. CASE ComesUp
    BY <2>6 DEF ComesUp, Idle
  <2>7. CASE Kill
    BY <2>7, KillShape DEF RemoteOps
  <2> QED BY <2>1, <2>2, <2>3, <2>4, <2>5, <2>6, <2>7, Steps
<1> QED
  BY <1>1, TypeAlways, RestartedAlways, PTL DEF Spec, RemoteSettled

\* Where a disable stands: it begins with the drop-in there, which it removes and
\* brings back when the server does not come up.
Disabling ==
  Op("disable") =>
    /\ cmd.pc \in {"unlink", "undoRestart", "undoWait"} => conf.dropIn = cmd.bind
    /\ cmd.pc \in {"restart", "wait", "confirm"} => conf.dropIn = None
    /\ cmd.pc \in {"wait", "confirm"} => srv.mode = "normal"
LEMMA DisablingStep ==
  ASSUME TypeInv, Next, Disabling, "write" \notin FaultKinds
  PROVE  Disabling'
<1>1. CmdInv /\ ConfType
  BY DEF TypeInv, DataTyped
<1> DEFINE Watched == {"unlink", "restart", "wait", "confirm", "undoRestart", "undoWait"}
<1>2. CASE SqlStart \/ ConfigSetCmd \/ InstallCmd \/ ResetCmd \/ EnableCmd
  <2>1. cmd'.pc \in Watched => cmd'.op # "disable"
    <3>1. CASE SqlStart
      BY <1>1, <3>1, SqlStarts DEF SqlBegins, Started
    <3>2. CASE ConfigSetCmd \/ InstallCmd \/ ResetCmd \/ EnableCmd
      BY <3>2 DEF ConfigSetCmd, SetConfig, InstallCmd, Install, ResetCmd, ResetRootPassword,
                  EnableCmd, EnableRemote, Begin, NoCmd
    <3> QED BY <1>2, <3>1, <3>2
  <2> QED BY <2>1 DEF Disabling, Op
<1>3. CASE DisableRemote
  <2>1. cmd'.pc = "unlink" /\ cmd'.bind = conf.dropIn /\ conf' = conf
    BY <1>3 DEF DisableRemote, Begin, NoCmd
  <2> QED BY <2>1 DEF Disabling
<1>4. CASE RunStatement \/ StatementFails
  BY <1>1, <1>4, SqlMoves DEF Disabling
<1>5. CASE RootStep
  <2>1. cmd'.op = cmd.op /\ cmd.op # "disable"
    BY <1>1, <1>5, RootMoves DEF Same, CmdInv, At, Belongs
  <2> QED BY <2>1 DEF Disabling, Op
<1>6. CASE RemoteStep
  <2>1. cmd'.op = cmd.op /\ cmd'.bind = cmd.bind
    BY <1>1, <1>6, RemoteMoves DEF Same
  <2>2. CASE WriteDropIn
    BY <1>1, <2>1, <2>2 DEF WriteDropIn, CmdInv, At, Belongs, Disabling, Op
  <2>3. CASE ~WriteDropIn
    BY <1>1, <1>6, <2>1, <2>3, RemoteMoves DEF Disabling, At, Op
  <2> QED BY <2>2, <2>3
<1>7. CASE ComesUp
  BY <1>7 DEF ComesUp, NoServer, Disabling, Op
<1>8. CASE Kill
  BY <1>8, KillShape DEF Disabling
<1> QED
  BY <1>2, <1>3, <1>4, <1>5, <1>6, <1>7, <1>8, Steps DEF OtherStart

\* A remote disable that reports an error leaves the drop-in as it was, or has
\* removed it and the server runs with the address of the other files, unless the
\* drop-in cannot be written.  (DisableRemote, rollbackDisable)
THEOREM DisableIsWhole ==
  ASSUME "write" \notin FaultKinds
  PROVE  Spec => DisabledOrRestored
<1> DEFINE A == Ends("disable") /\ ~cmd'.ok =>
                  \/ conf'.dropIn = cmd.bind
                  \/ conf'.dropIn = None /\ srv'.mode = "normal" /\ live' = conf'.own
<1>1. Init => Disabling
  BY FirstCmd DEF Disabling, Op
<1>2. TypeInv /\ Disabling /\ [Next]_vars => Disabling'
  BY DisablingStep DEF vars, Disabling, Op
<1>3. ASSUME TypeInv, Disabling, Restarted, [Next]_vars PROVE A
  <2> SUFFICES ASSUME Ends("disable"), ~cmd'.ok
               PROVE  \/ conf'.dropIn = cmd.bind
                      \/ conf'.dropIn = None /\ srv'.mode = "normal" /\ live' = conf'.own
    OBVIOUS
  <2>1. Next /\ CmdInv /\ ConfType
    BY <1>3 DEF vars, Ends, Idle, TypeInv, DataTyped
  <2>2. CASE SqlStart \/ OtherStart
    BY <2>1, <2>2, SqlStarts, OtherStarts DEF SqlBegins, Started, OtherBegins, ConfType, Ends
  <2>3. CASE RunStatement \/ StatementFails
    <3>1. cmd.op \in SqlOps \cup {"install", "reset"} /\ Same
      BY <2>1, <2>3, SqlMoves DEF CmdInv, At, Belongs
    <3> QED BY <3>1 DEF Same, SqlOps, Ends
  <2>4. CASE RootStep
    <3>1. cmd.op \in {"install", "reset"} /\ Same
      BY <2>1, <2>4, RootMoves DEF CmdInv, At, Belongs
    <3> QED BY <3>1 DEF Same, Ends
  <2>5. CASE RemoteStep
    <3>1. Op("disable") /\ ~At("write") /\ cmd'.pc = "idle"
      BY <2>1, <2>5, RemoteMoves DEF Same, Ends, CmdInv, Belongs, At, Op
    <3>2. CASE At("unlink") \/ At("undoRestart") \/ At("undoWait")
      <4>1. conf' = conf
        BY <2>1, <2>5, <3>1, <3>2, RemoteMoves DEF At
      <4> QED BY <1>3, <3>1, <3>2, <4>1 DEF Disabling, At
    <3>3. CASE At("confirm")
      <4>1. UNCHANGED <<srv, live, conf>>
        BY <2>1, <2>5, <3>1, <3>3, RemoteMoves DEF At
      <4>2. conf.dropIn = None /\ srv.mode = "normal" /\ live = ConfBind(conf)
        BY <1>3, <3>1, <3>3 DEF Disabling, Restarted, At
      <4>3. ConfBind(conf) = conf.own
        BY <4>2, MysqlAssumption DEF ConfBind
      <4> QED BY <4>1, <4>2, <4>3
    <3>4. CASE At("wait")
      <4>1. WaitForDatabase /\ Op("disable")
        BY <2>1, <2>5, <3>1, <3>4, RemoteMoves DEF At
      <4>2. Hurt("undo") \/ Goto("confirm")
        <5>1. srv.ready \in BOOLEAN /\ ~Op("enable") /\ ~At("undoWait")
          BY <1>3, <3>4, <4>1 DEF TypeInv, DataTyped, At, Op
        <5> QED BY <3>4, <4>1, <5>1 DEF WaitForDatabase
      <4>3. cmd \in CmdSet /\ "undo" \in Labels /\ "confirm" \in Labels
        BY <2>1 DEF CmdInv, Labels
      <4>4. cmd'.pc # "idle"
        BY <4>2, <4>3, Moves
      <4> QED BY <3>1, <4>4
    <3> QED BY <2>1, <2>5, <3>1, <3>2, <3>3, <3>4, RemoteMoves DEF At
  <2>6. CASE ComesUp
    BY <2>6 DEF ComesUp, Ends, Idle
  <2>7. CASE Kill
    BY <2>7, KillShape DEF Ends
  <2> QED BY <2>1, <2>2, <2>3, <2>4, <2>5, <2>6, <2>7, Steps
<1> QED
  BY <1>1, <1>2, <1>3, TypeAlways, RestartedAlways, PTL DEF Spec, DisabledOrRestored

-----------------------------------------------------------------------------
(***************************************************************************)
(* install and reset-root-password.                                        *)
(***************************************************************************)
\* The server process a reset works with.
Recovering ==
  Op("reset") =>
    /\ At("start") => srv.mode = "down"
    /\ At("ready") => srv.mode = "open"
    /\ cmd.pc \in {"verify", "save"} => srv.mode = "normal"
LEMMA RecoveringStep ==
  ASSUME TypeInv, Next, Recovering
  PROVE  Recovering'
<1>1. CmdInv /\ ConfType
  BY DEF TypeInv, DataTyped
<1> DEFINE Watched == {"start", "ready", "verify", "save"}
<1>2. CASE SqlStart \/ OtherStart
  <2>1. cmd'.pc \notin Watched
    BY <1>1, <1>2, SqlStarts, OtherStarts DEF SqlBegins, Started, OtherBegins, ConfType
  <2> QED BY <2>1 DEF Recovering, At
<1>3. CASE RunStatement \/ StatementFails
  BY <1>1, <1>3, SqlMoves DEF Recovering, At, Same, Op
<1>4. CASE RootStep
  <2>1. cmd'.op = cmd.op
    BY <1>1, <1>4, RootMoves DEF Same
  <2>2. CASE InstallPackage
    <3>1. cmd.op = "install"
      BY <1>1, <2>2 DEF InstallPackage, CmdInv, Belongs, At
    <3> QED BY <2>1, <3>1 DEF Recovering, Op
  <2>3. CASE VerifyRootLogin
    BY <1>1, <1>4, <2>1, <2>3, RootMoves DEF Recovering, Op, At, VerifyRootLogin
  <2>4. CASE ~InstallPackage /\ ~VerifyRootLogin
    BY <1>1, <1>4, <2>1, <2>4, RootMoves DEF Recovering, Op, At
  <2> QED BY <2>2, <2>3, <2>4
<1>5. CASE RemoteStep
  BY <1>1, <1>5, RemoteMoves DEF Recovering, At, Same, Op
<1>6. CASE ComesUp
  BY <1>6 DEF ComesUp, NoServer, Recovering, Op, At
<1>7. CASE Kill
  BY <1>7, KillShape DEF Recovering, Op
<1> QED
  BY <1>2, <1>3, <1>4, <1>5, <1>6, <1>7, Steps

\* A reset that ends by itself leaves no server that ignores the grant tables which
\* it started, unless that could not be stopped or was too slow to answer in time.
\* One that a killed reset left is neither stopped nor replaced: a later reset fails
\* at "stop" or "launch" and leaves it as it was.  (ResetRootPassword)
THEOREM RecoveryEnds == Spec => RecoveryStopped
<1> DEFINE A == Ends("reset") /\ srv'.mode \in {"open", "fenced"} =>
             \/ ~RootReady /\ (At("shutdown") \/ At("abort"))
             \/ At("ready") /\ ~srv.ready
             \/ (At("stop") \/ At("launch")) /\ srv' = srv
<1>1. Init => Recovering
  BY FirstCmd DEF Recovering, Op
<1>2. TypeInv /\ Recovering /\ [Next]_vars => Recovering'
  BY RecoveringStep DEF vars, Recovering, Op, At
<1>3. ASSUME TypeInv, Recovering, [Next]_vars PROVE A
  <2> SUFFICES ASSUME Ends("reset"), srv'.mode \in {"open", "fenced"}
               PROVE  \/ ~RootReady /\ (At("shutdown") \/ At("abort"))
                      \/ At("ready") /\ ~srv.ready
                      \/ (At("stop") \/ At("launch")) /\ srv' = srv
    OBVIOUS
  <2>1. Next /\ CmdInv /\ ConfType
    BY <1>3 DEF vars, Ends, Idle, TypeInv, DataTyped
  <2>2. CASE SqlStart \/ OtherStart
    BY <2>1, <2>2, SqlStarts, OtherStarts DEF SqlBegins, Started, OtherBegins, ConfType, Ends
  <2>3. CASE RunStatement \/ StatementFails
    BY <2>1, <2>3, SqlMoves DEF Ends, Same
  <2>4. CASE RootStep
    <3>1. cmd.op = "reset"
      BY <2>1, <2>4, RootMoves DEF Same, Ends
    <3>2. CASE InstallPackage
      BY <2>1, <3>1, <3>2 DEF InstallPackage, CmdInv, Belongs, At
    <3>3. CASE VerifyRootLogin
      BY <1>3, <2>1, <2>4, <3>1, <3>3, RootMoves DEF Recovering, At, Op, VerifyRootLogin
    <3>4. CASE ~InstallPackage /\ ~VerifyRootLogin
      BY <1>3, <2>1, <2>4, <3>1, <3>4, RootMoves DEF Recovering, At, Op, Ends, RootDenied, RootReady
    <3> QED BY <3>2, <3>3, <3>4
  <2>5. CASE RemoteStep
    <3>1. cmd.op = "reset" /\ cmd.op \in RemoteOps
      BY <2>1, <2>5, RemoteMoves DEF Same, Ends, CmdInv, Belongs, At, RemoteOps
    <3> QED BY <3>1 DEF RemoteOps
  <2>6. CASE ComesUp
    BY <2>6 DEF ComesUp, Ends, Idle
  <2>7. CASE Kill
    BY <2>7, KillShape DEF Ends
  <2> QED BY <2>1, <2>2, <2>3, <2>4, <2>5, <2>6, <2>7, Steps
<1> QED
  BY <1>1, <1>2, <1>3, TypeAlways, PTL DEF Spec, RecoveryStopped

\* The password that is about to be saved opens the server.
Verified == At("save") => TcpLogin(cmd.pw) /\ SocketLogin(cmd.pw)
LEMMA VerifiedStep ==
  ASSUME TypeInv, Next, Verified
  PROVE  Verified'
<1>1. CmdInv /\ ConfType
  BY DEF TypeInv, DataTyped
<1>2. CASE SqlStart \/ OtherStart
  <2>1. cmd'.pc # "save"
    BY <1>1, <1>2, SqlStarts, OtherStarts DEF SqlBegins, Started, OtherBegins, ConfType
  <2> QED BY <2>1 DEF Verified, At
<1>3. CASE RunStatement \/ StatementFails
  BY <1>1, <1>3, SqlMoves DEF Verified, At
<1>4. CASE RootStep
  <2>1. cmd'.pc = "save" => /\ VerifyRootLogin /\ UNCHANGED <<srv, acct, tcpAs>> /\ cmd'.pw = cmd.pw
                            /\ TcpLogin(cmd.pw) /\ SocketLogin(cmd.pw)
    BY <1>1, <1>4, RootMoves DEF Same, VerifyRootLogin, NoServer, data
  <2> QED BY <2>1 DEF Verified, At, TcpLogin, SocketLogin, RootTcp
<1>5. CASE RemoteStep
  BY <1>1, <1>5, RemoteMoves DEF Verified, At
<1>6. CASE ComesUp
  <2>1. ~srv.ready /\ cmd' = cmd
    BY <1>6 DEF ComesUp
  <2> QED BY <2>1 DEF Verified, At, TcpLogin
<1>7. CASE Kill
  BY <1>7, KillShape DEF Verified, At
<1> QED
  BY <1>2, <1>3, <1>4, <1>5, <1>6, <1>7, Steps

\* install and reset-root-password report success only with a saved password that
\* opened the server over TCP and on the socket.  (verifyRootLogin, waitForRootLogin)
THEOREM SavedWorks == Spec => SavedPasswordWorks
<1> DEFINE A == (Ends("install") \/ Ends("reset")) /\ cmd'.ok =>
                  /\ acct'[Root][RootTcp] = saved' /\ saved' = cmd.pw
                  /\ acct'[Root]["localhost"] \in {saved', Socket}
                  /\ srv'.mode = "normal"
<1>1. Init => Verified
  BY FirstCmd DEF Verified, At
<1>2. TypeInv /\ Verified /\ [Next]_vars => Verified'
  BY VerifiedStep DEF vars, Verified, At, TcpLogin, SocketLogin, RootTcp
<1>3. ASSUME TypeInv, Verified, [Next]_vars PROVE A
  <2> SUFFICES ASSUME Ends("install") \/ Ends("reset"), cmd'.ok
               PROVE  /\ acct'[Root][RootTcp] = saved' /\ saved' = cmd.pw
                      /\ acct'[Root]["localhost"] \in {saved', Socket}
                      /\ srv'.mode = "normal"
    OBVIOUS
  <2>1. Next /\ ~Idle /\ cmd'.pc = "idle" /\ cmd'.op \in {"install", "reset"}
    BY <1>3 DEF vars, Ends, Idle
  <2>2. Same /\ At("save") /\ saved' = cmd.pw /\ UNCHANGED <<srv, acct>>
    BY <1>3, <2>1, EndsWell DEF Same, SqlOps
  <2> QED BY <1>3, <2>2 DEF Verified, TcpLogin, SocketLogin
<1> QED
  BY <1>1, <1>2, <1>3, TypeAlways, PTL DEF Spec, SavedPasswordWorks

-----------------------------------------------------------------------------
(***************************************************************************)
(* What the statements of a command add up to.  A statement that counts is *)
(* either still on the list, or it has had its effect.                     *)
(***************************************************************************)
Pending(k, u, h, x) == Stmt(k, u, h, x) \in Elems(cmd.todo)
Granted(u, h, d) == [user |-> u, host |-> h, db |-> d] \in grants

\* The server runs the first statement of the list, or it does not.
Ran     == RunStatement /\ LoggedIn /\ Legal(Head(cmd.todo))
Refused == RunStatement /\ ~(LoggedIn /\ Legal(Head(cmd.todo)))

LEMMA RunEffect ==
  ASSUME TypeInv, Ran
  PROVE  /\ At("sql") /\ Same /\ Args /\ cmd'.todo = Tail(cmd.todo) /\ UNCHANGED apart
         /\ cmd'.pc = "sql" \/ (cmd'.pc = AfterSql /\ cmd'.todo = <<>>)
         /\ \E s \in Elems(cmd.todo) :
              /\ s \in Statement /\ Fits(s)
              /\ \A t \in Elems(cmd.todo) : t = s \/ t \in Elems(cmd'.todo)
              /\ Elems(cmd'.todo) \subseteq Elems(cmd.todo)
              /\ \A u \in Accounts, h \in Hosts :
                   u # s.user \/ h # s.host => acct'[u][h] = acct[u][h]
              /\ acct'[s.user][s.host] = After(s, acct[s.user][s.host])
              /\ \A g : g \in grants' <=>
                   \/ g \in grants /\ ~(s.kind = "drop" /\ g.user = s.user /\ g.host = s.host)
                      /\ ~(s.kind = "revoke" /\ g = [user |-> s.user, host |-> s.host, db |-> s.arg])
                   \/ s.kind = "grant" /\ g = [user |-> s.user, host |-> s.host, db |-> s.arg]
<1> DEFINE s == Head(cmd.todo)
<1>1. CmdInv /\ cmd \in CmdSet
  BY DEF TypeInv, CmdInv
<1>2. s \in Elems(cmd.todo) /\ s \in Statement /\ Fits(s)
  BY <1>1, RunShape DEF CmdInv, Ran
<1>3. At("sql") /\ Args
  BY <1>1 DEF CmdInv, Ran, RunStatement, At, Idle
<1>5. /\ Same /\ Apply(s) /\ UNCHANGED apart /\ cmd'.todo = Tail(cmd.todo)
      /\ cmd'.pc = "sql" \/ (cmd'.pc = AfterSql /\ cmd'.todo = <<>>)
  BY <1>1, RunShape DEF Ran
<1>6. /\ \A t \in Elems(cmd.todo) : t = s \/ t \in Elems(cmd'.todo)
      /\ Elems(cmd'.todo) \subseteq Elems(cmd.todo)
  BY <1>1, <1>5, RunShape DEF Ran
<1> HIDE DEF s
<1>7. /\ s.kind \in {"create", "alter"} => s.arg \in Passwords
      /\ s.kind = "clone" => s.arg \in Hosts
      /\ s.kind = "grant" => s.user \in Users /\ s.arg \in Databases
      /\ s.kind \in {"createDb", "createDbIf"} => s.arg \in Databases
  BY <1>2, <1>3 DEF Fits, Args, FlushStmt, Stmt, Op
<1>8. AcctType /\ grants \subseteq GrantSet /\ dbs \subseteq Databases
  BY DEF TypeInv, DataTyped
<1>9. /\ \A u \in Accounts, h \in Hosts :
           u # s.user \/ h # s.host => acct'[u][h] = acct[u][h]
      /\ acct'[s.user][s.host] = After(s, acct[s.user][s.host])
  BY <1>2, <1>5, <1>7, <1>8, ApplyAcct
<1>10. \A g : g \in grants' <=>
           \/ g \in grants /\ ~(s.kind = "drop" /\ g.user = s.user /\ g.host = s.host)
              /\ ~(s.kind = "revoke" /\ g = [user |-> s.user, host |-> s.host, db |-> s.arg])
           \/ s.kind = "grant" /\ g = [user |-> s.user, host |-> s.host, db |-> s.arg]
  BY <1>2, <1>5, <1>7, <1>8, ApplyOther
<1> QED
  BY <1>2, <1>3, <1>5, <1>6, <1>9, <1>10

LEMMA RunLast ==
  ASSUME TypeInv, Ran, cmd'.pc # "sql"
  PROVE  Elems(cmd'.todo) = {}
<1>1. cmd'.todo = <<>>
  BY RunEffect
<1> QED
  BY <1>1, ElemsShort

LEMMA SqlStops ==
  ASSUME CmdInv, StatementFails \/ Refused
  PROVE  /\ Same /\ cmd'.todo = <<>> /\ cmd'.pc \in {"abort", "idle"} /\ ~cmd'.ok
         /\ UNCHANGED data /\ apart' = apart \cup ({cmd.user} \ {Root})
<1>1. cmd \in CmdSet /\ (SqlFailed(FALSE) \/ SqlFailed(TRUE))
  BY DEF CmdInv, StatementFails, Refused, RunStatement
<1>2. UNCHANGED data /\ apart' = apart \cup ({cmd.user} \ {Root})
  BY DEF StatementFails, Refused, RunStatement, data
<1> QED
  BY <1>1, <1>2, SqlFailedShape

\* What install still has to do for root, or has done.
RootAlter == Pending("alter", Root, "localhost", cmd.pw)
RootDrop  == Pending("drop", Root, "%", None)
Secured ==
  Op("install") =>
    /\ At("sql") => /\ RootAlter \/ acct[Root]["localhost"] \in Passwords
                    /\ RootDrop \/ acct[Root]["%"] = None
    /\ cmd.pc \in {"verify", "save"} =>
         acct[Root]["localhost"] \in Passwords /\ acct[Root]["%"] = None

LEMMA SecuredRun ==
  ASSUME TypeInv, RunStatement, Secured
  PROVE  Secured'
<1>0. CmdInv /\ cmd.op = cmd'.op
  BY SqlMoves DEF TypeInv, Same
<1>1. CASE Refused
  <2>1. cmd'.pc \in {"abort", "idle"}
    BY <1>0, <1>1, SqlStops
  <2> QED BY <2>1 DEF Secured, At
<1>2. CASE Ran /\ Op("install")
  <2>1. PICK s \in Elems(cmd.todo) :
          /\ s \in Statement /\ Fits(s)
          /\ \A t \in Elems(cmd.todo) : t = s \/ t \in Elems(cmd'.todo)
          /\ \A u \in Accounts, h \in Hosts :
               u # s.user \/ h # s.host => acct'[u][h] = acct[u][h]
          /\ acct'[s.user][s.host] = After(s, acct[s.user][s.host])
    BY <1>2, RunEffect
  <2>2. At("sql") /\ Same /\ cmd.pw \in Passwords
    BY <1>2, RunEffect DEF Args, Op
  <2>3. Root \in Accounts /\ "localhost" \in Hosts /\ "%" \in Hosts
    BY DEF Accounts, Hosts
  <2>4. \/ s = FlushStmt
        \/ s.user = Root /\ s.kind = "alter" /\ s.host = "localhost" /\ s.arg = cmd.pw
        \/ s.user = Root /\ s.kind = "create" /\ s.host = "127.0.0.1"
        \/ s.user = Root /\ s.kind = "drop" /\ s.host = "%"
    BY <1>2, <2>1 DEF Fits, Op
  <2>5. /\ acct'[Root]["localhost"] = acct[Root]["localhost"] \/ acct'[Root]["localhost"] \in Passwords
        /\ s = Stmt("alter", Root, "localhost", cmd.pw) => acct'[Root]["localhost"] \in Passwords
    BY <2>1, <2>2, <2>3, <2>4 DEF After, FlushStmt, Stmt
  <2>6. /\ acct'[Root]["%"] = acct[Root]["%"] \/ acct'[Root]["%"] = None
        /\ s = Stmt("drop", Root, "%", None) => acct'[Root]["%"] = None
    BY <2>1, <2>2, <2>3, <2>4 DEF After, FlushStmt, Stmt
  <2>7. /\ Stmt("alter", Root, "localhost", cmd.pw) \in Elems(cmd'.todo)
             \/ acct'[Root]["localhost"] \in Passwords
        /\ Stmt("drop", Root, "%", None) \in Elems(cmd'.todo) \/ acct'[Root]["%"] = None
    BY <1>2, <2>1, <2>2, <2>5, <2>6 DEF Secured, RootAlter, RootDrop, Pending
  <2>8. cmd'.pc # "sql" => Elems(cmd'.todo) = {}
    BY <1>2, RunLast
  <2> QED BY <2>2, <2>7, <2>8 DEF Secured, RootAlter, RootDrop, Pending, Same, At
<1> QED
  BY <1>0, <1>1, <1>2 DEF Secured, Op, Ran, Refused

LEMMA SecuredStep ==
  ASSUME TypeInv, Next, Secured
  PROVE  Secured'
<1>1. CmdInv /\ ConfType
  BY DEF TypeInv, DataTyped
<1>2. CASE SqlStart \/ OtherStart
  <2>1. cmd'.pc \notin {"verify", "save"} /\ (cmd'.pc = "sql" => cmd'.op \in SqlOps)
    BY <1>1, <1>2, SqlStarts, OtherStarts DEF SqlBegins, Started, OtherBegins, ConfType
  <2> QED BY <2>1 DEF Secured, At, Op, SqlOps
<1>3. CASE StatementFails
  BY <1>1, <1>3, SqlStops DEF Secured, At
<1>4. CASE ExecAsRootSocket
  <2>1. Same /\ cmd.pw \in Passwords /\ (cmd'.pc \in {"abort", "idle"} \/ cmd'.todo = Statements)
        /\ cmd'.pc \notin {"verify", "save"}
    BY <1>1, <1>4, ExecShape
  <2>2. Op("install") => /\ Stmt("alter", Root, "localhost", cmd.pw) \in Elems(Statements)
                         /\ Stmt("drop", Root, "%", None) \in Elems(Statements)
    BY <2>1, StatementsShape DEF RootStmts
  <2> QED BY <2>1, <2>2 DEF Secured, RootAlter, RootDrop, Pending, Same, Op, At
<1>5. CASE RootStep /\ ~ExecAsRootSocket
  <2>1. cmd'.op = cmd.op /\ cmd'.pw = cmd.pw
    BY <1>1, <1>5, RootMoves DEF Same
  <2>2. CASE StartService
    BY <1>1, <2>1, <2>2 DEF StartService, CmdInv, Belongs, At, Secured, Op
  <2>3. CASE ~StartService
    <3>1. cmd'.pc # "sql" /\ (cmd'.pc \in {"verify", "save"} => cmd.pc \in {"verify", "save"} /\ acct' = acct)
      <4>1. CASE InstallPackage
        BY <1>1, <1>5, <4>1, RootMoves DEF InstallPackage, At
      <4>2. CASE ~InstallPackage
        <5>1. acct' = acct
          BY <1>1, <1>5, <4>2, RootMoves
        <5>2. cmd'.pc # "sql" /\ (cmd'.pc \in {"verify", "save"} => VerifyRootLogin)
          BY <1>1, <1>5, <2>3, <4>2, RootMoves
        <5> QED BY <5>1, <5>2 DEF VerifyRootLogin, At
      <4> QED BY <4>1, <4>2
    <3> QED BY <2>1, <3>1 DEF Secured, At, Op
  <2> QED BY <2>2, <2>3
<1>6. CASE RemoteStep
  BY <1>1, <1>6, RemoteMoves DEF Secured, At
<1>7. CASE ComesUp
  BY <1>7 DEF ComesUp, NoServer, data, Secured, At, Op, RootAlter, RootDrop, Pending
<1>8. CASE Kill
  BY <1>8, KillShape DEF Secured, At, Op
<1> QED
  BY <1>2, <1>3, <1>4, <1>5, <1>6, <1>7, <1>8, SecuredRun, Steps

\* After an install that reports success root has a password and no account for
\* other hosts.  (buildSecureInstallSQL)
THEOREM InstallIsSecure == Spec => InstallSecures
<1> DEFINE A == Ends("install") /\ cmd'.ok =>
                  acct'[Root]["localhost"] \in Passwords /\ acct'[Root]["%"] = None
<1>1. Init => Secured
  BY FirstCmd DEF Secured, Op
<1>2. TypeInv /\ Secured /\ [Next]_vars => Secured'
  BY SecuredStep DEF vars, Secured, At, Op, RootAlter, RootDrop, Pending
<1>3. ASSUME TypeInv, Secured, [Next]_vars PROVE A
  <2> SUFFICES ASSUME Ends("install"), cmd'.ok
               PROVE  acct'[Root]["localhost"] \in Passwords /\ acct'[Root]["%"] = None
    OBVIOUS
  <2>1. Next /\ ~Idle /\ cmd'.pc = "idle" /\ cmd'.op = "install"
    BY <1>3 DEF vars, Ends, Idle
  <2>2. Same /\ At("save") /\ UNCHANGED acct
    BY <1>3, <2>1, EndsWell DEF Same, SqlOps
  <2> QED BY <1>3, <2>1, <2>2 DEF Secured, Op, At, Same
<1> QED
  BY <1>1, <1>2, <1>3, TypeAlways, PTL DEF Spec, InstallSecures

\* Which of the commands made of statements has started.
LEMMA SqlStartIs ==
  ASSUME SqlStart
  PROVE  /\ cmd'.op = "userPassword" => UserPasswordCmd
         /\ cmd'.op = "revoke" => RevokeCmd
         /\ cmd'.op = "grant" => GrantCmd
         /\ cmd'.op = "userAdd" => UserAddCmd
         /\ cmd'.op = "userRemove" => UserRemoveCmd
         /\ cmd'.op \in SqlOps
<1>1. /\ DbAddCmd => cmd'.op = "dbAdd"
      /\ DbRemoveCmd => cmd'.op = "dbRemove"
  BY DbAddStarts, DbRemoveStarts
<1>2. ASSUME NEW op, NEW u, NEW h, NEW x, NEW todo, Sql(op, u, h, x, todo)
      PROVE  cmd'.op = op
  BY <1>2 DEF Sql, Begin, NoCmd
<1>3. /\ UserAddCmd => cmd'.op = "userAdd"
      /\ UserRemoveCmd => cmd'.op = "userRemove"
      /\ UserPasswordCmd => cmd'.op = "userPassword"
      /\ GrantCmd => cmd'.op = "grant"
      /\ RevokeCmd => cmd'.op = "revoke"
  BY <1>2 DEF UserAddCmd, UserAdd, UserRemoveCmd, UserRemove, UserPasswordCmd, UserPassword,
              GrantCmd, Grant, RevokeCmd, Revoke
<1> QED
  BY <1>1, <1>3 DEF SqlStart, SqlOps

\* The steps that leave a command with statements to send.
LEMMA SqlEnters ==
  ASSUME TypeInv, Next, cmd'.pc = "sql"
  PROVE  \/ SqlStart
         \/ Ran
         \/ ExecAsRootSocket /\ cmd'.op \in {"install", "reset"} /\ UNCHANGED <<data, apart>>
         \/ ComesUp /\ UNCHANGED <<cmd, data, apart>>
<1>1. CmdInv /\ ConfType
  BY DEF TypeInv, DataTyped
<1>2. CASE OtherStart
  BY <1>1, <1>2, OtherStarts DEF OtherBegins, ConfType
<1>3. CASE \/ StatementFails
           \/ Refused
  BY <1>1, <1>3, SqlStops
<1>4. CASE ExecAsRootSocket
  BY <1>1, <1>4, ExecShape DEF Same
<1>5. CASE RootStep /\ ~ExecAsRootSocket
  <2>1. CASE InstallPackage
    BY <1>1, <1>5, <2>1, RootMoves DEF InstallPackage, At
  <2>2. CASE ~InstallPackage
    BY <1>1, <1>5, <2>2, RootMoves
  <2> QED BY <2>1, <2>2
<1>6. CASE RemoteStep
  BY <1>1, <1>6, RemoteMoves
<1>7. CASE ComesUp
  BY <1>7 DEF ComesUp, NoServer
<1>8. CASE Kill
  BY <1>8, KillShape
<1> QED
  BY <1>2, <1>3, <1>4, <1>5, <1>6, <1>7, <1>8, Steps DEF Ran, Refused

\* Each account that a password change covers is still on the list, or has it.
Changed ==
  At("sql") /\ Op("userPassword") =>
    \A h \in Hosts : Covered(cmd.host, h) =>
      Pending("alter", cmd.user, h, cmd.pw) \/ acct[cmd.user][h] \in {None, cmd.pw}

LEMMA ChangedRun ==
  ASSUME TypeInv, Ran, Changed, Op("userPassword")
  PROVE  \A h \in Hosts : Covered(cmd.host, h) =>
           Stmt("alter", cmd.user, h, cmd.pw) \in Elems(cmd'.todo)
           \/ acct'[cmd.user][h] \in {None, cmd.pw}
<1>1. PICK s \in Elems(cmd.todo) :
        /\ s \in Statement /\ Fits(s)
        /\ \A t \in Elems(cmd.todo) : t = s \/ t \in Elems(cmd'.todo)
        /\ \A u \in Accounts, h \in Hosts :
             u # s.user \/ h # s.host => acct'[u][h] = acct[u][h]
        /\ acct'[s.user][s.host] = After(s, acct[s.user][s.host])
  BY RunEffect
<1>2. s.user = cmd.user /\ s.kind = "alter" /\ s.arg = cmd.pw
  BY <1>1 DEF Fits, Op
<1>3. At("sql") /\ cmd.user \in Accounts
  BY DEF Ran, RunStatement, TypeInv, CmdInv, CmdSet
<1>4. ASSUME NEW h \in Hosts, Covered(cmd.host, h)
      PROVE  Stmt("alter", cmd.user, h, cmd.pw) \in Elems(cmd'.todo)
             \/ acct'[cmd.user][h] \in {None, cmd.pw}
  <2>1. CASE h = s.host
    BY <1>1, <1>2, <2>1 DEF After
  <2>2. CASE h # s.host
    <3>1. acct'[cmd.user][h] = acct[cmd.user][h] /\ s # Stmt("alter", cmd.user, h, cmd.pw)
      BY <1>1, <1>3, <1>4, <2>2 DEF Stmt
    <3> QED BY <1>1, <1>3, <1>4, <3>1 DEF Changed, Pending
  <2> QED BY <2>1, <2>2
<1> QED
  BY <1>4

LEMMA ChangedStep ==
  ASSUME TypeInv, Next, Changed
  PROVE  Changed'
<1> SUFFICES ASSUME cmd'.pc = "sql", cmd'.op = "userPassword" PROVE Changed'
  BY DEF Changed, At, Op
<1>1. CmdInv
  BY DEF TypeInv
<1>2. CASE SqlStart
  <2>1. UserPasswordCmd
    BY <1>2, SqlStartIs
  <2>2. PICK u \in Targets, h \in HostFlags, p \in Passwords : UserPassword(u, h, p)
    BY <2>1 DEF UserPasswordCmd
  <2>3. u \in Accounts /\ h \in HostArgs
    BY <2>2, Flags, MysqlAssumption DEF Accounts
  <2>4. Started /\ \A y \in Hosts :
              acct[cmd'.user][y] # None /\ Covered(cmd'.host, y)
              => Stmt("alter", cmd'.user, y, cmd'.pw) \in Elems(cmd'.todo)
    BY <2>2, <2>3, UserPasswordStarts
  <2> QED BY <2>4 DEF Changed, Pending, Started
<1>3. CASE Ran
  <2>1. Same
    BY <1>3, RunEffect
  <2> QED BY <1>3, <2>1, ChangedRun DEF Changed, Pending, Same, Op
<1>4. CASE UNCHANGED <<cmd, data>>
  BY <1>4 DEF Changed, Pending, data, At, Op
<1> QED
  BY <1>2, <1>3, <1>4, SqlEnters

\* A password change that reports success left no account it covers, and that
\* still exists, with another password.  (UserPassword, resolveAccountHosts)
THEOREM PasswordsChange == Spec => PasswordChanged
<1> DEFINE A == Ends("userPassword") /\ cmd'.ok =>
       \A h \in Hosts :
         /\ acct'[cmd.user][h] # None
         /\ cmd.host \in {"", h} \/ (cmd.host = "localhost" /\ h # "%")
         => acct'[cmd.user][h] = cmd.pw
<1>1. Init => Changed
  BY FirstCmd DEF Changed, At
<1>2. TypeInv /\ Changed /\ [Next]_vars => Changed'
  BY ChangedStep DEF vars, Changed, Pending, At, Op
<1>3. ASSUME TypeInv, Changed, [Next]_vars PROVE A
  <2> SUFFICES ASSUME Ends("userPassword"), cmd'.ok, NEW h \in Hosts,
                      acct'[cmd.user][h] # None, Covered(cmd.host, h)
               PROVE  acct'[cmd.user][h] = cmd.pw
    BY DEF Covered
  <2>1. Next /\ ~Idle /\ cmd'.pc = "idle" /\ cmd'.op = "userPassword" /\ cmd \in CmdSet
    BY <1>3 DEF vars, Ends, Idle, TypeInv, CmdInv
  <2>2. Same /\ RunStatement
    BY <1>3, <2>1, EndsWell DEF Same, SqlOps
  <2>3. Ran
    BY <1>3, <2>1, <2>2, SqlStops DEF Ran, Refused, TypeInv
  <2>4. Elems(cmd'.todo) = {} /\ Op("userPassword")
    BY <1>3, <2>1, <2>2, <2>3, RunLast DEF Same, Op
  <2> QED BY <1>3, <2>2, <2>3, <2>4, ChangedRun
<1> QED
  BY <1>1, <1>2, <1>3, TypeAlways, PTL DEF Spec, PasswordChanged

\* What a revoke without --host still has to take away, or has taken away.
Revoked ==
  At("sql") /\ Op("revoke") /\ cmd.host = "" =>
    \A y \in Local : Pending("revoke", cmd.user, y, cmd.db) \/ ~Granted(cmd.user, y, cmd.db)

LEMMA RevokeGrantsNone ==
  ASSUME NEW s, Fits(s), Op("revoke")
  PROVE  s.kind # "grant"
BY DEF Fits, FlushStmt, Stmt, Op

LEMMA RevokedRun ==
  ASSUME TypeInv, Ran, Revoked, Op("revoke"), cmd.host = ""
  PROVE  \A y \in Local : Stmt("revoke", cmd.user, y, cmd.db) \in Elems(cmd'.todo)
                          \/ [user |-> cmd.user, host |-> y, db |-> cmd.db] \notin grants'
<1>1. PICK s \in Elems(cmd.todo) :
        /\ s \in Statement /\ Fits(s)
        /\ \A t \in Elems(cmd.todo) : t = s \/ t \in Elems(cmd'.todo)
        /\ \A g : g \in grants' <=>
             \/ g \in grants /\ ~(s.kind = "drop" /\ g.user = s.user /\ g.host = s.host)
                /\ ~(s.kind = "revoke" /\ g = [user |-> s.user, host |-> s.host, db |-> s.arg])
             \/ s.kind = "grant" /\ g = [user |-> s.user, host |-> s.host, db |-> s.arg]
  BY RunEffect
<1>2. s.kind # "grant"
  BY <1>1, RevokeGrantsNone
<1>3. At("sql")
  BY DEF Ran, RunStatement
<1>4. \A y : /\ Stmt("revoke", cmd.user, y, cmd.db).kind = "revoke"
            /\ Stmt("revoke", cmd.user, y, cmd.db).user = cmd.user
            /\ Stmt("revoke", cmd.user, y, cmd.db).host = y
            /\ Stmt("revoke", cmd.user, y, cmd.db).arg = cmd.db
  BY DEF Stmt
<1>5. ASSUME NEW y \in Local
      PROVE  Stmt("revoke", cmd.user, y, cmd.db) \in Elems(cmd'.todo)
             \/ [user |-> cmd.user, host |-> y, db |-> cmd.db] \notin grants'
  <2> DEFINE g == [user |-> cmd.user, host |-> y, db |-> cmd.db]
             t == Stmt("revoke", cmd.user, y, cmd.db)
  <2>1. t \in Elems(cmd.todo) \/ g \notin grants
    BY <1>3, <1>5 DEF Revoked, Pending, Granted
  <2>2. g \in grants' => g \in grants
    BY <1>1, <1>2
  <2>3. ~(s.kind = "revoke" /\ g = [user |-> s.user, host |-> s.host, db |-> s.arg])
        \/ g \notin grants'
    BY <1>1, <1>2
  <2>5. s = t => s.kind = "revoke" /\ g = [user |-> s.user, host |-> s.host, db |-> s.arg]
    BY <1>4
  <2> HIDE DEF g, t
  <2>4. t \in Elems(cmd'.todo) \/ g \notin grants'
    BY <1>1, <2>1, <2>2, <2>3, <2>5
  <2> QED BY <2>4 DEF g, t
<1> QED
  BY <1>5

LEMMA RevokedStep ==
  ASSUME TypeInv, Next, Revoked
  PROVE  Revoked'
<1> SUFFICES ASSUME cmd'.pc = "sql", cmd'.op = "revoke" PROVE Revoked'
  BY DEF Revoked, At, Op
<1>2. CASE SqlStart
  <2>1. RevokeCmd
    BY <1>2, SqlStartIs
  <2>2. PICK u \in Users, h \in HostFlags, d \in Databases : Revoke(u, h, d)
    BY <2>1 DEF RevokeCmd
  <2>3. h \in HostArgs
    BY <2>2, Flags
  <2>4. cmd'.host = "" => \A y \in Local : Stmt("revoke", cmd'.user, y, cmd'.db) \in Elems(cmd'.todo)
    BY <2>2, <2>3, RevokeStarts
  <2> QED BY <2>4 DEF Revoked, Pending
<1>3. CASE Ran
  <2>1. Same
    BY <1>3, RunEffect
  <2>2. cmd'.host = "" => \A y \in Local :
          Stmt("revoke", cmd.user, y, cmd.db) \in Elems(cmd'.todo)
          \/ [user |-> cmd.user, host |-> y, db |-> cmd.db] \notin grants'
    BY <1>3, <2>1, RevokedRun DEF Same, Op
  <2> QED BY <2>1, <2>2 DEF Revoked, Pending, Granted, Same
<1>4. CASE UNCHANGED <<cmd, data>>
  BY <1>4 DEF Revoked, Pending, Granted, data, At, Op
<1> QED
  BY <1>2, <1>3, <1>4, SqlEnters

\* A revoke without --host that reports success leaves neither local account with
\* the database.  (Revoke, grantTargetHosts)
THEOREM RevokesLocally == Spec => RevokedLocally
<1> DEFINE A == Ends("revoke") /\ cmd'.ok /\ cmd.host = "" =>
       \A g \in grants' : g.user = cmd.user /\ g.db = cmd.db => g.host = "%"
<1>1. Init => Revoked
  BY FirstCmd DEF Revoked, At
<1>2. TypeInv /\ Revoked /\ [Next]_vars => Revoked'
  BY RevokedStep DEF vars, Revoked, Pending, Granted, At, Op
<1>3. ASSUME TypeInv, Revoked, [Next]_vars PROVE A
  <2> SUFFICES ASSUME Ends("revoke"), cmd'.ok, cmd.host = "",
                      NEW g \in grants', g.user = cmd.user, g.db = cmd.db
               PROVE  g.host = "%"
    OBVIOUS
  <2>1. Next /\ ~Idle /\ cmd'.pc = "idle" /\ cmd'.op = "revoke" /\ cmd \in CmdSet
    BY <1>3 DEF vars, Ends, Idle, TypeInv, CmdInv
  <2>2. Same /\ RunStatement
    BY <1>3, <2>1, EndsWell DEF Same, SqlOps
  <2>3. Ran
    BY <1>3, <2>1, <2>2, SqlStops DEF Ran, Refused, TypeInv
  <2>4. Elems(cmd'.todo) = {} /\ Op("revoke")
    BY <1>3, <2>1, <2>2, <2>3, RunLast DEF Same, Op
  <2>5. \A y \in Local : [user |-> cmd.user, host |-> y, db |-> cmd.db] \notin grants'
    BY <1>3, <2>2, <2>3, <2>4, RevokedRun
  <2>6. g \in GrantSet
    <3>1. TypeInv'
      BY <1>3, <2>1, TypeStep
    <3> QED BY <3>1 DEF TypeInv, DataTyped
  <2>7. g = [user |-> cmd.user, host |-> g.host, db |-> cmd.db] /\ g.host \in Hosts
    BY <2>6 DEF GrantSet
  <2>8. g.host \notin Local
    BY <2>5, <2>7
  <2> QED BY <2>7, <2>8 DEF Hosts, Local
<1> QED
  BY <1>1, <1>2, <1>3, TypeAlways, PTL DEF Spec, RevokedLocally

-----------------------------------------------------------------------------
(***************************************************************************)
(* The two local accounts of a user.                                       *)
(*                                                                         *)
(* Half way through a command they differ.  What they will have once the   *)
(* statements left are done is the same at every step.                     *)
(***************************************************************************)
WillAcct(u, y) ==
  IF Pending("drop", u, y, None) THEN None
  ELSE IF Pending("alter", u, y, cmd.pw) THEN cmd.pw
  ELSE IF acct[u][y] = None /\ Pending("create", u, y, cmd.pw) THEN cmd.pw
  ELSE acct[u][y]
WillGrant(u, y, d) ==
  /\ ~Pending("drop", u, y, None) /\ ~Pending("revoke", u, y, d)
  /\ Pending("grant", u, y, d) \/ Granted(u, y, d)
WillAgree(u) ==
  /\ WillAcct(u, "localhost") = WillAcct(u, "127.0.0.1")
  /\ \A d \in Databases : WillGrant(u, "localhost", d) <=> WillGrant(u, "127.0.0.1", d)
  /\ \A s \in Elems(cmd.todo) : s.kind # "clone"
Agree(u) ==
  /\ acct[u]["localhost"] = acct[u]["127.0.0.1"]
  /\ \A d \in Databases : Granted(u, "localhost", d) <=> Granted(u, "127.0.0.1", d)
PairInv ==
  \A u \in Users \ apart : IF At("sql") /\ cmd.user = u THEN WillAgree(u) ELSE Agree(u)

LEMMA PairInvAgrees == PairInv => PairAgrees
BY DEF PairInv, PairAgrees, Agree, Granted, Idle, At

\* A statement that runs does not change what there will be on a local host.
LEMMA WillStays ==
  ASSUME TypeInv, Ran, cmd.user \in Users,
         \A s \in Elems(cmd.todo) : s.kind # "clone",
         NEW y \in Local
  PROVE  /\ WillAcct(cmd.user, y)' = WillAcct(cmd.user, y)
         /\ \A d \in Databases : WillGrant(cmd.user, y, d)' <=> WillGrant(cmd.user, y, d)
<1> DEFINE u == cmd.user
<1>1. PICK s \in Elems(cmd.todo) :
        /\ s \in Statement /\ Fits(s)
        /\ \A t \in Elems(cmd.todo) : t = s \/ t \in Elems(cmd'.todo)
        /\ Elems(cmd'.todo) \subseteq Elems(cmd.todo)
        /\ \A v \in Accounts, h \in Hosts :
             v # s.user \/ h # s.host => acct'[v][h] = acct[v][h]
        /\ acct'[s.user][s.host] = After(s, acct[s.user][s.host])
        /\ \A g : g \in grants' <=>
             \/ g \in grants /\ ~(s.kind = "drop" /\ g.user = s.user /\ g.host = s.host)
                /\ ~(s.kind = "revoke" /\ g = [user |-> s.user, host |-> s.host, db |-> s.arg])
             \/ s.kind = "grant" /\ g = [user |-> s.user, host |-> s.host, db |-> s.arg]
  BY RunEffect
<1>2. Same /\ s.kind # "clone" /\ u \in Accounts /\ y \in Hosts /\ u # Root
  BY <1>1, RunEffect, MysqlAssumption DEF Accounts, Local, Hosts
<1> DEFINE P(k, x) == Stmt(k, u, y, x) \in Elems(cmd.todo)
           Q(k, x) == Stmt(k, u, y, x) \in Elems(cmd'.todo)
           G(d) == [user |-> u, host |-> y, db |-> d]
<1>3. \A k, x : /\ Stmt(k, u, y, x).kind = k /\ Stmt(k, u, y, x).user = u
               /\ Stmt(k, u, y, x).host = y /\ Stmt(k, u, y, x).arg = x
  BY DEF Stmt
<1>4. \A k, x : P(k, x) => Fits(Stmt(k, u, y, x))
  BY DEF TypeInv, CmdInv
<1>5. /\ \A x : P("create", x) => Op("userAdd") /\ x = cmd.pw
      /\ \A x : P("alter", x) => Op("userPassword") /\ x = cmd.pw
      /\ \A x : P("drop", x) => Op("userRemove") /\ x = None
      /\ \A x : P("grant", x) => Op("userAdd") \/ Op("grant")
      /\ \A x : P("revoke", x) => Op("revoke")
  <2>1. \A k, x : P(k, x) /\ k \in {"create", "alter", "drop", "grant", "revoke"} =>
          Stmt(k, u, y, x) # FlushStmt
    BY <1>3 DEF FlushStmt, Stmt
  <2> HIDE DEF P
  <2>2. ASSUME NEW k, NEW x, P(k, x), k \in {"create", "alter", "drop", "grant", "revoke"}
        PROVE  /\ k = "create" => Op("userAdd") /\ x = cmd.pw
               /\ k = "alter" => Op("userPassword") /\ x = cmd.pw
               /\ k = "drop" => Op("userRemove") /\ x = None
               /\ k = "grant" => Op("userAdd") \/ Op("grant")
               /\ k = "revoke" => Op("revoke")
    <3> DEFINE t == Stmt(k, u, y, x)
    <3>1. t.kind = k /\ t.user = u /\ t.arg = x /\ Fits(t) /\ t # FlushStmt
      BY <1>3, <1>4, <2>1, <2>2
    <3> HIDE DEF t
    <3> QED BY <3>1, <2>2, <1>2 DEF Fits, Op
  <2> QED BY <2>2
<1>6. /\ \A k, x : Q(k, x) => P(k, x)
      /\ \A k, x : P(k, x) => Q(k, x) \/ s = Stmt(k, u, y, x)
  BY <1>1
<1>7. /\ s.user # u \/ s.host # y => acct'[u][y] = acct[u][y]
      /\ s.user = u /\ s.host = y => acct'[u][y] = After(s, acct[u][y])
  BY <1>1, <1>2
<1>8. \A d : G(d) \in grants' <=>
        \/ G(d) \in grants /\ ~(s.kind = "drop" /\ u = s.user /\ y = s.host)
           /\ ~(s.kind = "revoke" /\ u = s.user /\ y = s.host /\ d = s.arg)
        \/ s.kind = "grant" /\ u = s.user /\ y = s.host /\ d = s.arg
  BY <1>1
<1>9. s.user = u /\ s.host = y => P(s.kind, s.arg)
  <2>1. s.user = u /\ s.host = y => s = Stmt(s.kind, u, y, s.arg)
    BY <1>1 DEF Statement, Stmt
  <2> QED BY <1>1, <2>1
<1>10. \A k, x : s = Stmt(k, u, y, x) => s.user = u /\ s.host = y /\ s.kind = k /\ s.arg = x
  BY <1>3
<1> HIDE DEF P, Q, G
<1> DEFINE wa == IF P("drop", None) THEN None ELSE IF P("alter", cmd.pw) THEN cmd.pw
                 ELSE IF acct[u][y] = None /\ P("create", cmd.pw) THEN cmd.pw ELSE acct[u][y]
           wb == IF Q("drop", None) THEN None ELSE IF Q("alter", cmd.pw) THEN cmd.pw
                 ELSE IF acct'[u][y] = None /\ Q("create", cmd.pw) THEN cmd.pw ELSE acct'[u][y]
<1>11. wa = wb
  <2>1. CASE s.user # u \/ s.host # y
    BY <2>1, <1>6, <1>7, <1>10
  <2>2. CASE s.user = u /\ s.host = y /\ s.kind = "create"
    BY <2>2, <1>5, <1>6, <1>7, <1>9, <1>10 DEF After, Op
  <2>3. CASE s.user = u /\ s.host = y /\ s.kind = "alter"
    BY <2>3, <1>5, <1>6, <1>7, <1>9, <1>10 DEF After, Op
  <2>4. CASE s.user = u /\ s.host = y /\ s.kind = "drop"
    BY <2>4, <1>5, <1>6, <1>7, <1>9, <1>10 DEF After, Op
  <2>5. CASE s.user = u /\ s.host = y /\ s.kind \notin {"create", "alter", "drop"}
    <3>1. acct'[u][y] = acct[u][y]
      BY <2>5, <1>2, <1>7 DEF After
    <3> QED BY <2>5, <3>1, <1>6, <1>10
  <2> QED BY <2>1, <2>2, <2>3, <2>4, <2>5
<1>12. ASSUME NEW d \in Databases
       PROVE  (~P("drop", None) /\ ~P("revoke", d) /\ (P("grant", d) \/ G(d) \in grants))
              <=> (~Q("drop", None) /\ ~Q("revoke", d) /\ (Q("grant", d) \/ G(d) \in grants'))
  <2>1. CASE s.user # u \/ s.host # y
    BY <2>1, <1>6, <1>8, <1>10
  <2>2. CASE s.user = u /\ s.host = y /\ s.kind = "grant"
    BY <2>2, <1>5, <1>6, <1>8, <1>9, <1>10 DEF Op
  <2>3. CASE s.user = u /\ s.host = y /\ s.kind = "revoke"
    BY <2>3, <1>5, <1>6, <1>8, <1>9, <1>10 DEF Op
  <2>4. CASE s.user = u /\ s.host = y /\ s.kind = "drop"
    BY <2>4, <1>5, <1>6, <1>8, <1>9, <1>10 DEF Op
  <2>5. CASE s.user = u /\ s.host = y /\ s.kind \notin {"grant", "revoke", "drop"}
    BY <2>5, <1>6, <1>8, <1>10
  <2> QED BY <2>1, <2>2, <2>3, <2>4, <2>5
<1>13. WillAcct(cmd.user, y)' = WillAcct(cmd.user, y)
  BY <1>2, <1>11 DEF WillAcct, Pending, P, Q, Same
<1>14. \A d \in Databases : WillGrant(cmd.user, y, d)' <=> WillGrant(cmd.user, y, d)
  BY <1>2, <1>12 DEF WillGrant, Pending, Granted, P, Q, G, Same
<1> QED
  BY <1>13, <1>14

\* A user whom the command is not about keeps accounts and grants.
LEMMA OtherUserStays ==
  ASSUME TypeInv, Ran, NEW u \in Users, u # cmd.user, Agree(u)
  PROVE  Agree(u)'
<1>1. PICK s \in Elems(cmd.todo) :
        /\ s \in Statement /\ Fits(s)
        /\ \A v \in Accounts, h \in Hosts :
             v # s.user \/ h # s.host => acct'[v][h] = acct[v][h]
        /\ acct'[s.user][s.host] = After(s, acct[s.user][s.host])
        /\ \A g : g \in grants' <=>
             \/ g \in grants /\ ~(s.kind = "drop" /\ g.user = s.user /\ g.host = s.host)
                /\ ~(s.kind = "revoke" /\ g = [user |-> s.user, host |-> s.host, db |-> s.arg])
             \/ s.kind = "grant" /\ g = [user |-> s.user, host |-> s.host, db |-> s.arg]
  BY RunEffect
<1>2. u \in Accounts /\ u # Root /\ "localhost" \in Hosts /\ "127.0.0.1" \in Hosts
  BY MysqlAssumption DEF Accounts, Hosts
<1>f. Fits(s)
  BY <1>1
<1>3. s.user = u => s.kind \in {"createDb", "createDbIf", "dropDb"}
  BY <1>f, <1>2 DEF Fits, FlushStmt, Stmt
<1>4. \A h \in Hosts : acct'[u][h] = acct[u][h]
  BY <1>1, <1>2, <1>3 DEF After
<1>5. ASSUME NEW h, NEW d
      PROVE  [user |-> u, host |-> h, db |-> d] \in grants' <=> [user |-> u, host |-> h, db |-> d] \in grants
  <2> DEFINE g == [user |-> u, host |-> h, db |-> d]
  <2>1. g.user = u
    OBVIOUS
  <2>2. g = [user |-> s.user, host |-> s.host, db |-> s.arg] => s.user = u
    OBVIOUS
  <2> HIDE DEF g
  <2>3. g \in grants' <=> g \in grants
    BY <1>1, <1>3, <2>1, <2>2
  <2> QED BY <2>3 DEF g
<1> QED
  BY <1>2, <1>4, <1>5 DEF Agree, Granted

LEMMA PairRun ==
  ASSUME TypeInv, RunStatement, PairInv
  PROVE  PairInv'
<1>1. CmdInv /\ cmd \in CmdSet /\ At("sql")
  BY DEF TypeInv, CmdInv, RunStatement
<1>2. CASE Refused
  <2>1. /\ cmd'.pc # "sql" /\ cmd'.user = cmd.user
        /\ UNCHANGED data /\ apart' = apart \cup ({cmd.user} \ {Root})
    BY <1>1, <1>2, SqlStops DEF Same
  <2>2. \A u \in Users : u # Root
    BY MysqlAssumption
  <2>3. \A u \in Users \ apart' : u \in Users \ apart /\ u # cmd.user
    BY <2>1, <2>2
  <2>4. \A u \in Users \ apart' : Agree(u)
    BY <2>3 DEF PairInv
  <2>5. \A u : Agree(u) => Agree(u)'
    BY <2>1 DEF Agree, Granted, data
  <2> QED BY <2>1, <2>4, <2>5 DEF PairInv, At
<1>3. CASE Ran
  <2>1. Same /\ apart' = apart /\ (cmd'.pc = "sql" \/ Elems(cmd'.todo) = {})
    BY <1>3, RunEffect, RunLast
  <2>2. ASSUME NEW u \in Users \ apart, u # cmd.user PROVE Agree(u)'
    BY <1>1, <1>3, <2>2, OtherUserStays DEF PairInv
  <2>3. ASSUME cmd.user \in Users \ apart PROVE WillAgree(cmd.user)'
    <3>1. WillAgree(cmd.user)
      BY <1>1, <2>3 DEF PairInv
    <3>2. \A s \in Elems(cmd.todo) : s.kind # "clone"
      BY <3>1 DEF WillAgree
    <3>3. \A y \in Local : /\ WillAcct(cmd.user, y)' = WillAcct(cmd.user, y)
                           /\ \A d \in Databases : WillGrant(cmd.user, y, d)' <=> WillGrant(cmd.user, y, d)
      BY <1>3, <2>3, <3>2, WillStays
    <3>4. \A s \in Elems(cmd'.todo) : s.kind # "clone"
      BY <1>3, <3>2, RunEffect
    <3> QED BY <3>1, <3>3, <3>4 DEF WillAgree, Local
  <2>4. ASSUME cmd.user \in Users \ apart, cmd'.pc # "sql" PROVE Agree(cmd.user)'
    <3>1. \A k, u, h, x : ~Pending(k, u, h, x)'
      BY <2>1, <2>4 DEF Pending
    <3> QED BY <2>3, <2>4, <3>1 DEF WillAgree, WillAcct, WillGrant, Agree
  <2>5. ASSUME NEW u \in Users \ apart'
        PROVE  IF cmd'.pc = "sql" /\ cmd'.user = u THEN WillAgree(u)' ELSE Agree(u)'
    <3>1. cmd'.user = cmd.user /\ u \in Users \ apart
      BY <2>1, <2>5 DEF Same
    <3>2. CASE u = cmd.user
      BY <2>3, <2>4, <3>1, <3>2 DEF Same
    <3>3. CASE u # cmd.user
      BY <2>2, <3>1, <3>3
    <3> QED BY <3>2, <3>3
  <2> QED BY <2>5 DEF PairInv, At
<1> QED
  BY <1>2, <1>3 DEF Ran, Refused

\* A command names neither local host by itself, or its user is counted apart.
LEMMA StartsTwin ==
  ASSUME SqlStart, cmd'.user \in Users, cmd'.user \notin apart', Agree(cmd'.user)
  PROVE  Twin(cmd'.todo, cmd'.user) /\ \A s \in Elems(cmd'.todo) : s.kind # "clone"
<1>1. Even(cmd'.user) /\ cmd'.user # Root
  BY MysqlAssumption DEF Agree, Even
<1>2. Marked => ~Apart(cmd'.host, cmd'.op)
  BY <1>1 DEF Marked
<1>3. \A k, u, h, x : Stmt(k, u, h, x).kind = k
  BY DEF Stmt
<1>4. FlushStmt.kind = "flush"
  BY DEF FlushStmt, Stmt
<1>5. CASE DbAddCmd
  <2>1. \A s \in Elems(cmd'.todo) : s.kind \in {"createDb", "createDbIf"}
    BY <1>5, DbAddStarts
  <2>2. ASSUME NEW k \in {"create", "alter", "drop", "grant", "revoke"}, NEW h, NEW x
        PROVE  Stmt(k, cmd'.user, h, x) \notin Elems(cmd'.todo)
    BY <1>3, <2>1, <2>2
  <2> QED BY <2>1, <2>2 DEF Twin
<1>6. CASE DbRemoveCmd
  <2>1. \A s \in Elems(cmd'.todo) : s.kind = "dropDb"
    BY <1>6, DbRemoveStarts
  <2>2. ASSUME NEW k \in {"create", "alter", "drop", "grant", "revoke"}, NEW h, NEW x
        PROVE  Stmt(k, cmd'.user, h, x) \notin Elems(cmd'.todo)
    BY <1>3, <2>1, <2>2
  <2> QED BY <2>1, <2>2 DEF Twin
<1>7. CASE UserAddCmd
  <2>1. PICK u \in Users, h \in HostFlags \ {""}, p \in Passwords, d \in Databases \cup {None},
             preset \in {"app", "unknown"} : (d = None => preset = "app") /\ UserAdd(u, h, p, d, preset)
    BY <1>7 DEF UserAddCmd
  <2>2. h \in Hosts
    BY <2>1, Flags
  <2>3. /\ Marked /\ (~Apart(cmd'.host, cmd'.op) => Twin(cmd'.todo, cmd'.user))
        /\ \A s \in Elems(cmd'.todo) : s = FlushStmt \/ s.kind \in {"create", "grant", "reject"}
    BY <2>1, <2>2, UserAddStarts
  <2> QED BY <2>3, <1>2, <1>4
<1>8. CASE UserRemoveCmd
  <2>1. PICK u \in Users, h \in HostFlags \ {""} : UserRemove(u, h)
    BY <1>8 DEF UserRemoveCmd
  <2>2. h \in Hosts
    BY <2>1, Flags
  <2>3. /\ Marked /\ (~Apart(cmd'.host, cmd'.op) /\ Even(cmd'.user) => Twin(cmd'.todo, cmd'.user))
        /\ \A s \in Elems(cmd'.todo) : s.kind = "drop"
    BY <2>1, <2>2, UserRemoveStarts
  <2> QED BY <2>3, <1>1, <1>2
<1>9. CASE UserPasswordCmd
  <2>1. PICK u \in Targets, h \in HostFlags, p \in Passwords : UserPassword(u, h, p)
    BY <1>9 DEF UserPasswordCmd
  <2>2. u \in Accounts /\ h \in HostArgs
    BY <2>1, Flags, MysqlAssumption DEF Accounts
  <2>3. /\ Marked /\ (~Apart(cmd'.host, cmd'.op) /\ Even(cmd'.user) => Twin(cmd'.todo, cmd'.user))
        /\ \A s \in Elems(cmd'.todo) : s.kind = "alter"
    BY <2>1, <2>2, UserPasswordStarts
  <2> QED BY <2>3, <1>1, <1>2
<1>10. CASE GrantCmd
  <2>1. PICK u \in Users, h \in HostFlags, d \in Databases : Grant(u, h, d)
    BY <1>10 DEF GrantCmd
  <2>2. h \in HostArgs
    BY <2>1, Flags
  <2>3. /\ Marked /\ (~Apart(cmd'.host, cmd'.op) => Twin(cmd'.todo, cmd'.user))
        /\ \A s \in Elems(cmd'.todo) :
             s = FlushStmt \/ s.kind = "grant" \/ ~Even(cmd'.user)
    BY <2>1, <2>2, GrantStarts
  <2> QED BY <2>3, <1>1, <1>2, <1>4
<1>11. CASE RevokeCmd
  <2>1. PICK u \in Users, h \in HostFlags, d \in Databases : Revoke(u, h, d)
    BY <1>11 DEF RevokeCmd
  <2>2. h \in HostArgs
    BY <2>1, Flags
  <2>3. /\ Marked /\ (~Apart(cmd'.host, cmd'.op) => Twin(cmd'.todo, cmd'.user))
        /\ \A s \in Elems(cmd'.todo) :
             s = FlushStmt \/ s.kind = "revoke" \/ ~Even(cmd'.user)
    BY <2>1, <2>2, RevokeStarts
  <2> QED BY <2>3, <1>1, <1>2, <1>4
<1> QED
  BY <1>5, <1>6, <1>7, <1>8, <1>9, <1>10, <1>11 DEF SqlStart

LEMMA PairStart ==
  ASSUME SqlStart, PairInv
  PROVE  PairInv'
<1>1. Idle /\ UNCHANGED <<acct, grants>> /\ cmd'.pc = "sql" /\ apart \subseteq apart'
  BY SqlStarts DEF SqlBegins, Started, Marked
<1>2. \A u \in Users \ apart' : Agree(u)
  BY <1>1 DEF PairInv, Idle, At
<1>3. \A u : Agree(u) => Agree(u)'
  BY <1>1 DEF Agree, Granted
<1>4. ASSUME NEW u \in Users \ apart', u = cmd'.user PROVE WillAgree(u)'
  <2>1. Agree(u)' /\ Twin(cmd'.todo, u) /\ \A s \in Elems(cmd'.todo) : s.kind # "clone"
    BY <1>2, <1>3, <1>4, StartsTwin
  <2>2. \A k \in {"create", "alter", "drop", "grant", "revoke"} : \A x :
          Pending(k, u, "localhost", x)' <=> Pending(k, u, "127.0.0.1", x)'
    BY <2>1 DEF Twin, Pending
  <2> QED BY <2>1, <2>2 DEF WillAgree, WillAcct, WillGrant, Agree
<1> QED
  BY <1>1, <1>2, <1>3, <1>4 DEF PairInv, At

LEMMA PairStep ==
  ASSUME TypeInv, Next, PairInv
  PROVE  PairInv'
<1>1. CmdInv /\ ConfType
  BY DEF TypeInv, DataTyped
<1>2. \A u \in Users : u # Root
  BY MysqlAssumption
<1>3. \A u : UNCHANGED <<acct, grants>> => (Agree(u) <=> Agree(u)')
  BY DEF Agree, Granted
<1>4. ASSUME ~At("sql"), cmd'.pc # "sql", apart' = apart,
             \A u \in Users : \A h \in Hosts : acct'[u][h] = acct[u][h], UNCHANGED grants
      PROVE  PairInv'
  BY <1>4 DEF PairInv, Agree, Granted, At, Hosts
<1>5. CASE OtherStart
  <2>1. Idle /\ cmd'.pc # "sql" /\ UNCHANGED <<acct, grants, apart>>
    BY <1>1, <1>5, OtherStarts DEF OtherBegins, ConfType
  <2> QED BY <1>4, <2>1 DEF Idle, At
<1>6. CASE StatementFails
  <2>1. /\ At("sql") /\ cmd'.pc # "sql" /\ UNCHANGED <<acct, grants>>
        /\ apart' = apart \cup ({cmd.user} \ {Root})
    BY <1>1, <1>6, SqlStops DEF StatementFails, data
  <2>2. \A u \in Users \ apart' : u \in Users \ apart /\ u # cmd.user
    BY <1>2, <2>1
  <2> QED BY <1>3, <2>1, <2>2 DEF PairInv, At
<1>7. CASE ExecAsRootSocket
  <2>1. ~At("sql") /\ UNCHANGED <<acct, grants, apart>> /\ cmd'.user = cmd.user
    BY <1>1, <1>7, ExecShape DEF ExecAsRootSocket, At, data, Same
  <2>2. cmd.user = Root
    BY <1>1, <1>7, ExecShape DEF CmdInv, Args, Idle, ExecAsRootSocket, At
  <2> QED BY <1>2, <1>3, <2>1, <2>2 DEF PairInv, At
<1>8. CASE RootStep /\ ~ExecAsRootSocket
  <2>1. CASE InstallPackage
    <3>1. UNCHANGED <<grants, apart>> /\ cmd'.pc # "sql" /\ ~At("sql")
      BY <1>1, <1>8, <2>1, RootMoves DEF InstallPackage, At
    <3>2. acct' = acct \/ \E a : acct' = [acct EXCEPT ![Root] = a]
      BY <2>1 DEF InstallPackage
    <3>3. \A u \in Users : acct'[u] = acct[u]
      BY <1>2, <3>2 DEF TypeInv, DataTyped, AcctType, Accounts
    <3> QED BY <1>4, <3>1, <3>3
  <2>2. CASE ~InstallPackage
    <3>1. UNCHANGED <<acct, grants, apart>> /\ cmd'.pc # "sql" /\ ~At("sql")
      BY <1>1, <1>8, <2>2, RootMoves DEF At
    <3> QED BY <1>4, <3>1
  <2> QED BY <2>1, <2>2
<1>9. CASE RemoteStep
  <2>1. UNCHANGED <<acct, grants, apart>> /\ cmd'.pc # "sql" /\ ~At("sql")
    BY <1>1, <1>9, RemoteMoves DEF data, At
  <2> QED BY <1>4, <2>1
<1>10. CASE ComesUp
  BY <1>10 DEF ComesUp, NoServer, data, PairInv, WillAgree, WillAcct, WillGrant, Agree,
               Pending, Granted, At
<1>11. CASE Kill
  <2>1. /\ cmd'.pc # "sql" /\ UNCHANGED <<acct, grants>>
        /\ apart' = IF At("sql") THEN apart \cup ({cmd.user} \ {Root}) ELSE apart
    BY <1>11, KillShape DEF Kill, data
  <2>2. \A u \in Users \ apart' : u \in Users \ apart /\ (At("sql") => u # cmd.user)
    BY <1>2, <2>1
  <2> QED BY <1>3, <2>1, <2>2 DEF PairInv, At
<1> QED
  BY <1>5, <1>6, <1>7, <1>8, <1>9, <1>10, <1>11, PairStart, PairRun, Steps

\* A user's two local accounts, localhost and 127.0.0.1, have one password and the
\* same grants after any sequence of commands, as long as none named one of the
\* two or stopped half way.  (UserAdd, UserPassword, UserRemove, Grant and Revoke,
\* each of which loops over the hosts with one mysql client per host)
THEOREM LocalPairAgrees == Spec => []PairAgrees
<1>1. Init => PairInv
  <2>1. Init => /\ acct = [u \in Accounts |-> NoAccounts] /\ grants = {} /\ cmd.pc = "idle"
    BY FirstCmd DEF Init
  <2> QED BY <2>1 DEF PairInv, Agree, Granted, NoAccounts, Hosts, Accounts, At
<1>2. TypeInv /\ PairInv /\ [Next]_vars => PairInv'
  BY PairStep DEF vars, PairInv, WillAgree, WillAcct, WillGrant, Agree, Pending, Granted, At
<1> QED
  BY <1>1, <1>2, TypeAlways, PairInvAgrees, PTL DEF Spec
=============================================================================
