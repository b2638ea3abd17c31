--------------------------- MODULE ProgramsProofs ---------------------------
(***************************************************************************)
(* Proofs about Programs, for any number of processes, commands and        *)
(* versions and for every combination of faults: the paths of programs     *)
(* only ever change as Replacement says, self update goes forward, and a   *)
(* command that succeeds leaves files that agree.                          *)
(*                                                                         *)
(* None of this follows from the types.  What is renamed into place is     *)
(* right because of what the process checked before, so the inductive      *)
(* invariant Sound says, for each point of a command, what its download    *)
(* and its new file hold there.  Undisturbed says what the program's path  *)
(* and its record hold at each point of a command that is alone.           *)
(***************************************************************************)
EXTENDS Programs, TLAPS

PluginCmds == {"install", "update", "remove", "info"}
Cmds == PluginCmds \cup {"run", "self"}
Hows == {"registry", "manifest", "local", "allowBlocked", "plain", "compatible", "breaking", "asked"}
Statuses == {"active", "blocked"}

\* From here on the new file is the version that was asked for.
Checked  == {"unpack", "metadata", "replace", "create", "copy", "renameNew"}
Fetching == {"download", "verify"} \cup Checked
Written  == {"record", "meta", "unlink", "forget", "ask", "status"}
Asking   == {"plugin", "latest", "manifest", "local", "load"}
PCs == Fetching \cup Written \cup Asking \cup {"list", "resolve", "find"}

Job == [pc : PCs, cmd : Cmds, how : Hows, ver : Versions \cup {0}, current : Versions,
        seen : SUBSET Versions, status : Statuses, alone : BOOLEAN]

Forward(j) ==
  j.ver > j.current /\ (j.how = "compatible" => Major(j.ver) = Major(j.current))

OfPlugin(j) == j.cmd \in PluginCmds /\ j.how \in DOMAIN Sources

\* What process p, its download t and its new file n are like at each point.
Sound(j, t, n) ==
  /\ j.pc \in Fetching \cup Written => j.ver \in Versions
  /\ j.pc \in Fetching => OfPlugin(j) \/ (j.cmd = "self" /\ Forward(j))
  /\ j.pc \in Written \cup Asking => OfPlugin(j)
  /\ j.pc = "load" => j.cmd \in {"update", "remove", "info"}
  /\ j.pc \in {"list", "resolve"} => j.cmd = "self"
  /\ j.pc \in Checked => t = j.ver
  /\ j.pc = "renameNew" => n = j.ver

\* The types of files and network; abstrax itself is always there.
Data ==
  /\ dest \in [Targets -> Complete \cup {Nothing}] /\ dest[Self] \in Versions
  /\ near \in [Procs -> Versions \cup {Nothing, Partial}]
  /\ tmp \in [Procs -> Versions \cup {Nothing, Junk}]
  /\ record \in {Nothing, Torn} \cup [ver : Versions, how : DOMAIN Sources, status : Statuses]
  /\ meta \in Versions \cup {Nothing, Torn}
  /\ releases \subseteq Versions /\ ran \in 0..MaxCommands
  /\ registry \in [ver : Versions, status : Statuses]
  /\ cache \in [plugin : {Nothing} \cup [body : Statuses, fresh : BOOLEAN],
                latest : {Nothing} \cup [body : Versions, fresh : BOOLEAN]]

IInv ==
  /\ Data
  /\ job \in [Procs -> Job \cup {Idle}]
  /\ \A p \in Procs : Sound(job[p], tmp[p], near[p])

-----------------------------------------------------------------------------
(* Lemmas. *)

\* Newest is one of the versions it is given.  (publishedVersions)
LEMMA NewestIn ==
  ASSUME NEW vs \in SUBSET Versions, vs # {}
  PROVE  Newest(vs) \in vs
  BY ProgramsAssumption DEF Newest

\* What self update settles on is a published version that goes forward.
\* (resolveVersion)
LEMMA ResolvesForward ==
  ASSUME NEW current \in Versions, NEW how, NEW asked, NEW published \in SUBSET Versions,
         how = "asked" => asked \in published,
         ResolveVersion(current, how, asked, published) # {}
  PROVE  LET v == Newest(ResolveVersion(current, how, asked, published)) IN
         /\ v \in Versions /\ v > current
         /\ how = "compatible" => Major(v) = Major(current)
<1> DEFINE R == ResolveVersion(current, how, asked, published)
<1>1. LatestNewer(current, published) \in SUBSET Versions
      /\ LatestCompatible(current, published) \in SUBSET Versions
  BY DEF LatestNewer, LatestCompatible
<1>2. CASE how = "asked"
  <2>1. R \subseteq Versions /\ \A v \in R : v > current
    BY <1>2 DEF ResolveVersion, LatestNewer
  <2> QED BY <2>1, <1>2, NewestIn
<1>3. CASE how # "asked"
  <2> DEFINE vs == IF how = "breaking" THEN LatestNewer(current, published)
                   ELSE LatestCompatible(current, published)
  <2>1. vs # {} /\ R = {Newest(vs)}
    BY <1>3 DEF ResolveVersion
  <2>2. vs \in SUBSET Versions
    BY <1>1
  <2>3. Newest(vs) \in vs
    BY <2>1, <2>2, NewestIn
  <2>4. R \in SUBSET Versions /\ Newest(R) \in R
    BY <2>1, <2>2, <2>3, NewestIn
  <2>5. Newest(R) = Newest(vs)
    BY <2>1, <2>4
  <2>6. how = "breaking" => Newest(vs) \in LatestNewer(current, published)
    BY <2>3
  <2>7. how # "breaking" => Newest(vs) \in LatestCompatible(current, published)
    BY <2>3
  <2> QED BY <2>2, <2>3, <2>5, <2>6, <2>7 DEF LatestNewer, LatestCompatible
<1> QED BY <1>2, <1>3

\* An answer of the registry is of the type of what is kept of it.  (fetch)
LEMMA AnswerTypes ==
  ASSUME NEW B, NEW kept \in {Nothing} \cup [body : B, fresh : BOOLEAN],
         NEW live \in B, NEW a \in Answers(kept, live)
  PROVE  a.kept \in {Nothing} \cup [body : B, fresh : BOOLEAN] /\ a.body \in B \cup {Nothing}
<1>1. [body |-> live, fresh |-> TRUE] \in [body : B, fresh : BOOLEAN]
  OBVIOUS
<1>2. kept # Nothing => kept.body \in B
  OBVIOUS
<1>3. CASE a = [body |-> kept.body, kept |-> kept] /\ kept # Nothing
  BY <1>2, <1>3
<1>4. CASE \E k \in {[body |-> live, fresh |-> TRUE], kept, Nothing} :
             a = [body |-> live, kept |-> k]
  <2>1. PICK k \in {Nothing} \cup [body : B, fresh : BOOLEAN] : a = [body |-> live, kept |-> k]
    BY <1>1, <1>4, Zenon
  <2> QED BY <2>1
<1>5. CASE a = [body |-> IF kept = Nothing THEN Nothing ELSE kept.body, kept |-> kept]
  BY <1>2, <1>5
<1>6. \/ a = [body |-> kept.body, kept |-> kept] /\ kept # Nothing
      \/ a = [body |-> IF kept = Nothing THEN Nothing ELSE kept.body, kept |-> kept]
      \/ \E k \in {[body |-> live, fresh |-> TRUE], kept, Nothing} : a = [body |-> live, kept |-> k]
  <2>1. CASE kept # Nothing /\ kept.fresh
    BY <2>1 DEF Answers
  <2>2. CASE ~(kept # Nothing /\ kept.fresh)
    <3> DEFINE new == [body |-> live, fresh |-> TRUE]
               ks == {new} \cup (IF Fails("record") THEN {kept, Nothing} ELSE {})
               old == [body |-> IF kept = Nothing THEN Nothing ELSE kept.body, kept |-> kept]
    <3>1. a \in {[body |-> live, kept |-> k] : k \in ks} \cup (IF Fails("registry") THEN {old} ELSE {})
      BY <2>2, ZenonT(30) DEF Answers
    <3>2. ks \subseteq {new, kept, Nothing}
      OBVIOUS
    <3> HIDE DEF new, ks, old
    <3>3. a = old \/ \E k \in {new, kept, Nothing} : a = [body |-> live, kept |-> k]
      BY <3>1, <3>2
    <3> QED BY <3>3 DEF new, old
  <2> QED BY <2>1, <2>2
<1> QED BY <1>3, <1>4, <1>5, <1>6

\* A process that is at some point of a command does one.
LEMMA Busy ==
  ASSUME IInv, NEW p \in Procs, job[p].pc # "idle"
  PROVE  job[p] \in Job
  BY DEF IInv, Idle

\* The steps of one process leave what is true of the others alone.
LEMMA OneMoves ==
  ASSUME IInv, Data', NEW p \in Procs, NEW j \in Job \cup {Idle},
         job' = [job EXCEPT ![p] = j], Sound(j, tmp'[p], near'[p]),
         \A q \in Procs \ {p} : tmp'[q] = tmp[q] /\ near'[q] = near[q]
  PROVE  IInv'
<1>1. job' \in [Procs -> Job \cup {Idle}]
  BY DEF IInv
<1>2. ASSUME NEW q \in Procs PROVE Sound(job'[q], tmp'[q], near'[q])
  <2>1. CASE q = p
    BY <2>1 DEF IInv
  <2>2. CASE q # p
    BY <2>2 DEF IInv
  <2> QED BY <2>1, <2>2
<1> QED BY <1>1, <1>2 DEF IInv, Sound, OfPlugin, Forward

\* Nothing is known of a process that is done.
LEMMA IdleSound ==
  ASSUME NEW t, NEW n
  PROVE  Sound(Idle, t, n)
  BY DEF Sound, Idle, Fetching, Checked, Written, Asking

\* A command may end anywhere.
LEMMA Ends ==
  ASSUME IInv, Data', NEW p \in Procs, NEW ok, End(p, ok),
         \A q \in Procs \ {p} : tmp'[q] = tmp[q] /\ near'[q] = near[q]
  PROVE  IInv'
  BY IdleSound, OneMoves DEF End

\* A command goes on from one point to the next.
LEMMA GoesOn ==
  ASSUME IInv, Data', NEW p \in Procs, job[p] \in Job, NEW pc \in PCs, Goto(p, pc),
         Sound([job[p] EXCEPT !.pc = pc], tmp'[p], near'[p]),
         \A q \in Procs \ {p} : tmp'[q] = tmp[q] /\ near'[q] = near[q]
  PROVE  IInv'
<1> DEFINE j == [job[p] EXCEPT !.pc = pc]
<1>1. j \in Job
  BY DEF Job
<1>2. job' = [job EXCEPT ![p] = j]
  BY DEF Goto
<1> QED BY <1>1, <1>2, OneMoves

\* A command begins at a point where nothing has been fetched yet.
LEMMA Begins ==
  ASSUME IInv, NEW p \in Procs, NEW pc \in PCs \ (Fetching \cup Written), NEW cmd \in Cmds,
         NEW how \in Hows, NEW asked \in Versions \cup {0}, Begin(p, pc, cmd, how, asked),
         pc \in Asking => cmd \in PluginCmds /\ how \in DOMAIN Sources,
         pc = "load" => cmd \in {"update", "remove", "info"},
         pc \in {"list", "resolve"} => cmd = "self"
  PROVE  IInv'
<1> DEFINE new == [pc |-> pc, cmd |-> cmd, how |-> how, ver |-> asked,
                   current |-> dest[Self], seen |-> {}, status |-> "active",
                   alone |-> \A r \in Procs \ {p} : job[r] = Idle]
<1>1. Data' /\ UNCHANGED <<tmp, near>>
  BY ProgramsAssumption DEF IInv, Data, Begin, files, net
<1>2. new \in Job /\ Sound(new, tmp[p], near[p])
  BY DEF IInv, Data, Job, Statuses, Sound, OfPlugin, Fetching, Checked
<1>3. \A q \in Procs : job'[q] = IF q = p THEN new ELSE IF job[q] = Idle THEN Idle
                                 ELSE [job[q] EXCEPT !.alone = FALSE]
  BY DEF Begin
<1>4. ASSUME NEW q \in Procs PROVE job'[q] \in Job \cup {Idle} /\ Sound(job'[q], tmp[q], near[q])
  <2>1. CASE q = p
    BY <2>1, <1>2, <1>3
  <2>2. CASE q # p /\ job[q] = Idle
    BY <2>2, <1>3, IdleSound
  <2>3. CASE q # p /\ job[q] # Idle
    <3> DEFINE j == [job[q] EXCEPT !.alone = FALSE]
    <3>1. job[q] \in Job /\ Sound(job[q], tmp[q], near[q])
      BY <2>3 DEF IInv
    <3>2. /\ j \in Job /\ j.pc = job[q].pc /\ j.cmd = job[q].cmd /\ j.how = job[q].how
          /\ j.ver = job[q].ver /\ j.current = job[q].current
      BY <3>1 DEF Job
    <3>3. Sound(j, tmp[q], near[q])
      BY <3>1, <3>2 DEF Sound, OfPlugin, Forward
    <3> QED BY <2>3, <3>2, <3>3, <1>3
  <2> QED BY <2>1, <2>2, <2>3
<1>5. job' \in [Procs -> Job \cup {Idle}]
  <2>1. job' = [q \in Procs |-> job'[q]]
    BY DEF Begin
  <2> QED BY <2>1, <1>4
<1>6. tmp' = tmp /\ near' = near
  BY <1>1
<1> QED BY <1>1, <1>4, <1>5, <1>6 DEF IInv, Sound, OfPlugin, Forward

-----------------------------------------------------------------------------
(* The invariant holds at first, and every step keeps it. *)

LEMMA InitInv ==
  ASSUME Init
  PROVE  IInv
<1>1. Data
  <2>1. dest \in [Targets -> Complete \cup {Nothing}] /\ dest[Self] \in Versions
    BY ProgramsAssumption DEF Init, Targets, Complete
  <2>2. record \in {Nothing, Torn} \cup [ver : Versions, how : DOMAIN Sources, status : Statuses]
        /\ meta \in Versions \cup {Nothing, Torn}
    BY ProgramsAssumption DEF Init, Sources, Statuses
  <2> QED BY <2>1, <2>2, ProgramsAssumption DEF Init, Data, Statuses
<1>2. job \in [Procs -> Job \cup {Idle}]
  BY DEF Init
<1>3. \A p \in Procs : job[p] = Idle
  BY DEF Init
<1> QED BY <1>1, <1>2, <1>3, IdleSound DEF IInv

LEMMA CommandsInv ==
  ASSUME IInv, NEW p \in Procs,
         \/ InstallCmd(p) \/ UpdateCmd(p) \/ RemoveCmd(p) \/ InfoCmd(p) \/ RunCmd(p)
         \/ SelfUpdateCmd(p)
  PROVE  IInv'
<1> USE DEF PCs, Cmds, PluginCmds, Hows, Fetching, Checked, Written, Asking
<1>1. CASE InstallCmd(p)
  <2>1. PICK how \in DOMAIN Sources : Begin(p, Sources[how], "install", how, 0)
    BY <1>1 DEF InstallCmd
  <2>2. how \in {"registry", "manifest", "local"} /\ Sources[how] \in {"plugin", "manifest", "local"}
    BY DEF Sources
  <2> QED BY <2>1, <2>2, Begins
<1>2. CASE UpdateCmd(p)
  BY <1>2, Begins DEF UpdateCmd, Sources
<1>3. CASE RemoveCmd(p)
  BY <1>3, Begins DEF RemoveCmd, Sources
<1>4. CASE InfoCmd(p)
  BY <1>4, Begins DEF InfoCmd, Sources
<1>5. CASE RunCmd(p)
  BY <1>5, Begins DEF RunCmd
<1>6. CASE SelfUpdateCmd(p)
  BY <1>6, Begins DEF SelfUpdateCmd
<1> QED BY <1>1, <1>2, <1>3, <1>4, <1>5, <1>6

\* Asking the registry for a plugin and for its newest version.
LEMMA GetPluginInv ==
  ASSUME IInv, NEW p \in Procs, GetPlugin(p)
  PROVE  IInv'
<1>1. job[p] \in Job /\ OfPlugin(job[p])
  BY Busy DEF GetPlugin, At, IInv, Sound, Asking
<1>2. PICK a \in Answers(cache.plugin, registry.status) :
        /\ cache' = [cache EXCEPT !.plugin = a.kept]
        /\ IF a.body \in {Nothing, "blocked"} THEN End(p, FALSE)
           ELSE /\ job' = [job EXCEPT ![p].pc = "latest", ![p].status = a.body]
                /\ UNCHANGED <<result, ran>>
  BY DEF GetPlugin
<1>3. a.kept \in {Nothing} \cup [body : Statuses, fresh : BOOLEAN] /\ a.body \in Statuses \cup {Nothing}
  <2>1. cache.plugin \in {Nothing} \cup [body : Statuses, fresh : BOOLEAN] /\ registry.status \in Statuses
    BY DEF IInv, Data
  <2> QED BY <2>1, AnswerTypes
<1>4. Data' /\ tmp' = tmp /\ near' = near
  BY <1>2, <1>3 DEF IInv, Data, GetPlugin, files, End
<1>5. CASE a.body \in {Nothing, "blocked"}
  BY <1>2, <1>4, <1>5, Ends
<1>6. CASE a.body \notin {Nothing, "blocked"}
  <2> DEFINE j == [job[p] EXCEPT !.pc = "latest", !.status = a.body]
  <2>1. j \in Job /\ Sound(j, tmp[p], near[p])
    BY <1>1, <1>3, <1>6 DEF Job, PCs, Asking, Sound, OfPlugin, Fetching, Checked, Written
  <2>2. job' = [job EXCEPT ![p] = j]
    BY <1>2, <1>6
  <2> QED BY <2>1, <2>2, <1>4, OneMoves
<1> QED BY <1>5, <1>6

LEMMA GetLatestVersionInv ==
  ASSUME IInv, NEW p \in Procs, GetLatestVersion(p)
  PROVE  IInv'
<1>1. job[p] \in Job /\ OfPlugin(job[p])
  BY Busy DEF GetLatestVersion, At, IInv, Sound, Asking
<1>2. PICK a \in Answers(cache.latest, registry.ver) :
        /\ cache' = [cache EXCEPT !.latest = a.kept]
        /\ IF a.body = Nothing THEN End(p, FALSE)
           ELSE /\ job' = [job EXCEPT ![p].pc = "download", ![p].ver = a.body]
                /\ UNCHANGED <<result, ran>>
  BY DEF GetLatestVersion
<1>3. a.kept \in {Nothing} \cup [body : Versions, fresh : BOOLEAN] /\ a.body \in Versions \cup {Nothing}
  <2>1. cache.latest \in {Nothing} \cup [body : Versions, fresh : BOOLEAN] /\ registry.ver \in Versions
    BY DEF IInv, Data
  <2> QED BY <2>1, AnswerTypes
<1>4. Data' /\ tmp' = tmp /\ near' = near
  BY <1>2, <1>3 DEF IInv, Data, GetLatestVersion, files, End
<1>5. CASE a.body = Nothing
  BY <1>2, <1>4, <1>5, Ends
<1>6. CASE a.body # Nothing
  <2> DEFINE j == [job[p] EXCEPT !.pc = "download", !.ver = a.body]
  <2>1. j \in Job /\ Sound(j, tmp[p], near[p])
    BY <1>1, <1>3, <1>6 DEF Job, PCs, Asking, Sound, OfPlugin, Fetching, Checked, Written
  <2>2. job' = [job EXCEPT ![p] = j]
    BY <1>2, <1>6
  <2> QED BY <2>1, <2>2, <1>4, OneMoves
<1> QED BY <1>5, <1>6

\* A manifest names some version.
LEMMA FetchManifestInv ==
  ASSUME IInv, NEW p \in Procs, FetchManifest(p)
  PROVE  IInv'
<1>1. job[p] \in Job /\ OfPlugin(job[p])
  BY Busy DEF FetchManifest, At, IInv, Sound, Asking
<1>2. Data' /\ tmp' = tmp /\ near' = near
  BY DEF IInv, Data, FetchManifest, files, net, End
<1>3. CASE End(p, FALSE)
  BY <1>2, <1>3, Ends
<1>4. ASSUME NEW v \in Versions, job' = [job EXCEPT ![p].pc = "download", ![p].ver = v]
      PROVE  IInv'
  <2> DEFINE j == [job[p] EXCEPT !.pc = "download", !.ver = v]
  <2>1. j \in Job /\ Sound(j, tmp[p], near[p])
    BY <1>1 DEF Job, PCs, Asking, Sound, OfPlugin, Fetching, Checked, Written
  <2>2. job' = [job EXCEPT ![p] = j]
    BY <1>4
  <2> QED BY <2>1, <2>2, <1>2, OneMoves
<1> QED BY <1>3, <1>4 DEF FetchManifest

\* Self update reads the releases, and settles on one of them.
LEMMA ReleasesInv ==
  ASSUME IInv, NEW p \in Procs, ListReleases(p) \/ Resolve(p)
  PROVE  IInv'
<1>1. job[p] \in Job /\ job[p].cmd = "self"
  BY Busy DEF ListReleases, Resolve, At, IInv, Sound
<1>2. Data' /\ tmp' = tmp /\ near' = near
  BY DEF IInv, Data, ListReleases, Resolve, files, net, End
<1>3. CASE ListReleases(p)
  <2> DEFINE j == [job[p] EXCEPT !.pc = "resolve", !.seen = releases]
  <2>1. releases \in SUBSET Versions
    BY DEF IInv, Data
  <2>2. j \in Job /\ Sound(j, tmp[p], near[p])
    BY <1>1, <2>1 DEF Job, PCs, Asking, Sound, Fetching, Checked, Written
  <2>3. job' = [job EXCEPT ![p] = j]
    BY <1>3 DEF ListReleases
  <2> QED BY <2>2, <2>3, <1>2, OneMoves
<1>4. CASE Resolve(p)
  <2> DEFINE vs == ResolveVersion(job[p].current, job[p].how, job[p].ver, job[p].seen)
             j == [job[p] EXCEPT !.pc = "download", !.ver = Newest(vs)]
  <2>1. \/ \E ok \in BOOLEAN : End(p, ok)
        \/ /\ vs # {} /\ ~(job[p].how = "asked" /\ ~VersionExists(p))
           /\ job' = [job EXCEPT ![p] = j]
    BY <1>4 DEF Resolve
  <2>2. CASE \E ok \in BOOLEAN : End(p, ok)
    BY <2>2, <1>2, Ends
  <2>3. CASE vs # {} /\ ~(job[p].how = "asked" /\ ~VersionExists(p)) /\ job' = [job EXCEPT ![p] = j]
    <3>1. job[p].current \in Versions /\ job[p].seen \in SUBSET Versions
      BY <1>1 DEF Job
    <3>2. job[p].how = "asked" => job[p].ver \in job[p].seen
      BY <2>3 DEF VersionExists
    <3>3. /\ Newest(vs) \in Versions /\ Newest(vs) > job[p].current
          /\ job[p].how = "compatible" => Major(Newest(vs)) = Major(job[p].current)
      BY <2>3, <3>1, <3>2, ResolvesForward
    <3>4. /\ j \in Job /\ j.pc = "download" /\ j.cmd = "self" /\ j.ver = Newest(vs)
          /\ j.how = job[p].how /\ j.current = job[p].current
      BY <1>1, <3>3 DEF Job, PCs, Fetching
    <3>5. Sound(j, tmp[p], near[p])
      BY <3>3, <3>4 DEF Sound, Forward, Fetching, Checked, Written, Asking
    <3> QED BY <2>3, <3>4, <3>5, <1>2, OneMoves
  <2> QED BY <2>1, <2>2, <2>3
<1> QED BY <1>3, <1>4

\* What a process knows while it fetches, at whichever point of it.
LEMMA FetchingKnows ==
  ASSUME IInv, NEW p \in Procs, job[p].pc \in Fetching
  PROVE  /\ job[p] \in Job /\ job[p].ver \in Versions
         /\ OfPlugin(job[p]) \/ (job[p].cmd = "self" /\ Forward(job[p]))
         /\ job[p].pc \in Checked => tmp[p] = job[p].ver
<1>1. job[p] \in Job
  BY Busy DEF Fetching, Checked
<1> QED BY <1>1 DEF IInv, Sound

\* It may go on to any point whose files are what they should be.
LEMMA FetchesOn ==
  ASSUME IInv, NEW p \in Procs, job[p].pc \in Fetching, NEW pc \in Fetching, NEW t, NEW n,
         pc \in Checked => t = job[p].ver, pc = "renameNew" => n = job[p].ver
  PROVE  Sound([job[p] EXCEPT !.pc = pc], t, n)
<1> DEFINE j == [job[p] EXCEPT !.pc = pc]
<1>1. /\ job[p].ver \in Versions
      /\ OfPlugin(job[p]) \/ (job[p].cmd = "self" /\ Forward(job[p]))
  BY FetchingKnows
<1>2. /\ j.pc = pc /\ j.ver = job[p].ver /\ j.cmd = job[p].cmd
      /\ j.how = job[p].how /\ j.current = job[p].current
  BY FetchingKnows DEF Job
<1>3. OfPlugin(j) \/ (j.cmd = "self" /\ Forward(j))
  BY <1>1, <1>2 DEF OfPlugin, Forward
<1>4. pc \notin Written \cup Asking \cup {"load", "list", "resolve"}
  BY DEF Fetching, Checked, Written, Asking
<1> QED BY <1>1, <1>2, <1>3, <1>4 DEF Sound

\* A command of a plugin may write.
LEMMA WritesOn ==
  ASSUME NEW j \in Job, OfPlugin(j), j.ver \in Versions, NEW pc \in Written, NEW t, NEW n
  PROVE  Sound([j EXCEPT !.pc = pc], t, n)
  BY DEF Sound, Job, OfPlugin, Fetching, Checked, Written, Asking

\* Downloading and checking.
LEMMA DownloadInv ==
  ASSUME IInv, NEW p \in Procs, Download(p)
  PROVE  IInv'
<1>1. job[p].pc \in Fetching
  BY DEF Download, At, Fetching
<1>2. Data' /\ near' = near /\ \A q \in Procs \ {p} : tmp'[q] = tmp[q]
  BY <1>1, FetchingKnows DEF IInv, Data, Download, files, net, End, Goto
<1>3. CASE End(p, FALSE)
  BY <1>2, <1>3, Ends
<1>4. CASE Goto(p, "verify")
  <2>1. Sound([job[p] EXCEPT !.pc = "verify"], tmp'[p], near'[p])
    BY <1>1, FetchesOn DEF Fetching, Checked
  <2> QED BY <2>1, <1>1, <1>2, <1>4, FetchingKnows, GoesOn DEF PCs, Fetching
<1> QED BY <1>3, <1>4 DEF Download

LEMMA ChecksInv ==
  ASSUME IInv, NEW p \in Procs, Verify(p) \/ Unpack(p) \/ CheckMetadata(p)
  PROVE  IInv'
<1>1. job[p].pc \in {"verify", "unpack", "metadata"} /\ job[p].pc \in Fetching
  BY DEF Verify, Unpack, CheckMetadata, At, Fetching, Checked
<1>2. Data' /\ near' = near /\ \A q \in Procs \ {p} : tmp'[q] = tmp[q]
  BY DEF IInv, Data, Verify, Unpack, CheckMetadata, GivesUp, files, net, End, Goto
<1>3. CASE End(p, FALSE)
  BY <1>2, <1>3, Ends
<1>4. ASSUME NEW pc \in {"unpack", "metadata", "replace"}, Goto(p, pc), tmp' = tmp, tmp[p] = job[p].ver
      PROVE  IInv'
  <2>1. Sound([job[p] EXCEPT !.pc = pc], tmp'[p], near'[p])
    BY <1>1, <1>4, FetchesOn DEF Fetching, Checked
  <2> QED BY <2>1, <1>1, <1>2, <1>4, FetchingKnows, GoesOn DEF PCs, Fetching, Checked
<1>5. job[p].pc \in {"unpack", "metadata"} => tmp[p] = job[p].ver
  BY <1>1, FetchingKnows DEF Checked
<1> QED BY <1>3, <1>4, <1>5 DEF Verify, Unpack, CheckMetadata, At, ChecksumFits, GivesUp

-----------------------------------------------------------------------------
(* Putting a program in place. *)

\* A program that is put in place is the version the command is about.
LEMMA PutInv ==
  ASSUME IInv, NEW p \in Procs, job[p].pc \in Fetching,
         Put(p, job[p].ver), Replaced(p), UNCHANGED <<record, meta, net>>,
         near' \in [Procs -> Versions \cup {Nothing, Partial}],
         tmp' \in [Procs -> Versions \cup {Nothing, Junk}],
         \A q \in Procs \ {p} : tmp'[q] = tmp[q] /\ near'[q] = near[q]
  PROVE  IInv'
<1>1. dest' \in [Targets -> Complete \cup {Nothing}] /\ dest'[Self] \in Versions
  BY FetchingKnows, ProgramsAssumption DEF IInv, Data, Put, Target, Targets, Complete
<1>2. Data'
  BY <1>1 DEF IInv, Data, net, Replaced, End, Goto
<1>3. CASE Doing(p, "self")
  BY <1>2, <1>3, Ends DEF Replaced
<1>4. CASE ~Doing(p, "self")
  <2>1. Goto(p, "record") /\ OfPlugin(job[p])
    BY <1>4, FetchingKnows DEF Replaced, Doing
  <2>2. Sound([job[p] EXCEPT !.pc = "record"], tmp'[p], near'[p])
    BY <2>1, FetchingKnows, WritesOn DEF Written
  <2> QED BY <2>1, <2>2, <1>2, FetchingKnows, GoesOn DEF PCs, Written
<1> QED BY <1>3, <1>4

LEMMA RenameInv ==
  ASSUME IInv, NEW p \in Procs, Rename(p)
  PROVE  IInv'
<1>1. job[p].pc \in Fetching /\ tmp[p] = job[p].ver
  BY FetchingKnows DEF Rename, At, Fetching, Checked
<1>2. CASE Put(p, tmp[p]) /\ tmp' = [tmp EXCEPT ![p] = Nothing] /\ Replaced(p)
  BY <1>1, <1>2, PutInv DEF Rename, IInv, Data
<1>3. CASE UNCHANGED <<dest, tmp>> /\ Goto(p, "create")
  <2>1. Data' /\ tmp' = tmp /\ near' = near
    BY <1>3 DEF IInv, Data, Rename, net, Goto
  <2>2. Sound([job[p] EXCEPT !.pc = "create"], tmp'[p], near'[p])
    BY <1>1, <2>1, FetchesOn DEF Fetching, Checked
  <2> QED BY <2>1, <2>2, <1>1, <1>3, FetchingKnows, GoesOn DEF PCs, Fetching, Checked
<1> QED BY <1>2, <1>3 DEF Rename

LEMMA CopyInv ==
  ASSUME IInv, NEW p \in Procs, CreateNew(p) \/ CopyNew(p)
  PROVE  IInv'
<1>1. job[p].pc \in Fetching /\ tmp[p] = job[p].ver
  BY FetchingKnows DEF CreateNew, CopyNew, At, Fetching, Checked
<1>2. Data' /\ \A q \in Procs \ {p} : tmp'[q] = tmp[q] /\ near'[q] = near[q]
  <2>1. near' \in [Procs -> Versions \cup {Nothing, Partial}]
        /\ tmp' \in [Procs -> Versions \cup {Nothing, Junk}]
    <3>1. tmp[p] \in Versions
      BY <1>1, FetchingKnows
    <3>2. /\ near' = near \/ \E c \in Versions \cup {Nothing, Partial} : near' = [near EXCEPT ![p] = c]
          /\ tmp' = tmp \/ tmp' = [tmp EXCEPT ![p] = Nothing]
      BY <3>1 DEF CreateNew, CopyNew, GivesUp
    <3> QED BY <3>2 DEF IInv, Data
  <2> QED BY <2>1 DEF IInv, Data, CreateNew, CopyNew, GivesUp, net, Goto, End
<1>3. CASE End(p, FALSE)
  BY <1>2, <1>3, Ends
<1>4. ASSUME NEW pc \in {"copy", "renameNew"}, Goto(p, pc), tmp' = tmp,
             pc = "renameNew" => near'[p] = tmp[p]
      PROVE  IInv'
  <2>1. Sound([job[p] EXCEPT !.pc = pc], tmp'[p], near'[p])
    BY <1>1, <1>4, FetchesOn DEF Fetching, Checked
  <2> QED BY <2>1, <1>1, <1>2, <1>4, FetchingKnows, GoesOn DEF PCs, Fetching, Checked
<1>5. near' = [near EXCEPT ![p] = tmp[p]] => near'[p] = tmp[p]
  BY DEF IInv, Data
<1> QED BY <1>3, <1>4, <1>5 DEF CreateNew, CopyNew, GivesUp

LEMMA RenameNewInv ==
  ASSUME IInv, NEW p \in Procs, RenameNew(p)
  PROVE  IInv'
<1>1. job[p].pc \in Fetching /\ near[p] = job[p].ver
  BY DEF RenameNew, At, Fetching, Checked, IInv, Sound
<1>2. /\ near' \in [Procs -> Versions \cup {Nothing, Partial}]
      /\ tmp' \in [Procs -> Versions \cup {Nothing, Junk}]
      /\ \A q \in Procs \ {p} : tmp'[q] = tmp[q] /\ near'[q] = near[q]
  BY DEF IInv, Data, RenameNew
<1>3. CASE Put(p, near[p]) /\ Replaced(p)
  BY <1>1, <1>2, <1>3, PutInv DEF RenameNew
<1>4. CASE UNCHANGED dest /\ End(p, FALSE)
  <2>1. Data'
    BY <1>2, <1>4 DEF IInv, Data, RenameNew, net, End
  <2> QED BY <2>1, <1>2, <1>4, Ends
<1> QED BY <1>3, <1>4 DEF RenameNew

-----------------------------------------------------------------------------
(* Writing down, removing, running; a kill; what others do. *)

\* What a process knows once it writes.
LEMMA WritingKnows ==
  ASSUME IInv, NEW p \in Procs, job[p].pc \in Written
  PROVE  job[p] \in Job /\ job[p].ver \in Versions /\ OfPlugin(job[p])
<1>1. job[p] \in Job
  BY Busy DEF Written
<1> QED BY <1>1 DEF IInv, Sound

LEMMA LinkLocalInv ==
  ASSUME IInv, NEW p \in Procs, LinkLocal(p)
  PROVE  IInv'
<1>1. job[p] \in Job /\ OfPlugin(job[p])
  BY Busy DEF LinkLocal, At, IInv, Sound, Asking
<1>2. dest' \in [Targets -> Complete \cup {Nothing}] /\ dest'[Self] \in Versions
  <2>1. dest' = dest \/ dest' = [dest EXCEPT ![Plugin] = Link]
    BY DEF LinkLocal
  <2>2. Link \in Complete /\ Plugin # Self /\ Self \in Targets
    BY ProgramsAssumption DEF Complete, Targets
  <2> QED BY <2>1, <2>2 DEF IInv, Data
<1>3. Data' /\ tmp' = tmp /\ near' = near
  BY <1>2 DEF IInv, Data, LinkLocal, net, End
<1>4. CASE End(p, FALSE)
  BY <1>3, <1>4, Ends
<1>5. CASE job' = [job EXCEPT ![p].pc = "record", ![p].ver = LocalVersion]
  <2> DEFINE j == [job[p] EXCEPT !.pc = "record", !.ver = LocalVersion]
  <2>1. j \in Job /\ Sound(j, tmp[p], near[p])
    BY <1>1, ProgramsAssumption
       DEF Job, PCs, Written, Sound, OfPlugin, Fetching, Checked, Asking
  <2>2. job' = [job EXCEPT ![p] = j]
    BY <1>5
  <2> QED BY <2>1, <2>2, <1>3, OneMoves
<1> QED BY <1>4, <1>5 DEF LinkLocal

LEMMA WritesInv ==
  ASSUME IInv, NEW p \in Procs, SaveRecord(p) \/ UpdateEntry(p) \/ RemoveRecord(p)
  PROVE  IInv'
<1>1. job[p].pc \in Written /\ OfPlugin(job[p]) /\ job[p] \in Job /\ job[p].ver \in Versions
  BY WritingKnows DEF SaveRecord, UpdateEntry, RemoveRecord, At, Written
<1>2. NewRecord(p) \in [ver : Versions, how : DOMAIN Sources, status : Statuses]
  BY <1>1 DEF NewRecord, OfPlugin, Job
<1>3. Data'
  <2>0. Metadata(p) \in Versions
    BY <1>1, ProgramsAssumption DEF Metadata
  <2>1. /\ record' \in {record, Nothing, Torn, NewRecord(p)}
        /\ meta' \in {meta, Nothing, Torn, Metadata(p)}
        /\ UNCHANGED <<dest, near, tmp, net, ran>>
    BY DEF SaveRecord, UpdateEntry, RemoveRecord, End, Goto
  <2> QED BY <2>0, <2>1, <1>1, <1>2 DEF IInv, Data, net
<1>4. tmp' = tmp /\ near' = near
  BY DEF SaveRecord, UpdateEntry, RemoveRecord
<1>5. CASE \E ok \in BOOLEAN : End(p, ok)
  BY <1>3, <1>4, <1>5, Ends
<1>6. CASE Goto(p, "meta")
  <2>1. Sound([job[p] EXCEPT !.pc = "meta"], tmp'[p], near'[p])
    BY <1>1, WritesOn DEF Written
  <2> QED BY <2>1, <1>1, <1>3, <1>4, <1>6, GoesOn DEF PCs, Written
<1> QED BY <1>5, <1>6 DEF SaveRecord, UpdateEntry, RemoveRecord

LEMMA UnlinkInv ==
  ASSUME IInv, NEW p \in Procs, Unlink(p)
  PROVE  IInv'
<1>1. job[p].pc \in Written /\ OfPlugin(job[p]) /\ job[p] \in Job /\ job[p].ver \in Versions
  BY WritingKnows DEF Unlink, At, Written
<1>2. dest' \in [Targets -> Complete \cup {Nothing}] /\ dest'[Self] \in Versions
  BY ProgramsAssumption DEF IInv, Data, Unlink, Targets
<1>3. Data' /\ tmp' = tmp /\ near' = near
  BY <1>2 DEF IInv, Data, Unlink, net, End, Goto
<1>4. CASE End(p, FALSE)
  BY <1>3, <1>4, Ends
<1>5. CASE Goto(p, "forget")
  <2>1. Sound([job[p] EXCEPT !.pc = "forget"], tmp'[p], near'[p])
    BY <1>1, WritesOn DEF Written
  <2> QED BY <2>1, <1>1, <1>3, <1>5, GoesOn DEF PCs, Written
<1> QED BY <1>4, <1>5 DEF Unlink

\* A record that can be read names a version.
LEMMA LoadRecordInv ==
  ASSUME IInv, NEW p \in Procs, LoadRecord(p)
  PROVE  IInv'
<1>1. job[p] \in Job /\ OfPlugin(job[p]) /\ job[p].cmd \in {"update", "remove", "info"}
  BY Busy DEF LoadRecord, At, IInv, Sound, Asking
<1>2. Data' /\ tmp' = tmp /\ near' = near
  BY DEF IInv, Data, LoadRecord, files, net, End
<1>3. CASE End(p, FALSE)
  BY <1>2, <1>3, Ends
<1>4. CASE ~End(p, FALSE)
  <2> DEFINE how == IF Doing(p, "update") THEN "registry" ELSE record.how
             pc == [update |-> "plugin", remove |-> "unlink", info |-> "ask"][job[p].cmd]
             j == [job[p] EXCEPT !.ver = record.ver, !.how = how, !.pc = pc]
  <2>1. record \notin {Nothing, Torn} /\ job' = [job EXCEPT ![p] = j]
    BY <1>4 DEF LoadRecord
  <2>2. record.ver \in Versions /\ how \in DOMAIN Sources
    BY <2>1 DEF IInv, Data, Sources
  <2>3. pc \in {"plugin", "unlink", "ask"}
    BY <1>1
  <2>4. how \in Hows /\ pc \in PCs
    BY <2>2, <2>3 DEF Sources, Hows, PCs, Written, Asking
  <2>5. /\ j \in Job /\ j.pc = pc /\ j.ver = record.ver /\ j.cmd = job[p].cmd /\ j.how = how
    BY <1>1, <2>2, <2>4 DEF Job
  <2>6. Sound(j, tmp[p], near[p])
    BY <1>1, <2>2, <2>3, <2>5 DEF Sound, OfPlugin, Fetching, Checked, Written, Asking
  <2> QED BY <2>1, <2>5, <2>6, <1>2, OneMoves
<1> QED BY <1>3, <1>4

LEMMA InfoInv ==
  ASSUME IInv, NEW p \in Procs, InfoAsks(p) \/ InfoSaves(p)
  PROVE  IInv'
<1>1. job[p].pc \in Written /\ OfPlugin(job[p]) /\ job[p] \in Job /\ job[p].ver \in Versions
  BY WritingKnows DEF InfoAsks, InfoSaves, At, Written
<1>2. CASE InfoAsks(p)
  <2>1. dest[Plugin] \in Complete \cup {Nothing}
    BY DEF IInv, Data, Targets
  <2>2. meta' \in Versions \cup {Nothing, Torn}
    BY <1>2, <2>1, ProgramsAssumption DEF IInv, Data, InfoAsks, Complete, FetchMetadata
  <2>3. Data' /\ tmp' = tmp /\ near' = near
    BY <1>2, <2>2 DEF IInv, Data, InfoAsks, net, End, Goto
  <2>4. CASE End(p, TRUE)
    BY <2>3, <2>4, Ends
  <2>5. CASE Goto(p, "status")
    <3>1. Sound([job[p] EXCEPT !.pc = "status"], tmp'[p], near'[p])
      BY <1>1, WritesOn DEF Written
    <3> QED BY <3>1, <1>1, <2>3, <2>5, GoesOn DEF PCs, Written
  <2> QED BY <1>2, <2>4, <2>5 DEF InfoAsks
<1>3. CASE InfoSaves(p)
  <2>1. PICK a \in Answers(cache.plugin, registry.status) :
          /\ cache' = [cache EXCEPT !.plugin = a.kept]
          /\ \/ record' = IF a.body = Nothing THEN record
                          ELSE [ver |-> job[p].ver, how |-> job[p].how, status |-> a.body]
             \/ record' = Torn
    BY <1>3 DEF InfoSaves
  <2>2. cache.plugin \in {Nothing} \cup [body : Statuses, fresh : BOOLEAN] /\ registry.status \in Statuses
    BY DEF IInv, Data
  <2>3. a.kept \in {Nothing} \cup [body : Statuses, fresh : BOOLEAN] /\ a.body \in Statuses \cup {Nothing}
    BY <2>2, AnswerTypes
  <2>4. record' \in {Nothing, Torn} \cup [ver : Versions, how : DOMAIN Sources, status : Statuses]
    BY <2>1, <2>3, <1>1 DEF IInv, Data, OfPlugin
  <2>5. Data' /\ tmp' = tmp /\ near' = near
    BY <1>3, <2>1, <2>3, <2>4 DEF IInv, Data, InfoSaves, End
  <2> QED BY <1>3, <2>5, Ends DEF InfoSaves
<1> QED BY <1>2, <1>3

LEMMA EndingsInv ==
  ASSUME IInv, NEW p \in Procs, Dispatch(p) \/ Crash(p)
  PROVE  IInv'
<1>1. Data' /\ \A q \in Procs \ {p} : tmp'[q] = tmp[q] /\ near'[q] = near[q]
  BY DEF IInv, Data, Dispatch, Crash, files, net, End
<1> QED BY <1>1, Ends DEF Dispatch, Crash

LEMMA OthersInv ==
  ASSUME IInv, Released \/ RegistryChanges \/ CacheExpires
  PROVE  IInv'
<1>1. UNCHANGED <<dest, near, record, meta, tmp, job, result, ran>>
  BY DEF Released, RegistryChanges, CacheExpires, Elsewhere, files
<1>2. /\ releases' \subseteq Versions /\ registry' \in [ver : Versions, status : Statuses]
      /\ cache' \in [plugin : {Nothing} \cup [body : Statuses, fresh : BOOLEAN],
                     latest : {Nothing} \cup [body : Versions, fresh : BOOLEAN]]
  <2>1. CASE Released
    BY <2>1 DEF IInv, Data, Released
  <2>2. CASE RegistryChanges
    BY <2>2 DEF IInv, Data, RegistryChanges, Statuses
  <2>3. CASE CacheExpires
    <3>1. PICK url \in {"plugin", "latest"} :
            cache[url] # Nothing /\ cache' = [cache EXCEPT ![url] = [@ EXCEPT !.fresh = FALSE]]
      BY <2>3 DEF CacheExpires
    <3>2. /\ cache.plugin # Nothing =>
               [cache.plugin EXCEPT !.fresh = FALSE] \in [body : Statuses, fresh : BOOLEAN]
          /\ cache.latest # Nothing =>
               [cache.latest EXCEPT !.fresh = FALSE] \in [body : Versions, fresh : BOOLEAN]
      BY DEF IInv, Data
    <3>3. cache' \in [plugin : {Nothing} \cup [body : Statuses, fresh : BOOLEAN],
                      latest : {Nothing} \cup [body : Versions, fresh : BOOLEAN]]
      BY <3>1, <3>2 DEF IInv, Data
    <3> QED BY <2>3, <3>3 DEF IInv, Data, CacheExpires
  <2> QED BY <2>1, <2>2, <2>3
<1> QED BY <1>1, <1>2 DEF IInv, Data

LEMMA StepInv ==
  ASSUME IInv, [Next]_vars
  PROVE  IInv'
<1>1. CASE UNCHANGED vars
  BY <1>1 DEF vars, files, net, IInv, Data
<1>2. CASE Next
  BY <1>2, CommandsInv, GetPluginInv, GetLatestVersionInv, FetchManifestInv, ReleasesInv,
     DownloadInv, ChecksInv, RenameInv, CopyInv, RenameNewInv, LinkLocalInv, WritesInv,
     LoadRecordInv, UnlinkInv, InfoInv, EndingsInv, OthersInv DEF Next
<1> QED BY <1>1, <1>2

THEOREM Invariant == Spec => []IInv
<1>1. Init => IInv
  BY InitInv
<1>2. IInv /\ [Next]_vars => IInv'
  BY StepInv
<1> QED BY <1>1, <1>2, PTL DEF Spec

-----------------------------------------------------------------------------
(* What follows. *)

\* Every variable keeps its type, with any number of commands at once.
THEOREM TypeCorrect == Spec => []TypeOK
<1>1. IInv => TypeOK
  BY DEF IInv, Data, TypeOK, Statuses
<1> QED BY <1>1, Invariant, PTL

\* What a process renames into place is the version its command is about.
LEMMA PutsVersion ==
  ASSUME IInv, NEW p \in Procs, Rename(p) \/ RenameNew(p), dest' # dest
  PROVE  /\ dest' = [dest EXCEPT ![Target(p)] = job[p].ver] /\ job[p].ver \in Versions
         /\ Doing(p, "self") => job[p] # Idle /\ Forward(job[p])
<1>1. job[p].pc \in Fetching /\ job[p].pc # "idle"
  BY DEF Rename, RenameNew, At, Fetching, Checked
<1>2. Rename(p) => tmp[p] = job[p].ver
  BY <1>1, FetchingKnows DEF Rename, At, Checked
<1>3. RenameNew(p) => near[p] = job[p].ver
  BY DEF IInv, Sound, RenameNew, At
<1>4. dest' = [dest EXCEPT ![Target(p)] = job[p].ver]
  BY <1>2, <1>3 DEF Rename, RenameNew, Put
<1>5. Doing(p, "self") => Forward(job[p])
  BY <1>1, FetchingKnows DEF Doing, OfPlugin, PluginCmds
<1> QED BY <1>1, <1>4, <1>5, FetchingKnows DEF Idle

\* Only four actions touch the path of a program.
LEMMA OthersLeaveIt ==
  ASSUME [Next]_vars, dest' # dest
  PROVE  \E p \in Procs : Rename(p) \/ RenameNew(p) \/ LinkLocal(p) \/ Unlink(p)
<1>1. Next
  BY DEF vars, files
<1>2. ASSUME NEW p \in Procs,
             \/ InstallCmd(p) \/ UpdateCmd(p) \/ RemoveCmd(p) \/ InfoCmd(p) \/ RunCmd(p)
             \/ SelfUpdateCmd(p)
      PROVE  FALSE
  BY <1>2 DEF InstallCmd, UpdateCmd, RemoveCmd, InfoCmd, RunCmd, SelfUpdateCmd, Begin, files
<1>3. ASSUME NEW p \in Procs,
             \/ GetPlugin(p) \/ GetLatestVersion(p) \/ FetchManifest(p) \/ ListReleases(p)
             \/ Resolve(p) \/ Download(p) \/ Verify(p) \/ Unpack(p) \/ CheckMetadata(p)
      PROVE  FALSE
  BY <1>3 DEF GetPlugin, GetLatestVersion, FetchManifest, ListReleases, Resolve, Download,
              Verify, Unpack, CheckMetadata, files
<1>4. ASSUME NEW p \in Procs,
             \/ CreateNew(p) \/ CopyNew(p) \/ SaveRecord(p) \/ UpdateEntry(p) \/ LoadRecord(p)
             \/ RemoveRecord(p) \/ InfoAsks(p) \/ InfoSaves(p) \/ Dispatch(p) \/ Crash(p)
      PROVE  FALSE
  BY <1>4 DEF CreateNew, CopyNew, SaveRecord, UpdateEntry, LoadRecord, RemoveRecord,
              InfoAsks, InfoSaves, Dispatch, Crash, files
<1>5. ~(Released \/ RegistryChanges \/ CacheExpires)
  BY DEF Released, RegistryChanges, CacheExpires, Elsewhere, files
<1> QED BY <1>1, <1>2, <1>3, <1>4, <1>5 DEF Next

\* Programs implements Replacement: whoever is killed, and whoever installs at
\* the same time, a path holds a complete program or nothing.
THEOREM StaysComplete == Spec => AlwaysComplete
<1>1. Init => Atomic!Init
  BY InitInv DEF IInv, Data, Atomic!Init
<1>2. ASSUME IInv, [Next]_vars PROVE [Atomic!Next]_dest
  <2> SUFFICES ASSUME dest' # dest PROVE Atomic!Next
    OBVIOUS
  <2>1. PICK p \in Procs : Rename(p) \/ RenameNew(p) \/ LinkLocal(p) \/ Unlink(p)
    BY <1>2, OthersLeaveIt
  <2>2. CASE Rename(p) \/ RenameNew(p)
    <3>1. Target(p) \in Targets /\ job[p].ver \in Complete
      BY <1>2, <2>2, PutsVersion DEF Target, Targets, Complete
    <3> QED BY <3>1, <1>2, <2>2, PutsVersion DEF Atomic!Next, Atomic!Replaces
  <2>3. CASE LinkLocal(p)
    BY <2>3 DEF LinkLocal, Atomic!Next, Atomic!Replaces, Targets, Complete
  <2>4. CASE Unlink(p)
    BY <2>4 DEF Unlink, Atomic!Next, Atomic!Removes, Targets
  <2> QED BY <2>1, <2>2, <2>3, <2>4
<1> QED BY <1>1, <1>2, Invariant, PTL DEF Spec, AlwaysComplete, Atomic!Spec

\* Self update only goes forward, and to the next major version only when told.
THEOREM GoesForward == Spec => UpdatesForward
<1> DEFINE A == dest'[Self] # dest[Self] =>
             \E p \in Procs :
               /\ job[p] # Idle /\ Doing(p, "self") /\ dest'[Self] = job[p].ver
               /\ job[p].ver > job[p].current
               /\ job[p].how = "compatible" => Major(job[p].ver) = Major(job[p].current)
<1>1. ASSUME IInv, [Next]_vars PROVE A
  <2> SUFFICES ASSUME dest'[Self] # dest[Self]
      PROVE  \E p \in Procs :
               /\ job[p] # Idle /\ Doing(p, "self") /\ dest'[Self] = job[p].ver
               /\ Forward(job[p])
    BY DEF Forward
  <2>1. PICK p \in Procs : Rename(p) \/ RenameNew(p) \/ LinkLocal(p) \/ Unlink(p)
    BY <1>1, OthersLeaveIt
  <2>2. Plugin # Self /\ Self \in Targets
    BY ProgramsAssumption DEF Targets
  <2>3. ~LinkLocal(p) /\ ~Unlink(p)
    BY <1>1, <2>2 DEF LinkLocal, Unlink, IInv, Data
  <2>4. /\ dest' = [dest EXCEPT ![Target(p)] = job[p].ver]
        /\ Doing(p, "self") => job[p] # Idle /\ Forward(job[p])
    BY <1>1, <2>1, <2>3, PutsVersion
  <2>5. Doing(p, "self")
    BY <2>2, <2>4 DEF Target
  <2>6. dest'[Self] = job[p].ver
    BY <2>2, <2>4, <2>5, <1>1 DEF Target, IInv, Data
  <2> QED BY <2>4, <2>5, <2>6
<1> QED BY <1>1, Invariant, PTL DEF Spec, UpdatesForward

-----------------------------------------------------------------------------
(* A command that had the files to itself: where it is on its way, and what *)
(* it has written.  Every step keeps both.                                  *)

\* What is left to do at each point of a command: a command that installs goes
\* through the record, one that removes unlinks and forgets first.
Installs(p) == job[p].cmd \in {"install", "update"}
OnItsWay(p) ==
  /\ job[p].pc \in {"plugin", "latest", "manifest"} \cup Fetching =>
       Doing(p, "self") \/ (Installs(p) /\ job[p].how # "local")
  /\ At(p, "local") => Installs(p) /\ job[p].how = "local"
  /\ At(p, "record") => Installs(p)
  /\ At(p, "meta") => Installs(p) \/ Doing(p, "remove")
  /\ job[p].pc \in {"unlink", "forget"} => Doing(p, "remove")
  /\ job[p].pc \in {"ask", "status"} => Doing(p, "info")
  /\ At(p, "find") => Doing(p, "run")

\* What a command that is alone has written so far is still there.
StillThere(p) ==
  /\ At(p, "record") \/ (At(p, "meta") /\ Installs(p)) =>
       dest[Plugin] = IF job[p].how = "local" THEN Link ELSE job[p].ver
  /\ At(p, "meta") /\ Installs(p) => record = NewRecord(p)
  /\ At(p, "forget") \/ (At(p, "meta") /\ Doing(p, "remove")) => dest[Plugin] = Nothing
  /\ At(p, "meta") /\ Doing(p, "remove") => record = Nothing

Alone(p) == job[p] # Idle /\ job[p].alone
Undisturbed ==
  \A p \in Procs :
    /\ OnItsWay(p)
    /\ Alone(p) => StillThere(p) /\ \A q \in Procs \ {p} : job[q] = Idle

\* Where one process moves, none of the others was alone.
LEMMA OthersWait ==
  ASSUME IInv, Undisturbed, NEW p \in Procs, job[p].pc # "idle", NEW j, job' = [job EXCEPT ![p] = j],
         OnItsWay(p)', Alone(p)' => Alone(p) /\ StillThere(p)'
  PROVE  Undisturbed'
<1>1. job[p] # Idle /\ \A q \in Procs \ {p} : job'[q] = job[q]
  BY DEF IInv, Idle
<1>2. ASSUME NEW q \in Procs \ {p}
      PROVE  OnItsWay(q)' /\ ~Alone(q)'
  <2>1. OnItsWay(q) /\ ~Alone(q)
    BY <1>1 DEF Undisturbed
  <2> QED BY <1>1, <2>1 DEF OnItsWay, Alone, At, Doing, Installs
<1>3. Alone(p)' => \A q \in Procs \ {p} : job'[q] = Idle
  BY <1>1 DEF Undisturbed
<1> QED BY <1>2, <1>3 DEF Undisturbed

\* A command that ends has nothing left to do.
LEMMA EndsUndisturbed ==
  ASSUME IInv, Undisturbed, NEW p \in Procs, job[p].pc # "idle", NEW ok, End(p, ok)
  PROVE  Undisturbed'
<1>1. job' = [job EXCEPT ![p] = Idle] /\ job'[p] = Idle
  BY DEF End, IInv
<1>2. OnItsWay(p)' /\ ~Alone(p)'
  BY <1>1 DEF OnItsWay, At, Idle, Alone, Fetching, Checked
<1> QED BY <1>1, <1>2, OthersWait

\* One that goes on is the same command.
LEMMA SameCommand ==
  ASSUME IInv, NEW p \in Procs, job[p] \in Job, NEW pc, Goto(p, pc)
  PROVE  /\ job' = [job EXCEPT ![p] = [job[p] EXCEPT !.pc = pc]]
         /\ job'[p].pc = pc /\ job'[p].cmd = job[p].cmd /\ job'[p].how = job[p].how
         /\ job'[p].ver = job[p].ver /\ job'[p].status = job[p].status
         /\ job'[p].alone = job[p].alone
  BY DEF Goto, IInv, Job

\* While it fetches it has written nothing.
LEMMA FetchesUndisturbed ==
  ASSUME IInv, Undisturbed, NEW p \in Procs, job[p].pc \in Fetching, NEW pc \in Fetching, Goto(p, pc)
  PROVE  Undisturbed'
<1>1. job[p] \in Job /\ job[p].pc # "idle"
  BY FetchingKnows DEF Fetching, Checked
<1>2. Doing(p, "self") \/ (Installs(p) /\ job[p].how # "local")
  BY DEF Undisturbed, OnItsWay
<1>3. OnItsWay(p)' /\ StillThere(p)'
  BY <1>1, <1>2, SameCommand
     DEF OnItsWay, StillThere, At, Doing, Installs, Fetching, Checked
<1>4. Alone(p)
      \/ ~Alone(p)'
  BY <1>1, SameCommand DEF Alone, Idle
<1> QED BY <1>1, <1>3, <1>4, SameCommand, OthersWait

\* A command of a plugin goes on to write.
LEMMA WritesUndisturbed ==
  ASSUME IInv, Undisturbed, NEW p \in Procs, job[p] \in Job, job[p].pc # "idle",
         NEW pc \in Written, Goto(p, pc), OnItsWay(p)', Alone(p) => StillThere(p)'
  PROVE  Undisturbed'
<1>1. Alone(p) \/ ~Alone(p)'
  BY SameCommand DEF Alone, Idle
<1> QED BY <1>1, SameCommand, OthersWait

\* A command that reads and goes on has written nothing yet.
LEMMA ReadsUndisturbed ==
  ASSUME IInv, Undisturbed, NEW p \in Procs, job[p].pc # "idle", NEW j, job' = [job EXCEPT ![p] = j],
         j.alone = job[p].alone, j.pc \notin {"record", "meta", "forget"}, OnItsWay(p)'
  PROVE  Undisturbed'
<1>1. job'[p] = j /\ job[p] # Idle
  BY DEF IInv, Idle
<1>2. Alone(p)' => Alone(p) /\ StillThere(p)'
  BY <1>1 DEF Alone, StillThere, At
<1> QED BY <1>2, OthersWait

\* Asking the registry for a plugin, its newest version, or a manifest.
LEMMA AsksUndisturbed ==
  ASSUME IInv, Undisturbed, NEW p \in Procs, GetPlugin(p) \/ GetLatestVersion(p) \/ FetchManifest(p)
  PROVE  Undisturbed'
<1>1. job[p].pc \in {"plugin", "latest", "manifest"} /\ job[p] \in Job
  BY Busy DEF GetPlugin, GetLatestVersion, FetchManifest, At
<1>2. Doing(p, "self") \/ (Installs(p) /\ job[p].how # "local")
  BY <1>1 DEF Undisturbed, OnItsWay
<1>3. ASSUME NEW j, job' = [job EXCEPT ![p] = j], j.pc \in {"latest", "download"},
             j.cmd = job[p].cmd, j.how = job[p].how, j.alone = job[p].alone
      PROVE  Undisturbed'
  <2>1. job'[p] = j
    BY <1>3 DEF IInv
  <2>2. OnItsWay(p)'
    BY <1>2, <1>3, <2>1 DEF OnItsWay, At, Doing, Installs
  <2> QED BY <1>1, <1>3, <2>2, ReadsUndisturbed
<1>4. ASSUME NEW s
      PROVE  LET j == [job[p] EXCEPT !.pc = "latest", !.status = s] IN
             /\ j.pc \in {"latest", "download"} /\ j.cmd = job[p].cmd /\ j.how = job[p].how
             /\ j.alone = job[p].alone
  BY <1>1 DEF Job
<1>5. ASSUME NEW v
      PROVE  LET j == [job[p] EXCEPT !.pc = "download", !.ver = v] IN
             /\ j.pc \in {"latest", "download"} /\ j.cmd = job[p].cmd /\ j.how = job[p].how
             /\ j.alone = job[p].alone
  BY <1>1 DEF Job
<1>6. \/ \E ok \in BOOLEAN : End(p, ok)
      \/ \E s : job' = [job EXCEPT ![p] = [job[p] EXCEPT !.pc = "latest", !.status = s]]
      \/ \E v : job' = [job EXCEPT ![p] = [job[p] EXCEPT !.pc = "download", !.ver = v]]
  BY DEF GetPlugin, GetLatestVersion, FetchManifest
<1> QED BY <1>1, <1>3, <1>4, <1>5, <1>6, EndsUndisturbed

\* Self update lists the releases and settles on one.
LEMMA ReleasesUndisturbed ==
  ASSUME IInv, Undisturbed, NEW p \in Procs, ListReleases(p) \/ Resolve(p)
  PROVE  Undisturbed'
<1>1. job[p] \in Job /\ job[p].cmd = "self" /\ job[p].pc # "idle"
  BY Busy DEF ListReleases, Resolve, At, IInv, Sound
<1>2. ASSUME NEW j, job' = [job EXCEPT ![p] = j], j.pc \in {"resolve", "download"},
             j.cmd = "self", j.alone = job[p].alone
      PROVE  Undisturbed'
  <2>1. job'[p] = j
    BY <1>2 DEF IInv
  <2>2. OnItsWay(p)'
    BY <1>2, <2>1 DEF OnItsWay, At, Doing, Fetching, Checked
  <2> QED BY <1>1, <1>2, <2>2, ReadsUndisturbed
<1>3. CASE ListReleases(p)
  <2> DEFINE j == [job[p] EXCEPT !.pc = "resolve", !.seen = releases]
  <2>1. job' = [job EXCEPT ![p] = j]
    BY <1>3 DEF ListReleases
  <2>2. j.pc = "resolve" /\ j.cmd = "self" /\ j.alone = job[p].alone
    BY <1>1 DEF Job
  <2> QED BY <1>2, <2>1, <2>2
<1>4. CASE Resolve(p)
  <2> DEFINE j(v) == [job[p] EXCEPT !.pc = "download", !.ver = v]
  <2>1. (\E ok \in BOOLEAN : End(p, ok)) \/ \E v : job' = [job EXCEPT ![p] = j(v)]
    BY <1>4 DEF Resolve
  <2>2. \A v : j(v).pc = "download" /\ j(v).cmd = "self" /\ j(v).alone = job[p].alone
    BY <1>1 DEF Job
  <2> HIDE DEF j
  <2> QED BY <1>1, <1>2, <2>1, <2>2, EndsUndisturbed
<1> QED BY <1>3, <1>4

\* What a command does next depends on what it is.
LEMMA LoadUndisturbed ==
  ASSUME IInv, Undisturbed, NEW p \in Procs, LoadRecord(p)
  PROVE  Undisturbed'
<1>1. job[p] \in Job /\ job[p].cmd \in {"update", "remove", "info"} /\ job[p].pc # "idle"
  BY Busy DEF LoadRecord, At, IInv, Sound
<1>2. CASE End(p, FALSE)
  BY <1>1, <1>2, EndsUndisturbed
<1>3. CASE ~End(p, FALSE)
  <2> DEFINE how == IF Doing(p, "update") THEN "registry" ELSE record.how
             pc == [update |-> "plugin", remove |-> "unlink", info |-> "ask"][job[p].cmd]
             j == [job[p] EXCEPT !.ver = record.ver, !.how = how, !.pc = pc]
  <2>1. job' = [job EXCEPT ![p] = j] /\ job'[p] = j
    BY <1>3 DEF LoadRecord, IInv
  <2>2. j.pc = pc /\ j.how = how /\ j.cmd = job[p].cmd /\ j.alone = job[p].alone
    BY <1>1 DEF Job
  <2>3. \/ job[p].cmd = "update" /\ pc = "plugin" /\ how = "registry"
        \/ job[p].cmd = "remove" /\ pc = "unlink"
        \/ job[p].cmd = "info" /\ pc = "ask"
    BY <1>1 DEF Doing
  <2> HIDE DEF pc, how
  <2>4. OnItsWay(p)'
    BY <2>1, <2>2, <2>3 DEF OnItsWay, At, Doing, Installs, Fetching, Checked
  <2> QED BY <1>1, <2>1, <2>2, <2>3, <2>4, ReadsUndisturbed
<1> QED BY <1>2, <1>3

\* Downloading, checking and copying.
LEMMA DownloadsUndisturbed ==
  ASSUME IInv, Undisturbed, NEW p \in Procs,
         \/ Download(p) \/ Verify(p) \/ Unpack(p) \/ CheckMetadata(p)
         \/ CreateNew(p) \/ CopyNew(p)
  PROVE  Undisturbed'
<1>1. job[p].pc \in Fetching /\ job[p].pc # "idle"
  BY DEF Download, Verify, Unpack, CheckMetadata, CreateNew, CopyNew, At, Fetching, Checked
<1>2. \/ End(p, FALSE)
      \/ \E pc \in {"verify", "unpack", "metadata", "replace", "copy", "renameNew"} : Goto(p, pc)
  BY DEF Download, Verify, Unpack, CheckMetadata, CreateNew, CopyNew, GivesUp
<1>3. {"verify", "unpack", "metadata", "replace", "copy", "renameNew"} \subseteq Fetching
  BY DEF Fetching, Checked
<1> QED BY <1>1, <1>2, <1>3, EndsUndisturbed, FetchesUndisturbed

\* What is renamed into place is what the record will say.
LEMMA PutsUndisturbed ==
  ASSUME IInv, Undisturbed, NEW p \in Procs, Rename(p) \/ RenameNew(p)
  PROVE  Undisturbed'
<1>1. /\ job[p] \in Job /\ job[p].pc \in Fetching /\ job[p].pc # "idle"
      /\ Rename(p) => tmp[p] = job[p].ver
  BY FetchingKnows DEF Rename, RenameNew, At, Fetching, Checked
<1>2. RenameNew(p) => near[p] = job[p].ver
  BY DEF IInv, Sound, RenameNew, At
<1>3. CASE \E ok \in BOOLEAN : End(p, ok)
  BY <1>1, <1>3, EndsUndisturbed
<1>4. CASE Goto(p, "create")
  BY <1>1, <1>4, FetchesUndisturbed DEF Fetching, Checked
<1>5. CASE ~Doing(p, "self") /\ Put(p, job[p].ver) /\ Goto(p, "record")
  <2>1. Installs(p) /\ job[p].how # "local"
    BY <1>1, <1>5 DEF Undisturbed, OnItsWay
  <2>2. dest'[Plugin] = job[p].ver
    BY <1>5 DEF Put, Target, Targets, IInv, Data
  <2>3. OnItsWay(p)' /\ StillThere(p)'
    BY <1>1, <1>5, <2>1, <2>2, SameCommand
       DEF OnItsWay, StillThere, At, Doing, Installs, Fetching, Checked
  <2> QED BY <1>1, <1>5, <2>3, WritesUndisturbed DEF Written
<1> QED BY <1>1, <1>2, <1>3, <1>4, <1>5 DEF Rename, RenameNew, Replaced

\* A link goes into place before the record that says so.
LEMMA LinkUndisturbed ==
  ASSUME IInv, Undisturbed, NEW p \in Procs, LinkLocal(p)
  PROVE  Undisturbed'
<1>1. job[p] \in Job /\ job[p].pc # "idle" /\ job[p].pc = "local"
  BY Busy DEF LinkLocal, At
<1>2. CASE End(p, FALSE)
  BY <1>1, <1>2, EndsUndisturbed
<1>3. CASE ~End(p, FALSE)
  <2> DEFINE j == [job[p] EXCEPT !.pc = "record", !.ver = LocalVersion]
  <2>1. dest' = [dest EXCEPT ![Plugin] = Link] /\ job' = [job EXCEPT ![p] = j] /\ job'[p] = j
    BY <1>3 DEF LinkLocal, IInv
  <2>2. j.pc = "record" /\ j.cmd = job[p].cmd /\ j.how = job[p].how /\ j.alone = job[p].alone
    BY <1>1 DEF Job
  <2>3. Installs(p) /\ job[p].how = "local"
    BY <1>1 DEF Undisturbed, OnItsWay, At
  <2>4. dest'[Plugin] = Link
    BY <2>1 DEF IInv, Data, Targets
  <2> HIDE DEF j
  <2>5. OnItsWay(p)' /\ StillThere(p)'
    BY <2>1, <2>2, <2>3, <2>4 DEF OnItsWay, StillThere, At, Doing, Installs, Fetching, Checked
  <2>6. Alone(p) \/ ~Alone(p)'
    BY <1>1, <2>1, <2>2 DEF Alone, Idle
  <2> QED BY <1>1, <2>1, <2>5, <2>6, OthersWait
<1> QED BY <1>2, <1>3

\* The record is saved when the program is there, and removed when it is not.
LEMMA RecordUndisturbed ==
  ASSUME IInv, Undisturbed, NEW p \in Procs, SaveRecord(p) \/ RemoveRecord(p)
  PROVE  Undisturbed'
<1>1. job[p].pc \in {"record", "forget"} /\ job[p].pc # "idle" /\ job[p] \in Job
  BY WritingKnows DEF SaveRecord, RemoveRecord, At, Written
<1>2. CASE End(p, FALSE)
  BY <1>1, <1>2, EndsUndisturbed
<1>3. CASE SaveRecord(p) /\ ~End(p, FALSE)
  <2>1. At(p, "record") /\ record' = NewRecord(p) /\ dest' = dest /\ Goto(p, "meta")
    BY <1>3 DEF SaveRecord
  <2>2. Installs(p) /\ (Alone(p) => StillThere(p))
    BY <2>1 DEF Undisturbed, OnItsWay
  <2>3. OnItsWay(p)' /\ (Alone(p) => StillThere(p)')
    BY <1>1, <2>1, <2>2, SameCommand
       DEF OnItsWay, StillThere, At, Doing, Installs, NewRecord, Fetching, Checked
  <2> QED BY <1>1, <2>1, <2>3, WritesUndisturbed DEF Written
<1>4. CASE RemoveRecord(p) /\ ~End(p, FALSE)
  <2>1. At(p, "forget") /\ record' = Nothing /\ dest' = dest /\ Goto(p, "meta")
    BY <1>4 DEF RemoveRecord
  <2>2. Doing(p, "remove") /\ (Alone(p) => StillThere(p))
    BY <2>1 DEF Undisturbed, OnItsWay, At
  <2>3. OnItsWay(p)' /\ (Alone(p) => StillThere(p)')
    BY <1>1, <2>1, <2>2, SameCommand DEF OnItsWay, StillThere, At, Doing, Installs, Fetching, Checked
  <2> QED BY <1>1, <2>1, <2>3, WritesUndisturbed DEF Written
<1> QED BY <1>2, <1>3, <1>4

\* Remove forgets a program once it is gone.
LEMMA UnlinkUndisturbed ==
  ASSUME IInv, Undisturbed, NEW p \in Procs, Unlink(p)
  PROVE  Undisturbed'
<1>1. job[p].pc = "unlink" /\ job[p].pc # "idle" /\ job[p] \in Job
  BY WritingKnows DEF Unlink, At, Written
<1>2. CASE End(p, FALSE)
  BY <1>1, <1>2, EndsUndisturbed
<1>3. CASE dest' = [dest EXCEPT ![Plugin] = Nothing] /\ Goto(p, "forget")
  <2>1. Doing(p, "remove") /\ dest'[Plugin] = Nothing
    BY <1>1, <1>3 DEF Undisturbed, OnItsWay, IInv, Data, Targets
  <2>2. OnItsWay(p)' /\ StillThere(p)'
    BY <1>1, <1>3, <2>1, SameCommand DEF OnItsWay, StillThere, At, Doing, Installs, Fetching, Checked
  <2> QED BY <1>1, <1>3, <2>2, WritesUndisturbed DEF Written
<1> QED BY <1>2, <1>3 DEF Unlink

\* Info never writes where a program is.
LEMMA InfoUndisturbed ==
  ASSUME IInv, Undisturbed, NEW p \in Procs, InfoAsks(p)
  PROVE  Undisturbed'
<1>1. job[p].pc = "ask" /\ job[p].pc # "idle" /\ job[p] \in Job
  BY WritingKnows DEF InfoAsks, At, Written
<1>2. CASE End(p, TRUE)
  BY <1>1, <1>2, EndsUndisturbed
<1>3. CASE Goto(p, "status")
  <2>1. Doing(p, "info")
    BY <1>1 DEF Undisturbed, OnItsWay
  <2>2. OnItsWay(p)' /\ StillThere(p)'
    BY <1>1, <1>3, <2>1, SameCommand DEF OnItsWay, StillThere, At, Doing, Installs, Fetching, Checked
  <2> QED BY <1>1, <1>3, <2>2, WritesUndisturbed DEF Written
<1> QED BY <1>2, <1>3 DEF InfoAsks

\* These end the command, whatever comes of it.
LEMMA LastStepsUndisturbed ==
  ASSUME IInv, Undisturbed, NEW p \in Procs,
         UpdateEntry(p) \/ InfoSaves(p) \/ Dispatch(p) \/ Crash(p)
  PROVE  Undisturbed'
<1>1. job[p].pc # "idle" /\ \E ok \in BOOLEAN : End(p, ok)
  BY DEF UpdateEntry, InfoSaves, Dispatch, Crash, At
<1> QED BY <1>1, EndsUndisturbed

\* A command that begins has written nothing, and those that run are no longer
\* alone.
LEMMA BeginsUndisturbed ==
  ASSUME IInv, Undisturbed, NEW p \in Procs, NEW pc, NEW cmd, NEW how, NEW asked,
         Begin(p, pc, cmd, how, asked),
         \/ pc \in {"plugin", "manifest"} /\ cmd = "install" /\ how # "local"
         \/ pc = "local" /\ cmd = "install" /\ how = "local"
         \/ pc \in {"load", "list"}
         \/ pc = "find" /\ cmd = "run"
  PROVE  Undisturbed'
<1> DEFINE alone == \A r \in Procs \ {p} : job[r] = Idle
           new == [pc |-> pc, cmd |-> cmd, how |-> how, ver |-> asked, current |-> dest[Self],
                   seen |-> {}, status |-> "active", alone |-> alone]
<1>1. job'[p] = new
  BY DEF Begin
<1>2. \A q \in Procs \ {p} :
        job'[q] = IF job[q] = Idle THEN Idle ELSE [job[q] EXCEPT !.alone = FALSE]
  BY DEF Begin
<1>3. OnItsWay(p)' /\ StillThere(p)'
  BY <1>1 DEF OnItsWay, StillThere, At, Doing, Installs, Fetching, Checked
<1>4. Alone(p)' => \A q \in Procs \ {p} : job'[q] = Idle
  <2>1. Alone(p)' => alone
    BY <1>1 DEF Alone
  <2> QED BY <2>1, <1>2
<1>5. ASSUME NEW q \in Procs \ {p}
      PROVE  OnItsWay(q)' /\ ~Alone(q)'
  <2>1. CASE job[q] = Idle
    BY <1>2, <2>1 DEF OnItsWay, At, Idle, Alone, Fetching, Checked
  <2>2. CASE job[q] # Idle
    <3>1. job[q] \in Job /\ job'[q] = [job[q] EXCEPT !.alone = FALSE]
      BY <1>2, <2>2 DEF IInv
    <3>2. /\ job'[q].pc = job[q].pc /\ job'[q].cmd = job[q].cmd /\ job'[q].how = job[q].how
          /\ ~job'[q].alone
      BY <3>1 DEF Job
    <3> QED BY <3>2 DEF Undisturbed, OnItsWay, At, Doing, Installs, Alone
  <2> QED BY <2>1, <2>2
<1> QED BY <1>3, <1>4, <1>5 DEF Undisturbed

\* All commands begin this way.
LEMMA CommandsUndisturbed ==
  ASSUME IInv, Undisturbed, NEW p \in Procs,
         \/ InstallCmd(p) \/ UpdateCmd(p) \/ RemoveCmd(p) \/ InfoCmd(p) \/ RunCmd(p)
         \/ SelfUpdateCmd(p)
  PROVE  Undisturbed'
<1>1. CASE InstallCmd(p)
  <2>1. PICK how \in DOMAIN Sources : Begin(p, Sources[how], "install", how, 0)
    BY <1>1 DEF InstallCmd
  <2>2. \/ how = "local" /\ Sources[how] = "local"
        \/ how # "local" /\ Sources[how] \in {"plugin", "manifest"}
    BY DEF Sources
  <2> QED BY <2>1, <2>2, BeginsUndisturbed
<1>2. CASE UpdateCmd(p) \/ RemoveCmd(p) \/ InfoCmd(p)
  BY <1>2, BeginsUndisturbed DEF UpdateCmd, RemoveCmd, InfoCmd
<1>3. CASE RunCmd(p)
  BY <1>3, BeginsUndisturbed DEF RunCmd
<1>4. CASE SelfUpdateCmd(p)
  BY <1>4, BeginsUndisturbed DEF SelfUpdateCmd
<1> QED BY <1>1, <1>2, <1>3, <1>4

\* Every step keeps it.
LEMMA StepUndisturbed ==
  ASSUME IInv, Undisturbed, [Next]_vars
  PROVE  Undisturbed'
<1>1. CASE UNCHANGED <<dest, record, job>>
  BY <1>1 DEF Undisturbed, OnItsWay, Alone, StillThere, At, Doing, Installs, NewRecord
<1>2. UNCHANGED vars => UNCHANGED <<dest, record, job>>
  BY DEF vars, files
<1>3. Released \/ RegistryChanges \/ CacheExpires => UNCHANGED <<dest, record, job>>
  BY DEF Released, RegistryChanges, CacheExpires, Elsewhere, files
<1> QED BY <1>1, <1>2, <1>3, CommandsUndisturbed, AsksUndisturbed, ReleasesUndisturbed, LoadUndisturbed,
           DownloadsUndisturbed, PutsUndisturbed, LinkUndisturbed, RecordUndisturbed, UnlinkUndisturbed,
           InfoUndisturbed, LastStepsUndisturbed DEF Next

\* Only the last step of a command that installs or removes succeeds.
LEMMA Finishes ==
  ASSUME IInv, Undisturbed, [Next]_vars, NEW p \in Procs, job[p] # Idle, job'[p] = Idle, result'.ok,
         Installs(p) \/ Doing(p, "remove")
  PROVE  /\ At(p, "meta") /\ UNCHANGED <<dest, record>>
         /\ meta' = IF Doing(p, "remove") THEN Nothing ELSE Metadata(p)
<1>1. job[p] \in Job /\ job[p].pc # "idle" /\ job' # job
  BY DEF IInv, Job, PCs, Fetching, Checked, Written, Asking
<1>2. ASSUME NEW q \in Procs, NEW ok, End(q, ok) PROVE ok
  BY <1>2 DEF End
<1>3. ASSUME NEW q \in Procs, NEW ok, End(q, ok) PROVE q = p
  BY <1>3 DEF End, IInv
<1>4. ASSUME NEW q \in Procs, NEW pc, pc # "idle", Goto(q, pc) PROVE FALSE
  BY <1>1, <1>4 DEF Goto, IInv, Job, Idle
<1>5. ASSUME NEW q \in Procs, NEW j, job' = [job EXCEPT ![q] = j], j.pc # "idle" PROVE FALSE
  BY <1>1, <1>5 DEF IInv, Idle
<1>6. ASSUME NEW q \in Procs,
             \/ InstallCmd(q) \/ UpdateCmd(q) \/ RemoveCmd(q) \/ InfoCmd(q) \/ RunCmd(q)
             \/ SelfUpdateCmd(q)
      PROVE  FALSE
  <2>1. PICK pc, cmd, how, asked : Begin(q, pc, cmd, how, asked)
    BY <1>6 DEF InstallCmd, UpdateCmd, RemoveCmd, InfoCmd, RunCmd, SelfUpdateCmd
  <2>2. job'[p] = [job[p] EXCEPT !.alone = FALSE]
    BY <1>1, <2>1 DEF Begin, At
  <2>3. job'[p].pc = job[p].pc
    BY <1>1, <2>2 DEF Job
  <2> QED BY <1>1, <2>3 DEF Idle
<1>7. ASSUME NEW q \in Procs, GetPlugin(q) \/ GetLatestVersion(q) \/ FetchManifest(q) PROVE FALSE
  <2>1. job[q] \in Job
    BY <1>7, Busy DEF GetPlugin, GetLatestVersion, FetchManifest, At
  <2>2. \/ End(q, FALSE)
        \/ \E s : job' = [job EXCEPT ![q] = [job[q] EXCEPT !.pc = "latest", !.status = s]]
        \/ \E v : job' = [job EXCEPT ![q] = [job[q] EXCEPT !.pc = "download", !.ver = v]]
    BY <1>7 DEF GetPlugin, GetLatestVersion, FetchManifest
  <2>3. \A s, v : /\ [job[q] EXCEPT !.pc = "latest", !.status = s].pc = "latest"
                  /\ [job[q] EXCEPT !.pc = "download", !.ver = v].pc = "download"
    BY <2>1 DEF Job
  <2> QED BY <1>2, <1>5, <2>2, <2>3
<1>8. ASSUME NEW q \in Procs, ListReleases(q) \/ Resolve(q) PROVE FALSE
  <2>1. job[q] \in Job /\ job[q].cmd = "self"
    BY <1>8, Busy DEF ListReleases, Resolve, At, IInv, Sound
  <2>2. \/ \E ok \in BOOLEAN : End(q, ok)
        \/ job' = [job EXCEPT ![q] = [job[q] EXCEPT !.pc = "resolve", !.seen = releases]]
        \/ \E v : job' = [job EXCEPT ![q] = [job[q] EXCEPT !.pc = "download", !.ver = v]]
    BY <1>8 DEF ListReleases, Resolve
  <2>3. /\ [job[q] EXCEPT !.pc = "resolve", !.seen = releases].pc = "resolve"
        /\ \A v : [job[q] EXCEPT !.pc = "download", !.ver = v].pc = "download"
    BY <2>1 DEF Job
  <2> QED BY <1>3, <1>5, <2>1, <2>2, <2>3 DEF Installs, Doing
<1>9. ASSUME NEW q \in Procs, LoadRecord(q) PROVE FALSE
  <2> DEFINE how == IF Doing(q, "update") THEN "registry" ELSE record.how
             pc == [update |-> "plugin", remove |-> "unlink", info |-> "ask"][job[q].cmd]
             j == [job[q] EXCEPT !.ver = record.ver, !.how = how, !.pc = pc]
  <2>1. job[q] \in Job /\ job[q].cmd \in {"update", "remove", "info"}
    BY <1>9, Busy DEF LoadRecord, At, IInv, Sound
  <2>2. End(q, FALSE) \/ job' = [job EXCEPT ![q] = j]
    BY <1>9 DEF LoadRecord
  <2>3. j.pc = pc /\ pc # "idle"
    BY <2>1 DEF Job
  <2> QED BY <1>2, <1>5, <2>2, <2>3
<1>10. ASSUME NEW q \in Procs, LinkLocal(q) PROVE FALSE
  <2> DEFINE j == [job[q] EXCEPT !.pc = "record", !.ver = LocalVersion]
  <2>1. job[q] \in Job
    BY <1>10, Busy DEF LinkLocal, At
  <2>2. End(q, FALSE) \/ job' = [job EXCEPT ![q] = j]
    BY <1>10 DEF LinkLocal
  <2>3. j.pc = "record"
    BY <2>1 DEF Job
  <2> QED BY <1>2, <1>5, <2>2, <2>3
<1>11. ASSUME NEW q \in Procs,
              \/ Download(q) \/ Verify(q) \/ Unpack(q) \/ CheckMetadata(q) \/ CreateNew(q)
              \/ CopyNew(q) \/ SaveRecord(q) \/ Unlink(q) \/ RemoveRecord(q) \/ Crash(q)
       PROVE  FALSE
  <2>1. \/ End(q, FALSE)
        \/ \E pc \in {"verify", "unpack", "metadata", "replace", "copy", "renameNew", "meta", "forget"} :
             Goto(q, pc)
    BY <1>11 DEF Download, Verify, Unpack, CheckMetadata, CreateNew, CopyNew, GivesUp, SaveRecord,
                 Unlink, RemoveRecord, Crash
  <2> QED BY <1>2, <1>4, <2>1
<1>12. ASSUME NEW q \in Procs, Rename(q) \/ RenameNew(q) PROVE FALSE
  <2>1. \/ End(q, FALSE) \/ Goto(q, "create") \/ Goto(q, "record")
        \/ Doing(q, "self") /\ End(q, TRUE)
    BY <1>12 DEF Rename, RenameNew, Replaced
  <2> QED BY <1>2, <1>3, <1>4, <2>1 DEF Installs, Doing
<1>13. ASSUME NEW q \in Procs, InfoAsks(q) \/ InfoSaves(q) \/ Dispatch(q) PROVE FALSE
  <2>1. Doing(q, "info") \/ Doing(q, "run")
    BY <1>13 DEF InfoAsks, InfoSaves, Dispatch, At, Undisturbed, OnItsWay
  <2>2. Goto(q, "status") \/ \E ok \in BOOLEAN : End(q, ok)
    BY <1>13 DEF InfoAsks, InfoSaves, Dispatch
  <2> QED BY <1>3, <1>4, <2>1, <2>2 DEF Installs, Doing
<1>14. ~(Released \/ RegistryChanges \/ CacheExpires) /\ ~UNCHANGED vars
  BY <1>1 DEF Released, RegistryChanges, CacheExpires, Elsewhere, vars
<1>15. PICK q \in Procs : UpdateEntry(q)
  BY <1>6, <1>7, <1>8, <1>9, <1>10, <1>11, <1>12, <1>13, <1>14 DEF Next
<1>16. q = p
  BY <1>3, <1>15 DEF UpdateEntry
<1> QED BY <1>2, <1>15, <1>16 DEF UpdateEntry

\* A command that was alone and succeeds leaves a record of the program that is
\* in place and metadata that came from it, whatever earlier commands left
\* behind and whatever programs say of themselves.
THEOREM SuccessIsSettled == Spec => SuccessSettles
<1> DEFINE Settles(p) ==
      /\ job[p] # Idle /\ job'[p] = Idle /\ result'.ok /\ job[p].alone
      => /\ job[p].cmd \in {"install", "update"} =>
              /\ record' \notin {Nothing, Torn}
              /\ dest'[Plugin] = Recorded(record') /\ meta' = FetchMetadata(dest'[Plugin])
         /\ job[p].cmd = "remove" =>
              dest'[Plugin] = Nothing /\ record' = Nothing /\ meta' = Nothing
<1>1. Init => Undisturbed
  BY DEF Init, Undisturbed, OnItsWay, Alone, At, Idle, Fetching, Checked
<1>2. ASSUME IInv, Undisturbed, [Next]_vars PROVE \A p \in Procs : Settles(p)
  <2> SUFFICES ASSUME NEW p \in Procs, job[p] # Idle, job'[p] = Idle, result'.ok, job[p].alone,
                      Installs(p) \/ Doing(p, "remove")
               PROVE  Settles(p)
    BY DEF Installs, Doing
  <2>1. /\ At(p, "meta") /\ dest' = dest /\ record' = record
        /\ meta' = IF Doing(p, "remove") THEN Nothing ELSE Metadata(p)
    BY <1>2, Finishes
  <2>2. StillThere(p)
    BY <1>2 DEF Undisturbed, Alone
  <2>3. CASE Doing(p, "remove")
    BY <2>1, <2>2, <2>3 DEF StillThere, Doing
  <2>4. CASE Installs(p)
    <3>1. record = NewRecord(p) /\ ~Doing(p, "remove")
      BY <2>1, <2>2, <2>4 DEF StillThere, Installs, Doing
    <3>2. NewRecord(p) \notin {Nothing, Torn}
      <4>1. job[p] \in Job /\ job[p].ver \in Versions /\ OfPlugin(job[p])
        BY <1>2, <2>1, WritingKnows DEF At, Written
      <4>2. NewRecord(p) \in [ver : Versions, how : {"registry", "manifest", "local"},
                              status : {"active", "blocked"}]
        BY <4>1 DEF NewRecord, OfPlugin, Sources, Job, Statuses
      <4> QED BY <4>2, ProgramsAssumption
    <3>3. NewRecord(p).ver = job[p].ver /\ NewRecord(p).how = job[p].how
      BY DEF NewRecord
    <3>4. dest[Plugin] = Recorded(record) /\ meta' = Metadata(p)
      BY <2>1, <2>2, <2>4, <3>1, <3>3 DEF StillThere, Installs, Doing, Recorded
    <3>5. job[p].ver \in Versions
      BY <1>2, <2>1, WritingKnows DEF At, Written
    <3>6. Metadata(p) = FetchMetadata(Recorded(record))
      BY <3>1, <3>3, <3>5, ProgramsAssumption DEF Metadata, FetchMetadata, Recorded
    <3> QED BY <2>1, <2>4, <3>1, <3>2, <3>4, <3>6 DEF Installs, Doing
  <2> QED BY <2>3, <2>4
<1>3. IInv /\ Undisturbed /\ [Next]_vars => Undisturbed'
  BY StepUndisturbed
<1> QED BY <1>1, <1>2, <1>3, Invariant, PTL DEF Spec, SuccessSettles
=============================================================================
