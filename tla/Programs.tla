------------------------------ MODULE Programs ------------------------------
(***************************************************************************)
(* Plugins (internal/services/plugin) and abstrax itself                   *)
(* (internal/services/selfupdate): commands that download a program, check *)
(* it, put it in place and write down what they did.                       *)
(*                                                                         *)
(* Commands run as processes and nothing keeps two of them apart.  Each    *)
(* step is one file operation or one request; a process may be killed      *)
(* between any two.  A file's content is the version of the program in it. *)
(***************************************************************************)
EXTENDS Integers, FiniteSets

CONSTANTS
  Procs,
  Plugin, Self,     \* the paths of a plugin and of abstrax
  Versions,         \* of either
  Major(_),         \* the major part of a version
  Reports(_),       \* the version a published program says it is
  LocalVersion,     \* the version a plugin that is built locally says it is
  Nothing, Link,    \* no file; a link to a local plugin
  Partial, Junk,    \* half a program; something else than was asked for
  Torn,             \* a JSON file that does not parse
  Faults,           \* the steps at which a program or a request may fail
  MaxCommands       \* bound on the number of commands

\* Any number of releases has a newest one.
ASSUME ProgramsAssumption ==
  /\ Versions \subseteq Nat \ {0} /\ {1, 2, LocalVersion} \subseteq Versions
  /\ \A v \in Versions : Reports(v) \in Versions
  /\ \A vs \in (SUBSET Versions) \ {{}} : \E v \in vs : \A w \in vs : w <= v
  /\ {Nothing, Link, Partial, Junk, Torn} \cap Versions = {}
  /\ Link # Nothing /\ Plugin # Self /\ MaxCommands \in Nat
  /\ \A f \in {Nothing, Torn} :
       f \notin [ver : Versions, how : {"registry", "manifest", "local"}, status : {"active", "blocked"}]

VARIABLES
  dest,      \* what is at the path of each program
  near,      \* each process's new file next to the path
  tmp,       \* each process's download
  record,    \* the plugin's installation record
  meta,      \* the plugin's entry in the metadata cache: a version
  registry,  \* what the registry says of the plugin
  cache,     \* answers of the registry that were kept
  releases,  \* releases on GitHub
  job,       \* what each process does
  result,    \* how the last process ended
  ran        \* number of commands so far

files == <<dest, near, record, meta>>
net == <<registry, cache, releases>>
vars == <<files, tmp, net, job, result, ran>>

Targets == {Plugin, Self}
Complete == Versions \cup {Link}
Atomic == INSTANCE Replacement

Fails(step) == step \in Faults
Newest(vs) == CHOOSE v \in vs : \A w \in vs : w <= v

Idle == [pc |-> "idle"]
\* Nothing is installed, or a plugin that the registry has blocked since.
Init ==
  /\ \/ dest = [t \in Targets |-> IF t = Self THEN 1 ELSE Nothing]
        /\ record = Nothing /\ meta = Nothing
     \/ dest = [t \in Targets |-> 1]
        /\ record = [ver |-> 1, how |-> "registry", status |-> "blocked"]
        /\ meta = Reports(1)
  /\ near = [p \in Procs |-> Nothing] /\ tmp = [p \in Procs |-> Nothing]
  /\ registry = [ver |-> 1, status |-> "active"]
  /\ cache = [plugin |-> Nothing, latest |-> Nothing]
  /\ releases = {1, 2}
  /\ job = [p \in Procs |-> Idle]
  /\ result = [cmd |-> "none", ok |-> TRUE, alone |-> TRUE] /\ ran = 0

-----------------------------------------------------------------------------
(* Processes. *)

At(p, pc) == job[p].pc = pc
Goto(p, pc) == job' = [job EXCEPT ![p].pc = pc] /\ UNCHANGED <<result, ran>>
Doing(p, cmd) == job[p].cmd = cmd

\* alone: no other command has been running during this one.
Begin(p, pc, cmd, how, asked) ==
  /\ At(p, "idle") /\ ran < MaxCommands
  /\ ran' = ran + 1
  /\ job' = [q \in Procs |->
       IF q = p THEN [pc |-> pc, cmd |-> cmd, how |-> how, ver |-> asked,
                      current |-> dest[Self], seen |-> {}, status |-> "active",
                      alone |-> \A r \in Procs \ {p} : job[r] = Idle]
       ELSE IF job[q] = Idle THEN Idle ELSE [job[q] EXCEPT !.alone = FALSE]]
  /\ UNCHANGED <<files, tmp, net, result>>

End(p, ok) ==
  /\ result' = [cmd |-> job[p].cmd, ok |-> ok, alone |-> job[p].alone]
  /\ job' = [job EXCEPT ![p] = Idle]
  /\ UNCHANGED ran

\* cli/plugin.go, cli/self.go
Sources == [registry |-> "plugin", manifest |-> "manifest", local |-> "local"]
InstallCmd(p) == \E how \in DOMAIN Sources : Begin(p, Sources[how], "install", how, 0)
UpdateCmd(p)  == Begin(p, "load", "update", "registry", 0)
RemoveCmd(p)  == Begin(p, "load", "remove", "registry", 0)
InfoCmd(p)    == Begin(p, "load", "info", "registry", 0)
RunCmd(p)     == \E how \in {"allowBlocked", "plain"} : Begin(p, "find", "run", how, 0)
SelfUpdateCmd(p) ==
  \/ \E how \in {"compatible", "breaking"} : Begin(p, "list", "self", how, 0)
  \/ \E v \in Versions : Begin(p, "list", "self", "asked", v)

-----------------------------------------------------------------------------
(* The registry, and what is kept of its answers. *)

\* fetch: an answer that is not too old; else a new one, which is kept (a write
\* that fails, which nobody hears of, may leave a file that does not parse and
\* counts as none); else, if there is none, an old one.
Answers(kept, live) ==
  IF kept # Nothing /\ kept.fresh THEN {[body |-> kept.body, kept |-> kept]}
  ELSE {[body |-> live, kept |-> k] :
          k \in {[body |-> live, fresh |-> TRUE]} \cup
               (IF Fails("record") THEN {kept, Nothing} ELSE {})} \cup
       IF Fails("registry")
       THEN {[body |-> IF kept = Nothing THEN Nothing ELSE kept.body, kept |-> kept]}
       ELSE {}

\* GetPlugin; a blocked plugin is not installed.
GetPlugin(p) ==
  /\ At(p, "plugin")
  /\ \E a \in Answers(cache.plugin, registry.status) :
       /\ cache' = [cache EXCEPT !.plugin = a.kept]
       /\ IF a.body \in {Nothing, "blocked"} THEN End(p, FALSE)
          ELSE /\ job' = [job EXCEPT ![p].pc = "latest", ![p].status = a.body]
               /\ UNCHANGED <<result, ran>>
  /\ UNCHANGED <<files, tmp, registry, releases>>

GetLatestVersion(p) ==
  /\ At(p, "latest")
  /\ \E a \in Answers(cache.latest, registry.ver) :
       /\ cache' = [cache EXCEPT !.latest = a.kept]
       /\ IF a.body = Nothing THEN End(p, FALSE)
          ELSE /\ job' = [job EXCEPT ![p].pc = "download", ![p].ver = a.body]
               /\ UNCHANGED <<result, ran>>
  /\ UNCHANGED <<files, tmp, registry, releases>>

\* fetchManifest, which may name any version.
FetchManifest(p) ==
  /\ At(p, "manifest")
  /\ \/ \E v \in Versions :
          job' = [job EXCEPT ![p].pc = "download", ![p].ver = v] /\ UNCHANGED <<result, ran>>
     \/ Fails("registry") /\ End(p, FALSE)
  /\ UNCHANGED <<files, tmp, net>>

-----------------------------------------------------------------------------
(* Releases of abstrax. *)

\* publishedVersions.
ListReleases(p) ==
  /\ At(p, "list")
  /\ job' = [job EXCEPT ![p].pc = "resolve", ![p].seen = releases]
  /\ UNCHANGED <<files, tmp, net, result, ran>>

\* Mutant of LatestCompatible: any newer version will do.
LatestNewer(current, published) == {v \in published : v > current}
LatestCompatible(current, published) ==
  {v \in published : v > current /\ Major(v) = Major(current)}

\* resolveVersion: none is the answer that abstrax is up to date.
ResolveVersion(current, how, asked, published) ==
  IF how = "asked" THEN {asked} \cap LatestNewer(current, published)
  ELSE LET vs == IF how = "breaking" THEN LatestNewer(current, published)
                 ELSE LatestCompatible(current, published)
       IN  IF vs = {} THEN {} ELSE {Newest(vs)}

\* A version that is asked for has to be in two lists, read one after the other.
VersionExists(p) == job[p].ver \in releases \cap job[p].seen
Resolve(p) ==
  /\ At(p, "resolve")
  /\ LET vs == ResolveVersion(job[p].current, job[p].how, job[p].ver, job[p].seen)
     IN  IF job[p].how = "asked" /\ ~VersionExists(p)
         THEN End(p, FALSE)
         ELSE IF vs = {} THEN End(p, TRUE)
         ELSE /\ job' = [job EXCEPT ![p].pc = "download", ![p].ver = Newest(vs)]
              /\ UNCHANGED <<result, ran>>
  /\ UNCHANGED <<files, tmp, net>>

-----------------------------------------------------------------------------
(* Downloading and checking. *)

\* downloadToTemp, downloadFile: half a body is an error.
Download(p) ==
  /\ At(p, "download")
  /\ \/ \E body \in {job[p].ver, Junk} :
          tmp' = [tmp EXCEPT ![p] = body] /\ Goto(p, "verify")
     \/ Fails("download") /\ UNCHANGED tmp /\ End(p, FALSE)
  /\ UNCHANGED <<files, net>>

\* Mutant of Verify: a checksum that differs is only reported.
VerifyLoosely(p) == At(p, "verify") /\ Goto(p, "unpack") /\ UNCHANGED <<files, tmp, net>>

\* verifyFileSHA256, verifyChecksum.  Temporary files go when a command ends.
ChecksumFits(p) == tmp[p] = job[p].ver
GivesUp(p) == tmp' = [tmp EXCEPT ![p] = Nothing] /\ End(p, FALSE)
Verify(p) ==
  /\ At(p, "verify")
  /\ \/ ChecksumFits(p) /\ UNCHANGED tmp /\ Goto(p, "unpack")
     \/ ~ChecksumFits(p) /\ GivesUp(p)
  /\ UNCHANGED <<files, net>>

\* resolveInstallBinary, extractBinary: the program in an archive.
Unpack(p) ==
  /\ At(p, "unpack")
  /\ \/ UNCHANGED tmp /\ Goto(p, IF Doing(p, "self") THEN "replace" ELSE "metadata")
     \/ Fails("unpack") /\ GivesUp(p)
  /\ UNCHANGED <<files, net>>

\* FetchMetadata and ValidateMetadata run the plugin before it is installed.
CheckMetadata(p) ==
  /\ At(p, "metadata")
  /\ \/ UNCHANGED tmp /\ Goto(p, "replace")
     \/ Fails("metadata") /\ GivesUp(p)
  /\ UNCHANGED <<files, net>>

-----------------------------------------------------------------------------
(* Putting a program in place. *)

Target(p) == IF Doing(p, "self") THEN Self ELSE Plugin
Put(p, content) == dest' = [dest EXCEPT ![Target(p)] = content]
\* Abstrax itself is done then; a plugin is written down.
Replaced(p) == IF Doing(p, "self") THEN End(p, TRUE) ELSE Goto(p, "record")

\* replaceExecutable, atomicInstall: a rename, if /tmp is on the same file
\* system.
Rename(p) ==
  /\ At(p, "replace")
  /\ \/ Put(p, tmp[p]) /\ tmp' = [tmp EXCEPT ![p] = Nothing] /\ Replaced(p)
     \/ Fails("rename") /\ UNCHANGED <<dest, tmp>> /\ Goto(p, "create")
  /\ UNCHANGED <<near, record, meta, net>>

\* Mutant of CreateNew: the copy goes to the path itself.
CreateHere(p) ==
  /\ At(p, "create")
  /\ Put(p, Partial) /\ near' = [near EXCEPT ![p] = Partial] /\ Goto(p, "copy")
  /\ UNCHANGED <<record, meta, tmp, net>>
\* Otherwise a copy next to the path, with the process id in its name.
CreateNew(p) ==
  /\ At(p, "create")
  /\ near' = [near EXCEPT ![p] = Partial] /\ Goto(p, "copy")
  /\ UNCHANGED <<dest, record, meta, tmp, net>>
CopyNew(p) ==
  /\ At(p, "copy")
  /\ \/ near' = [near EXCEPT ![p] = tmp[p]] /\ UNCHANGED tmp /\ Goto(p, "renameNew")
     \/ Fails("copy") /\ near' = [near EXCEPT ![p] = Nothing] /\ GivesUp(p)
  /\ UNCHANGED <<dest, record, meta, net>>
RenameNew(p) ==
  /\ At(p, "renameNew")
  /\ \/ Put(p, near[p]) /\ Replaced(p)
     \/ Fails("rename") /\ UNCHANGED dest /\ End(p, FALSE)
  /\ near' = [near EXCEPT ![p] = Nothing] /\ tmp' = [tmp EXCEPT ![p] = Nothing]
  /\ UNCHANGED <<record, meta, net>>

\* installFromPath, atomicSymlink: the link is renamed into place as well.
LinkFails == Fails("metadata") \/ Fails("rename")
LinkLocal(p) ==
  /\ At(p, "local")
  /\ \/ /\ dest' = [dest EXCEPT ![Plugin] = Link]
        /\ job' = [job EXCEPT ![p].pc = "record", ![p].ver = LocalVersion]
        /\ UNCHANGED <<result, ran>>
     \/ LinkFails /\ UNCHANGED dest /\ End(p, FALSE)
  /\ UNCHANGED <<near, record, meta, tmp, net>>

-----------------------------------------------------------------------------
(* The record and the metadata cache. *)

\* Mutant of NewRecord: an update keeps the version that was recorded.
FirstRecord(p) ==
  IF record \in {Nothing, Torn} THEN [ver |-> job[p].ver, how |-> job[p].how, status |-> job[p].status]
  ELSE [record EXCEPT !.how = job[p].how, !.status = job[p].status]
NewRecord(p) == [ver |-> job[p].ver, how |-> job[p].how, status |-> job[p].status]

\* Store.Save: a write that fails leaves a file that does not parse.
SaveRecord(p) ==
  /\ At(p, "record")
  /\ \/ record' = NewRecord(p) /\ Goto(p, "meta")
     \/ Fails("record") /\ record' = Torn /\ End(p, FALSE)
  /\ UNCHANGED <<dest, near, meta, tmp, net>>

\* The metadata that was read before the program was put in place.  Nothing
\* compares the version in it with the one that was asked for.
Metadata(p) == IF job[p].how = "local" THEN LocalVersion ELSE Reports(job[p].ver)

\* UpdateEntry, RemoveEntry: a cache that does not parse is an error.
UpdateEntry(p) ==
  /\ At(p, "meta")
  /\ IF meta = Torn THEN UNCHANGED meta /\ End(p, FALSE)
     ELSE \/ meta' = (IF Doing(p, "remove") THEN Nothing ELSE Metadata(p)) /\ End(p, TRUE)
          \/ Fails("record") /\ meta' = Torn /\ End(p, FALSE)
  /\ UNCHANGED <<dest, near, record, tmp, net>>

\* Store.Load, and what each command wants of the record: an update is an
\* install from the registry, wherever the plugin came from.
Updatable == record.how # "local"
LoadRecord(p) ==
  /\ At(p, "load")
  /\ IF record \in {Nothing, Torn} \/ (Doing(p, "update") /\ ~Updatable)
     THEN End(p, FALSE)
     ELSE /\ job' = [job EXCEPT ![p].ver = record.ver, ![p].how = IF Doing(p, "update") THEN "registry" ELSE record.how,
                     ![p].pc = [update |-> "plugin", remove |-> "unlink", info |-> "ask"][job[p].cmd]]
          /\ UNCHANGED <<result, ran>>
  /\ UNCHANGED <<files, tmp, net>>

-----------------------------------------------------------------------------
(* Remove, info and running a plugin. *)

\* A file that is gone already is fine.
Unlink(p) ==
  /\ At(p, "unlink")
  /\ \/ dest' = [dest EXCEPT ![Plugin] = Nothing] /\ Goto(p, "forget")
     \/ Fails("unlink") /\ UNCHANGED dest /\ End(p, FALSE)
  /\ UNCHANGED <<near, record, meta, tmp, net>>
RemoveRecord(p) ==
  /\ At(p, "forget")
  /\ IF record = Nothing THEN UNCHANGED record /\ End(p, FALSE)
     ELSE record' = Nothing /\ Goto(p, "meta")
  /\ UNCHANGED <<dest, near, meta, tmp, net>>

\* FetchMetadata: what a program says it is when it is run.
FetchMetadata(program) == IF program = Link THEN LocalVersion ELSE Reports(program)

\* Info asks the plugin and then the registry, and keeps what they say; that
\* it could not is no error.
InfoAsks(p) ==
  /\ At(p, "ask")
  /\ \/ dest[Plugin] # Nothing /\ meta # Torn
        /\ meta' = FetchMetadata(dest[Plugin])
     \/ (dest[Plugin] = Nothing \/ meta = Torn \/ Fails("metadata")) /\ UNCHANGED meta
     \/ dest[Plugin] # Nothing /\ meta # Torn /\ Fails("record") /\ meta' = Torn
  /\ IF job[p].how = "local" THEN End(p, TRUE) ELSE Goto(p, "status")
  /\ UNCHANGED <<dest, near, record, tmp, net>>
\* The record that was loaded is saved with a new status.
InfoSaves(p) ==
  /\ At(p, "status")
  /\ \E a \in Answers(cache.plugin, registry.status) :
       /\ cache' = [cache EXCEPT !.plugin = a.kept]
       /\ \/ record' = (IF a.body = Nothing THEN record
                        ELSE [ver |-> job[p].ver, how |-> job[p].how, status |-> a.body])
          \/ Fails("record") /\ a.body # Nothing /\ record' = Torn
  /\ End(p, TRUE)
  /\ UNCHANGED <<dest, near, meta, tmp, registry, releases>>

\* FindBinary, checkBlocked, Dispatch: without a record that can be read, nothing is
\* blocked.
Blocked == record \notin {Nothing, Torn} /\ record.status = "blocked"
Found == dest[Plugin] # Nothing
Dispatch(p) ==
  /\ At(p, "find")
  /\ \/ Found /\ (Blocked => job[p].how = "allowBlocked") /\ End(p, TRUE)
     \/ (~Found \/ (Blocked /\ job[p].how = "plain") \/ Fails("metadata"))
        /\ End(p, FALSE)
  /\ UNCHANGED <<files, tmp, net>>

-----------------------------------------------------------------------------
(* A process is killed.  A JSON file it was writing may be torn; its temporary *)
(* files stay, and no other process looks at them.                         *)
Crash(p) ==
  /\ ~At(p, "idle") /\ Fails("crash")
  /\ End(p, FALSE)
  /\ record' \in {record} \cup (IF job[p].pc \in {"record", "status"} THEN {Torn} ELSE {})
  /\ meta' \in {meta} \cup (IF job[p].pc \in {"meta", "ask"} THEN {Torn} ELSE {})
  /\ tmp' = [tmp EXCEPT ![p] = Nothing] /\ near' = [near EXCEPT ![p] = Nothing]
  /\ UNCHANGED <<dest, net>>

\* What others do: releases, the registry's status, time, a developer.
Elsewhere == UNCHANGED <<files, tmp, job, result, ran>>
Released == \E v \in Versions \ releases : releases' = releases \cup {v}
            /\ UNCHANGED <<registry, cache>> /\ Elsewhere
RegistryChanges ==
  /\ \/ \E v \in Versions : v > registry.ver /\ registry' = [registry EXCEPT !.ver = v]
     \/ registry.status = "active" /\ registry' = [registry EXCEPT !.status = "blocked"]
  /\ UNCHANGED <<cache, releases>> /\ Elsewhere
CacheExpires ==
  /\ \E url \in {"plugin", "latest"} :
       /\ cache[url] # Nothing /\ cache[url].fresh
       /\ cache' = [cache EXCEPT ![url].fresh = FALSE]
  /\ UNCHANGED <<registry, releases>> /\ Elsewhere

Next ==
  \/ \E p \in Procs :
       \/ InstallCmd(p) \/ UpdateCmd(p) \/ RemoveCmd(p) \/ InfoCmd(p) \/ RunCmd(p)
       \/ SelfUpdateCmd(p)
       \/ GetPlugin(p) \/ GetLatestVersion(p) \/ FetchManifest(p)
       \/ ListReleases(p) \/ Resolve(p)
       \/ Download(p) \/ Verify(p) \/ Unpack(p) \/ CheckMetadata(p)
       \/ Rename(p) \/ CreateNew(p) \/ CopyNew(p) \/ RenameNew(p) \/ LinkLocal(p)
       \/ SaveRecord(p) \/ UpdateEntry(p) \/ LoadRecord(p)
       \/ Unlink(p) \/ RemoveRecord(p) \/ InfoAsks(p) \/ InfoSaves(p) \/ Dispatch(p)
       \/ Crash(p)
  \/ Released \/ RegistryChanges \/ CacheExpires

Spec == Init /\ [][Next]_vars

-----------------------------------------------------------------------------
(***************************************************************************)
(* Properties.                                                             *)
(***************************************************************************)

\* Every variable keeps its type; a file is torn only where one is written.
TypeOK ==
  /\ dest \in [Targets -> Complete \cup {Nothing}]
  /\ near \in [Procs -> Versions \cup {Nothing, Partial}]
  /\ tmp \in [Procs -> Versions \cup {Nothing, Junk}]
  /\ record \in {Nothing, Torn} \cup
       [ver : Versions, how : DOMAIN Sources, status : {"active", "blocked"}]
  /\ meta \in Versions \cup {Nothing, Torn}
  /\ releases \subseteq Versions /\ ran \in 0..MaxCommands

\* "Same-filesystem rename is atomic": every path holds a complete, published
\* program or nothing, whoever is killed and whoever installs at the same time.
\* (replaceExecutable, atomicInstall, atomicSymlink)
AlwaysComplete == Atomic!Spec

\* The program a record is about.
Recorded(rec) == IF rec.how = "local" THEN Link ELSE rec.ver

\* Self update replaces abstrax by a version newer than the one that runs the
\* update, and of the same major version unless it was told otherwise.
UpdatesForward ==
  [][dest'[Self] # dest[Self] =>
       \E p \in Procs :
         /\ job[p] # Idle /\ Doing(p, "self") /\ dest'[Self] = job[p].ver
         /\ job[p].ver > job[p].current
         /\ job[p].how = "compatible" => Major(job[p].ver) = Major(job[p].current)]_vars

\* Whatever earlier commands left behind, one that succeeds and had the files
\* to itself leaves a record of the program that is in place, and cached
\* metadata that came from that program; remove leaves none of them.  The two
\* versions may differ: the registry or the manifest gives one, the program
\* says the other, and ValidateMetadata compares only the names.
\* (installBinary, installFromPath, Remove)
SuccessSettles ==
  [][\A p \in Procs :
       /\ job[p] # Idle /\ job'[p] = Idle /\ result'.ok /\ job[p].alone
       => /\ job[p].cmd \in {"install", "update"} =>
               /\ record' \notin {Nothing, Torn}
               /\ dest'[Plugin] = Recorded(record') /\ meta' = FetchMetadata(dest'[Plugin])
          /\ job[p].cmd = "remove" =>
               dest'[Plugin] = Nothing /\ record' = Nothing /\ meta' = Nothing]_vars
=============================================================================
