------------------------------ MODULE Project -------------------------------
(***************************************************************************)
(* The life of one abstrax project: its state file, its nginx vhost, its   *)
(* PHP-FPM pools and its certificate, under the commands of                *)
(* internal/services/project and internal/services/ssl.                    *)
(*                                                                         *)
(* A command is a process that runs alone, reads the state file once, and  *)
(* then changes one file, or runs one program, per step.  Any step may     *)
(* fail, and the process may be killed between two steps or inside a       *)
(* write.  nginx is a second actor: other programs may reload it at any    *)
(* moment (certbot's deploy hook, a command on another project).           *)
(***************************************************************************)
EXTENDS Naturals, FiniteSets

CONSTANTS
  Layout,       \* "sites" or "confd"
  Versions,     \* PHP versions
  Revs,         \* values of the settings that appear in the vhost
  Commands,     \* the commands an administrator runs
  DryIn,        \* those that may be run with --dry-run
  FaultKinds,   \* the kinds of step that may fail
  CrashIn,      \* the commands that may be killed
  OtherReloads, \* TRUE: nginx may be reloaded by someone else
  NoVersion, NoFile, Torn, NoState

AllCommands == {"add", "remove", "modify", "runtimeSet", "redirect",
                "vhostAdd", "vhostRemove", "enable", "disable",
                "sslAdd", "sslRemove"}
\* The tails of sslAdd and sslRemove once they have failed.
Tails       == {"sslNote", "sslPutback"}
\* "poolfile", "link" and "resave" are the failed writes that leave something
\* behind: of the pool file, of the link of a vhost that Enable enables, and of
\* the state file when SetRuntime puts it back.
AllFaults   == {"ensure", "pool", "poolfile", "write", "link", "nginx", "save",
                "resave", "delete", "reload", "certbot"}

ASSUME ProjectAssumption ==
  /\ Layout \in {"sites", "confd"}
  /\ Commands \subseteq AllCommands /\ DryIn \subseteq Commands
  /\ CrashIn \subseteq AllCommands
  /\ FaultKinds \subseteq AllFaults
  /\ OtherReloads \in BOOLEAN
  /\ NoVersion \notin Versions /\ Revs # {}

Version == Versions \cup {NoVersion}

\* The fields of project.State that the other files depend on.  "pool" is
\* the version in PHPSocketPath, "cert" says that SSL.CertificateName is set.
\* "other" stands for the runtimes that have no PHP-FPM pool.
State == [vhost : BOOLEAN, off : BOOLEAN, iso : BOOLEAN,
          rt : {"php", "other"}, php : Version, pool : Version,
          tls : BOOLEAN, cert : BOOLEAN, rev : Revs]

Conf == [rev : Revs, tls : BOOLEAN, php : Version, pool : Version]

\* buildNginxConfig over State.vhostConfig: a pool socket wins over the
\* default socket of the version, and only a php vhost names either.
Render(st) ==
  [rev  |-> st.rev,
   tls  |-> st.tls,
   php  |-> IF st.rt = "php" /\ st.pool = NoVersion THEN st.php ELSE NoVersion,
   pool |-> IF st.rt = "php" THEN st.pool ELSE NoVersion]

ASSUME SentinelAssumption ==
  /\ Torn \notin State /\ NoState \notin State
  /\ Torn \notin Conf /\ NoFile \notin Conf \cup {Torn}

V == INSTANCE VhostFiles WITH Contents <- Conf \cup {Torn}

VARIABLES
  saved,   \* <stateDir>/<name>.json: a state, Torn, or NoState
  files,   \* the vhost files
  pools,   \* versions whose pool.d holds this project's pool
  cert,    \* certbot holds the project's certificate
  live,    \* the vhost in nginx's running configuration, or NoFile
  pc,      \* next step of the running command
  cmd,     \* the command
  dry,     \* --dry-run
  cur,     \* the state as the command loaded it
  next,    \* the state as the command will leave it
  snap,    \* vhostSnapshot
  begin,   \* history: what the disk held when the command started
  newPool, \* version of the pool this command created
  outcome  \* how the last command ended

vars == <<saved, files, pools, cert, live, pc, cmd, dry, cur, next, snap,
          begin, newPool, outcome>>
disk == <<saved, files, pools, cert>>
args == <<cmd, dry, cur, begin>>

FreshState == [vhost |-> FALSE, off |-> FALSE, iso |-> FALSE,
               rt |-> "other", php |-> NoVersion, pool |-> NoVersion,
               tls |-> FALSE, cert |-> FALSE,
               rev |-> CHOOSE r \in Revs : TRUE]

Init ==
  /\ saved = NoState /\ files = V!NoVhost /\ pools = {} /\ cert = FALSE
  /\ live = NoFile
  /\ pc = "idle" /\ cmd = "none" /\ dry = FALSE
  /\ cur = FreshState /\ next = FreshState /\ snap = V!NoVhost
  /\ begin = <<NoState, V!NoVhost, {}>> /\ newPool = NoVersion
  /\ outcome = "none"

Idle == pc = "idle"
Loaded == saved \in State

-----------------------------------------------------------------------------
(***************************************************************************)
(* Steps.                                                                  *)
(***************************************************************************)

\* A step of kind k fails.
Fault(k) == k \in FaultKinds

At(p)    == pc = p
Goto(p)  == pc' = p /\ UNCHANGED <<next, snap, newPool, outcome, args>>

\* The process exits with result r, and its memory is gone.
Exit(r) ==
  /\ pc' = "idle" /\ cmd' = "none" /\ dry' = FALSE
  /\ cur' = FreshState /\ next' = FreshState /\ snap' = V!NoVhost
  /\ begin' = <<NoState, V!NoVhost, {}>> /\ newPool' = NoVersion
  /\ outcome' = r

Begin(c, now, then, first) ==
  /\ Idle /\ c \in Commands
  /\ cmd' = c /\ dry' \in (IF c \in DryIn THEN BOOLEAN ELSE {FALSE})
  /\ cur' = now /\ next' = then /\ pc' = first
  /\ begin' = <<saved, files, pools>>
  /\ outcome' = "none"
  /\ UNCHANGED <<disk, live, snap, newPool>>

\* "nginx -t" and "nginx -s reload" both parse what is enabled on disk: a
\* dangling link or a missing certificate is an error, half a file may be one.
Rejected(f, c) == V!Dangling(f) \/ (V!Served(f) \in Conf /\ V!Served(f).tls /\ ~c)
MayReject(f, c) == Rejected(f, c) \/ V!Served(f) = Torn

Loads(f, c) == ~Rejected(f, c) /\ live' = V!Served(f)
Keeps(f, c) == MayReject(f, c) /\ live' = live

\* A reload whose result the code ignores.  The runner skips it when dry.
Reload(f) == IF dry THEN live' = live ELSE Loads(f, cert) \/ Keeps(f, cert)

\* SetRuntime: which pools the change creates and removes.
VersionChanged == cur.rt # "php" \/ next.php # cur.php
\* Mutant of NeedsPool: a pool for any runtime.
NeedsPoolAlways == next.iso /\ (cmd = "add" \/ (cmd = "runtimeSet" /\ VersionChanged))

NeedsPool ==
  /\ next.iso /\ next.rt = "php"
  /\ cmd = "add" \/ (cmd = "runtimeSet" /\ VersionChanged)
RemovesOldPool ==
  /\ cur.iso /\ cur.pool # NoVersion
  /\ next.rt # "php" \/ next.php # cur.php

\* Mutant of Rerender: nothing but the PHP version is compared.
RerenderForPhp(old, new) == new.php # old.php

\* Modify: the settings that appear in the vhost have changed.
Rerender(old, new) == new.php # old.php \/ new.rev # old.rev

NeedsVhost == next.vhost /\ (cmd = "modify" => Rerender(cur, next))

\* Mutant of KeepOff: the SSL commands render without VhostDisabled.
KeepOffNotTls == next.off /\ cmd \in {"modify", "runtimeSet"}

KeepOff == next.off /\ cmd \in {"modify", "runtimeSet", "sslAdd",
                                "sslRemove", "sslPutback"}

AfterPool == IF NeedsVhost THEN "write" ELSE "save"

-----------------------------------------------------------------------------
(***************************************************************************)
(* The commands up to their first change.                                  *)
(***************************************************************************)

Add ==
  \E iso \in BOOLEAN, vhost \in BOOLEAN, r \in Revs, v \in Version :
    /\ ~Loaded
    /\ Begin("add", FreshState,
             [FreshState EXCEPT !.iso = iso, !.vhost = vhost, !.rev = r,
                                !.php = v,
                                !.rt = IF v = NoVersion THEN "other" ELSE "php"],
             "ensure")

\* applyModify: any version may be stored, whatever the runtime, and clearing
\* it on a php project stores the default one instead.
Modify ==
  \E r \in Revs, v \in Version :
    /\ Loaded /\ (saved.rt = "php" => v # NoVersion)
    /\ LET then == [saved EXCEPT !.rev = r, !.php = v]
       IN  Begin("modify", saved, then,
                 IF saved.rt = "php" /\ v # saved.php THEN "ensure"
                 ELSE IF saved.vhost /\ Rerender(saved, then)
                 THEN "write" ELSE "save")

\* runtimeTargetState; a target equal to the stored state returns at once.
RuntimeSet ==
  \E r \in Revs, v \in Version :
    /\ Loaded
    /\ LET rt   == IF v = NoVersion THEN "other" ELSE "php"
           same == saved.rt = "php" /\ v = saved.php
           then == [saved EXCEPT !.rev = r, !.rt = rt, !.php = v,
                                 !.pool = IF same THEN @ ELSE NoVersion]
       IN  /\ rt # saved.rt \/ v # saved.php \/ r # saved.rev
           /\ Begin("runtimeSet", saved, then, "ensure")

Redirect ==
  \E r \in Revs :
    /\ Loaded /\ saved.vhost
    /\ Begin("redirect", saved, [saved EXCEPT !.rev = r], "render")

AddVhost ==
  \E r \in Revs :
    /\ Loaded /\ ~saved.vhost
    /\ Begin("vhostAdd", saved,
             [saved EXCEPT !.rev = r, !.vhost = TRUE, !.off = FALSE], "write")

RemoveVhost ==
  /\ Loaded /\ saved.vhost
  /\ Begin("vhostRemove", saved,
           [saved EXCEPT !.vhost = FALSE, !.off = FALSE, !.tls = FALSE],
           "unlink")

Enable  == Loaded /\ saved.vhost
           /\ Begin("enable", saved, [saved EXCEPT !.off = FALSE], "flip")
Disable == Loaded /\ saved.vhost
           /\ Begin("disable", saved, [saved EXCEPT !.off = TRUE], "flip")

\* --remove-vhost=false leaves the vhost where it is.
Remove ==
  \E vhost \in BOOLEAN :
    /\ Loaded
    /\ Begin("remove", saved, saved,
             IF saved.vhost /\ vhost THEN "unlink" ELSE "droppool")

SslAdd ==
  /\ Loaded /\ saved.vhost
  /\ Begin("sslAdd", saved, [saved EXCEPT !.tls = TRUE, !.cert = TRUE], "issue")

SslRemove ==
  /\ Loaded /\ saved.cert
  /\ Begin("sslRemove", saved, [saved EXCEPT !.tls = FALSE, !.cert = FALSE],
           "plain")

-----------------------------------------------------------------------------
(***************************************************************************)
(* The steps that change things.                                           *)
(***************************************************************************)

\* ensureRuntime.  SetRuntime returns its preview here under --dry-run.
EnsureRuntime ==
  /\ At("ensure") /\ UNCHANGED <<disk, live>>
  /\ \/ ~dry /\ Fault("ensure") /\ Exit("error")
     \/ dry /\ cmd = "runtimeSet" /\ Exit("ok")
     \/ /\ ~(dry /\ cmd = "runtimeSet")
        /\ Goto(IF NeedsPool THEN "pool" ELSE AfterPool)

\* createPHPPool: refuse an existing file, write, test, reload PHP-FPM.  A pool
\* that PHP-FPM rejects is removed, one that could not be written in full is not.
CreatePool ==
  /\ At("pool") /\ UNCHANGED <<saved, files, cert, live>>
  /\ \/ next.php \in pools /\ UNCHANGED pools /\ Exit("error")
     \/ Fault("pool") /\ UNCHANGED pools /\ Exit("error")
     \/ Fault("poolfile") /\ pools' = pools \cup {next.php} /\ Exit("error")
     \/ /\ next.php \notin pools
        /\ pools' = pools \cup {next.php}
        /\ next' = [next EXCEPT !.pool = next.php]
        /\ newPool' = next.php
        /\ pc' = AfterPool
        /\ UNCHANGED <<snap, outcome, args>>

\* Mutant of Preview: --dry-run is not looked at.
PreviewAndWrite ==
  /\ At("render") \/ At("plain")
  /\ UNCHANGED <<disk, live>>
  /\ Goto(IF cmd = "redirect" \/ cur.vhost THEN "write" ELSE "save")

\* Mutant of Preview: ssl.Remove deletes the certificate first.
PreviewThenDelete ==
  /\ At("plain") /\ UNCHANGED <<disk, live>>
  /\ Goto(IF cert THEN "certdel" ELSE "save")

\* applyRedirects and ssl.Remove render only, or stop, under --dry-run.
Preview ==
  /\ At("render") \/ At("plain")
  /\ UNCHANGED <<disk, live>>
  /\ IF dry THEN Exit("ok")
     ELSE Goto(IF cmd = "redirect" \/ cur.vhost THEN "write"
               ELSE IF cert THEN "certdel" ELSE "save")

\* What the caller of writeNginxVhost does when it has returned.
Written ==
  \/ cmd = "sslPutback" /\ Exit("error")
  \/ cmd = "sslRemove" /\ cert /\ Goto("certdel")
  \/ cmd # "sslPutback" /\ (cmd = "sslRemove" => ~cert) /\ Goto("save")

\* The same when it failed: ssl.Add records why, certificate and all.
NotWritten ==
  \/ cmd \in {"add", "runtimeSet"} /\ Goto("undoPool")
  \/ /\ cmd = "sslAdd" /\ cmd' = "sslNote" /\ pc' = "save"
     /\ next' = [cur EXCEPT !.cert = TRUE]
     /\ UNCHANGED <<dry, cur, begin, snap, newPool, outcome>>
  \/ cmd \notin {"add", "runtimeSet", "sslAdd"} /\ Exit("error")

WriteVhost ==
  /\ At("write") /\ UNCHANGED <<saved, pools, cert, live>>
  /\ \/ /\ files' = V!WriteActive(files, Render(next))
        /\ snap' = V!Snapshot(files) /\ pc' = "enable"
        /\ UNCHANGED <<next, newPool, outcome, args>>
     \/ Fault("write") /\ UNCHANGED files /\ NotWritten

EnableVhost ==
  /\ At("enable") /\ UNCHANGED <<saved, pools, cert, live>>
  /\ \/ files' = V!EnableFile(files) /\ Goto("test")
     \/ Fault("write") /\ files' = V!RestoreFiles(files, snap) /\ NotWritten

\* "nginx -t" covers every site, so it may fail whatever this vhost holds.
TestVhost ==
  /\ At("test") /\ UNCHANGED <<saved, pools, cert, live>>
  /\ \/ /\ dry \/ ~Rejected(files, cert)
        /\ UNCHANGED files
        /\ Goto(IF KeepOff THEN "turnOff" ELSE "reload")
     \/ /\ ~dry /\ (MayReject(files, cert) \/ Fault("nginx"))
        /\ files' = V!RestoreFiles(files, snap) /\ NotWritten

TurnOffVhost ==
  /\ At("turnOff") /\ UNCHANGED <<saved, pools, cert, live>>
  /\ \/ files' = V!DisableFile(files) /\ Written
     \/ Fault("write") /\ files' = V!RestoreFiles(files, snap) /\ NotWritten

\* A failed reload is ignored.
ReloadVhost ==
  /\ At("reload") /\ UNCHANGED disk
  /\ \/ Reload(files)
     \/ Fault("reload") /\ UNCHANGED live
  /\ Written

\* Enable and Disable undo nothing: when enableVhostFile has removed the old link
\* and cannot make the new one, an enabled vhost is off.
FlipVhost ==
  /\ At("flip") /\ UNCHANGED <<saved, pools, cert, live>>
  /\ \/ cmd = "enable"  /\ files' = V!EnableFile(files)  /\ Goto("save")
     \/ cmd = "disable" /\ files' = V!DisableFile(files) /\ Goto("save")
     \/ Fault("write") /\ UNCHANGED files /\ Exit("error")
     \/ /\ cmd = "enable" /\ Fault("link")
        /\ files' = V!Unlinked(files) /\ Exit("error")

AfterSave ==
  \/ cmd = "runtimeSet" /\ RemovesOldPool /\ Goto("oldPool")
  \/ cmd \in {"enable", "disable"} /\ Goto("activate")
  \/ cmd = "sslNote" /\ Exit("error")
  \/ /\ cmd \notin {"enable", "disable", "sslNote"}
     /\ ~(cmd = "runtimeSet" /\ RemovesOldPool)
     /\ Exit("ok")

AfterFailedSave ==
  \/ cmd \in {"add", "runtimeSet"} /\ Goto("undo")
  \/ cmd = "vhostAdd" /\ Goto("unlink")
  \/ cmd \notin {"add", "runtimeSet", "vhostAdd"} /\ Exit("error")

\* saveState: os.WriteFile truncates first, so a failed save may leave a file
\* that no longer parses.
SaveState ==
  /\ At("save") /\ UNCHANGED <<files, pools, cert, live>>
  /\ \/ saved' = next /\ AfterSave
     \/ Fault("save") /\ saved' \in {saved, Torn} /\ AfterFailedSave

\* The reload that ends Enable and Disable; its error is the command's.
Activate ==
  /\ At("activate") /\ UNCHANGED disk
  /\ \/ dry /\ UNCHANGED live /\ Exit("ok")
     \/ ~dry /\ Loads(files, cert) /\ Exit("ok")
     \/ ~dry /\ Keeps(files, cert) /\ Exit("error")
     \/ ~dry /\ Fault("reload") /\ UNCHANGED live /\ Exit("error")

RemoveOldPool ==
  /\ At("oldPool")
  /\ pools' = pools \ {cur.php}
  /\ Exit("ok") /\ UNCHANGED <<saved, files, cert, live>>

\* Mutant of UndoPool: it removes the pool of the stored state.
UndoStoredPool ==
  /\ At("undoPool")
  /\ pools' = pools \ {cur.php}
  /\ Exit("error") /\ UNCHANGED <<saved, files, cert, live>>

\* The vhost was never switched: only the new pool has to go.
UndoPool ==
  /\ At("undoPool")
  /\ pools' = pools \ {newPool}
  /\ Exit("error") /\ UNCHANGED <<saved, files, cert, live>>

\* addRollback.undo, and the undo closure of SetRuntime.
Undo ==
  /\ At("undo")
  /\ pools' = pools \ {newPool}
  /\ IF cmd = "add"
     THEN /\ files' = IF next.vhost THEN V!RemoveActive(files) ELSE files
          /\ IF next.vhost THEN Reload(files') ELSE UNCHANGED live
          /\ UNCHANGED saved
     ELSE /\ files' = IF next.vhost THEN V!RestoreFiles(files, snap) ELSE files
          /\ IF next.vhost /\ ~next.off THEN Reload(files') ELSE UNCHANGED live
          /\ \/ saved' = cur
             \/ Fault("resave") /\ saved' \in {saved, Torn}
  /\ Exit("error") /\ UNCHANGED cert

\* deleteVhostFiles stops at the first file it cannot remove; Remove goes on,
\* and may leave the file without its link or the link without its file.
Unlink ==
  /\ At("unlink") /\ UNCHANGED <<saved, pools, cert, live>>
  /\ \/ files' = V!DeleteFiles(files) /\ Goto("unload")
     \/ /\ Fault("delete") /\ cmd = "remove"
        /\ files' \in {V!DisableFile(files), V!RemoveActive(files)}
        /\ Goto("unload")
     \/ /\ Fault("delete") /\ cmd # "remove"
        /\ files' \in {files, V!DisableFile(files)}
        /\ Exit("error")

\* Mutant of Unload: the vhost goes and nginx is not reloaded.
UnloadQuietly ==
  /\ At("unload") /\ UNCHANGED <<disk, live>>
  /\ \/ cmd = "remove"      /\ Goto("droppool")
     \/ cmd = "vhostAdd"    /\ Exit("error")
     \/ cmd = "vhostRemove" /\ Goto("save")

Unload ==
  /\ At("unload") /\ UNCHANGED disk
  /\ \/ Reload(files)
     \/ Fault("reload") /\ UNCHANGED live
  /\ \/ cmd = "remove"      /\ Goto("droppool")
     \/ cmd = "vhostAdd"    /\ Exit("error")
     \/ cmd = "vhostRemove" /\ Goto("save")

DropPool ==
  /\ At("droppool")
  /\ pools' = IF cur.iso /\ cur.pool # NoVersion THEN pools \ {cur.php} ELSE pools
  /\ Goto("delete") /\ UNCHANGED <<saved, files, cert, live>>

DeleteState ==
  /\ At("delete") /\ UNCHANGED <<files, pools, cert, live>>
  /\ \/ saved' = NoState /\ Exit("ok")
     \/ Fault("delete") /\ UNCHANGED saved /\ Exit("error")

\* certbot certonly.  Its deploy hook reloads nginx once it has the certificate.
IssueCert ==
  /\ At("issue") /\ UNCHANGED <<saved, files, pools>>
  /\ \/ ~dry /\ Fault("certbot") /\ UNCHANGED <<cert, live>> /\ Exit("error")
     \/ dry /\ UNCHANGED <<cert, live>> /\ Exit("ok")
     \/ /\ ~dry /\ cert' = TRUE /\ Goto("write")
        /\ Loads(files, TRUE) \/ Keeps(files, TRUE)

\* certbot delete; when it fails HTTPS goes back into the vhost.
DeleteCert ==
  /\ At("certdel") /\ UNCHANGED <<saved, files, pools, live>>
  /\ \/ cert' = FALSE /\ Goto("save")
     \/ /\ Fault("certbot") /\ UNCHANGED cert
        /\ IF cur.vhost
           THEN /\ cmd' = "sslPutback" /\ next' = cur /\ pc' = "write"
                /\ UNCHANGED <<dry, cur, begin, snap, newPool, outcome>>
           ELSE Exit("error")

-----------------------------------------------------------------------------
Owner == CASE cmd = "sslNote"    -> "sslAdd"
           [] cmd = "sslPutback" -> "sslRemove"
           [] OTHER              -> cmd

\* The process is killed between two steps, or inside os.WriteFile.
Crash ==
  /\ ~Idle /\ Owner \in CrashIn
  /\ \/ UNCHANGED <<saved, files>>
     \/ At("save")   /\ saved' = Torn /\ UNCHANGED files
     \/ At("write")  /\ files' = [files EXCEPT !.active = Torn] /\ UNCHANGED saved
     \/ /\ At("enable") \/ (At("flip") /\ cmd = "enable")
        /\ files' = V!Unlinked(files) /\ UNCHANGED saved
  /\ Exit("crashed")
  /\ UNCHANGED <<pools, cert, live>>

\* certbot's deploy hook, or a command on another project, reloads nginx.
OtherReload ==
  /\ OtherReloads /\ Loads(files, cert)
  /\ UNCHANGED <<disk, pc, next, snap, newPool, outcome, args>>

Start ==
  \/ Add \/ Modify \/ RuntimeSet \/ Redirect \/ AddVhost \/ RemoveVhost
  \/ Enable \/ Disable \/ Remove \/ SslAdd \/ SslRemove

Step ==
  \/ EnsureRuntime \/ CreatePool \/ Preview \/ WriteVhost \/ EnableVhost
  \/ TestVhost \/ TurnOffVhost \/ ReloadVhost \/ FlipVhost \/ SaveState
  \/ Activate \/ RemoveOldPool \/ UndoPool \/ Undo \/ Unlink \/ Unload
  \/ DropPool \/ DeleteState \/ IssueCert \/ DeleteCert

Next == Start \/ Step \/ Crash \/ OtherReload
Spec == Init /\ [][Next]_vars

-----------------------------------------------------------------------------
(***************************************************************************)
(* Properties.                                                             *)
(***************************************************************************)

Labels == {"idle", "ensure", "pool", "render", "plain", "write", "enable",
           "test", "turnOff", "reload", "flip", "save", "activate", "oldPool",
           "undoPool", "undo", "unlink", "unload", "droppool", "delete",
           "issue", "certdel"}
Stored == State \cup {Torn, NoState}

DiskTyped ==
  /\ saved \in Stored /\ files \in V!Files
  /\ pools \subseteq Versions /\ cert \in BOOLEAN

ProcessTyped ==
  /\ pc \in Labels /\ cmd \in AllCommands \cup Tails \cup {"none"}
  /\ dry \in BOOLEAN /\ cur \in State /\ next \in State
  /\ snap \in V!Files /\ begin \in Stored \X V!Files \X SUBSET Versions
  /\ newPool \in Version
  /\ outcome \in {"none", "ok", "error", "crashed"}

\* Every variable keeps its type: the disk holds what loadState and os.ReadFile
\* may return, and the running command is at one of its steps.
TypeOK == DiskTyped /\ ProcessTyped /\ live \in V!Slot

\* A PHP project has a version: SetRuntime and Modify normalise an empty one,
\* and a pool is created for a PHP project only.
PhpHasVersion(st) == st.rt = "php" => st.php # NoVersion
VersionsKept ==
  /\ Loaded => PhpHasVersion(saved)
  /\ PhpHasVersion(cur) /\ PhpHasVersion(next)
  /\ At("pool") => next.rt = "php"

\* The state file names no PHP-FPM pool that is gone, except between the two
\* last steps of Remove (SetRuntime removes an old pool only after the save).
RecordedPoolExists ==
  Loaded /\ saved.pool # NoVersion /\ ~At("delete") => saved.pool \in pools

\* The enabled vhost of a recorded project passes PHP to no pool that is gone,
\* at no step of any command but Remove: SetRuntime creates the new pool before
\* it switches the vhost and drops the old one after.
ServedPoolExists ==
  LET c == V!Served(files)
  IN  Loaded /\ saved.vhost /\ cmd # "remove" /\ c \in Conf /\ c.pool # NoVersion
      => c.pool \in pools

\* Between commands the enabled vhost uses no certificate that certbot has
\* deleted: "nginx never points at a missing certificate" (ssl.Remove).
TlsHasCertificate ==
  LET c == V!Served(files) IN Idle /\ c \in Conf /\ c.tls => cert

\* A command leaves the vhost of a recorded project holding exactly what the
\* recorded settings render to.
VhostMatchesState ==
  Idle /\ Loaded /\ saved.vhost
  => Render(saved) = IF V!Enabled(files) THEN files.active
                     ELSE IF Layout = "sites" THEN files.active ELSE files.off

\* A project is recorded as disabled exactly when its vhost is off on disk
\* (State.VhostDisabled, kept by writeNginxVhost's keepDisabled), when no step
\* fails that its command does not undo.  Enable is one that undoes nothing: on
\* the sites layout an enable that loses the link leaves a project that is
\* recorded as enabled off ("link").
DisabledMatchesFiles ==
  Idle /\ Loaded /\ saved.vhost => (saved.off <=> ~V!Enabled(files))

\* A finished command leaves nginx running exactly the vhost that is enabled on
\* disk, whatever it rewrote, rolled back, enabled for a test or deleted, unless
\* a reload fails or an enable loses the link ("link"): nginx then still runs the
\* vhost that is off on disk.
LiveMatchesFiles == Idle => live = V!Served(files)

\* A SetRuntime that fails has put back the state file, the vhost and the pools
\* it found: "The change is transactional" (runtime_set.go).
FailedRuntimeSetUndone ==
  [][cmd = "runtimeSet" /\ outcome' = "error"
     => begin = <<saved, files, pools>>']_vars

\* No command leaves a link in sites-enabled whose file is gone: nginx would
\* refuse its whole configuration, of every site.
NoDanglingLink == Idle => ~V!Dangling(files)

\* Under --dry-run a command changes no file, no pool, no certificate, and
\* nothing that nginx serves ("Show what would happen without making changes").
DryRunChangesNothing == [][dry => UNCHANGED <<disk, live>>]_vars

-----------------------------------------------------------------------------
(***************************************************************************)
(* Strengthenings: the properties above are not inductive alone.           *)
(***************************************************************************)

\* A process exists only while a command runs.
Quiet == (Idle => newPool = NoVersion) /\ (~Idle => outcome = "none")

\* The pool a state names is on disk.
Held(st) == st.pool # NoVersion => st.pool \in pools

\* The pool that SetRuntime records: the one it made, or the stored one when
\* the version stays.
RuntimeSetPool ==
  next.pool # NoVersion =>
    /\ next.rt = "php"
    /\ \/ next.pool = next.php
       \/ next.pool = cur.pool /\ cur.rt = "php" /\ next.php = cur.php

\* Why a recorded pool is never lost: the process holds only states whose pools
\* exist, undoes only a pool that the stored state cannot name, and drops an old
\* pool only after it has saved a state that names another.
PoolInv ==
  /\ RecordedPoolExists
  /\ ~Idle /\ ~At("delete") => Held(cur) /\ Held(next)
  /\ newPool # NoVersion => cur.pool # newPool
  /\ cmd \in {"add", "runtimeSet"} /\ ~At("oldPool") /\ Loaded => saved = cur
  /\ cmd = "runtimeSet" => RuntimeSetPool
  /\ At("oldPool") => cmd = "runtimeSet" /\ saved = next /\ RemovesOldPool
  /\ pc \in {"undoPool", "undo"} => cmd \in {"add", "runtimeSet"}
  /\ pc \in {"droppool", "delete"} => cmd = "remove"

\* Where SetRuntime stands, against what the disk held when it started.
Rewritten == V!WriteActive(begin[2], Render(next))
UndoInv ==
  cmd = "runtimeSet" =>
    /\ pc \in {"ensure", "pool", "write", "enable", "test", "turnOff", "reload",
              "save", "oldPool", "undoPool", "undo"}
    /\ begin[1] = cur
    /\ pc \notin {"undo", "oldPool"} => saved = cur
    /\ pc # "oldPool" => /\ newPool \notin begin[3]
                        /\ pools = begin[3] \cup ({newPool} \ {NoVersion})
    /\ pc \in {"ensure", "pool"} => newPool = NoVersion
    /\ pc \in {"ensure", "pool", "write", "undoPool"} => files = begin[2]
    /\ pc \in {"write", "enable", "test", "turnOff", "reload"} => next.vhost
    /\ pc \in {"enable", "test", "turnOff", "reload"} => snap = V!Snapshot(begin[2])
    /\ pc = "enable" => files = Rewritten
    /\ pc \in {"test", "turnOff", "reload"} => files = V!EnableFile(Rewritten)
    /\ pc \in {"save", "undo"} =>
         begin[2] = IF next.vhost THEN V!RestoreFiles(files, snap) ELSE files
=============================================================================
