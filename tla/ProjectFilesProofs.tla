------------------------- MODULE ProjectFilesProofs -------------------------
(***************************************************************************)
(* More theorems about Project: what its vhost files hold at every step.   *)
(***************************************************************************)
EXTENDS ProjectProofs

-----------------------------------------------------------------------------
(***************************************************************************)
(* The running command: where it is and what it means to store.            *)
(***************************************************************************)

Rewriting == {"enable", "test", "turnOff", "reload"}
Rewriters == {"add", "modify", "runtimeSet", "redirect", "vhostAdd", "sslAdd",
              "sslRemove", "sslPutback"}

\* Which commands take which steps.
RouteInv ==
  /\ pc = "idle" <=> cmd = "none"
  /\ pc = "ensure" => cmd \in {"add", "modify", "runtimeSet"}
  /\ pc \in {"pool", "undoPool", "undo"} => cmd \in {"add", "runtimeSet"}
  /\ pc = "render" => cmd = "redirect"
  /\ pc \in {"plain", "certdel"} => cmd = "sslRemove"
  /\ pc = "issue" => cmd = "sslAdd"
  /\ pc \in {"flip", "activate"} => cmd \in {"enable", "disable"}
  /\ pc = "oldPool" => cmd = "runtimeSet"
  /\ pc \in {"droppool", "delete"} => cmd = "remove"
  /\ pc \in {"unlink", "unload"} => cmd \in {"vhostAdd", "vhostRemove", "remove"}
  /\ pc \in {"write"} \cup Rewriting => cmd \in Rewriters /\ next.vhost
  /\ pc = "turnOff" => KeepOff
  /\ pc = "save" => cmd \notin {"none", "remove", "sslPutback"}

\* What a command means to store, against the state it loaded.
PlanInv ==
  /\ cmd \notin {"none", "add", "vhostAdd", "vhostRemove"} => next.vhost = cur.vhost
  /\ cmd \notin {"none", "add", "vhostAdd", "vhostRemove", "enable", "disable"}
       => next.off = cur.off
  /\ cmd \notin {"none", "add", "vhostRemove", "sslAdd", "sslRemove"}
       => next.tls = cur.tls
  /\ cmd \notin {"none", "add", "sslAdd", "sslRemove", "sslNote"}
       => next.cert = cur.cert
  /\ cmd \in {"redirect", "vhostRemove", "enable", "disable", "sslAdd", "sslNote",
             "sslPutback"} => cur.vhost
  /\ cmd = "modify" => next.rt = cur.rt /\ next.pool = cur.pool
  /\ cmd = "add" => ~next.off /\ ~next.tls /\ ~next.cert
  /\ cmd = "vhostAdd" => ~cur.vhost /\ next.vhost /\ ~next.off
  /\ cmd = "vhostRemove" => ~next.vhost /\ ~next.off /\ ~next.tls
  /\ cmd = "enable" => ~next.off
  /\ cmd = "disable" => next.off
  /\ cmd = "sslAdd" => next.tls /\ next.cert
  /\ cmd = "sslNote" => next.cert
  /\ cmd = "sslRemove" => cur.cert /\ ~next.tls /\ ~next.cert
  /\ cmd \in {"vhostRemove", "enable", "disable", "sslAdd", "sslNote",
             "sslRemove", "sslPutback"}
       => /\ next.rt = cur.rt /\ next.php = cur.php
          /\ next.pool = cur.pool /\ next.rev = cur.rev

\* What is stored while a command runs: what it loaded, until it has saved.
StoredInv ==
  /\ cmd = "add" => ~Loaded
  /\ cmd \notin {"none", "add"} =>
       /\ pc \in {"oldPool", "activate"} => saved = next
       /\ pc \notin {"oldPool", "activate"} => saved \in {cur, Torn}
       /\ /\ pc \notin {"oldPool", "activate", "undo"}
          /\ cmd = "vhostAdd" => pc \notin {"unlink", "unload"}
          => saved = cur

CommandInv == RouteInv /\ PlanInv /\ StoredInv

\* What every command does first: it loads the state, if there is one.
Opened ==
  /\ pc = "idle" /\ UNCHANGED <<disk, live, snap, newPool>>
  /\ begin' = <<saved, files, pools>>
  /\ cmd' # "none" /\ (cmd' = "add" <=> ~Loaded)
  /\ cmd' # "add" => cur' = saved
  /\ pc' \in FirstLabels
  /\ dry' => cmd' \in DryIn

LEMMA CommandExit ==
  ASSUME NEW r, Exit(r), RouteInv, StoredInv
  PROVE  CommandInv'
BY DEF Exit, CommandInv, RouteInv, PlanInv, StoredInv, Rewriting

LEMMA StartsOpened ==
  ASSUME Start
  PROVE  Opened
BY DEF Start, Add, Modify, RuntimeSet, Redirect, AddVhost, RemoveVhost, Enable, Disable,
       Remove, SslAdd, SslRemove, Begin, Opened, Idle, FirstLabels

LEMMA StartCommand ==
  ASSUME TypeOK, VersionsKept, RouteInv, Start
  PROVE  Opened /\ CommandInv'
<1> USE DEF Opened, Begin, FirstLabels, CommandInv, RouteInv, PlanInv, StoredInv, Rewriting,
        Rewriters, disk, Idle, Loaded, NeedsVhost
<1>1. CASE Add
  <2>1. PICK iso \in BOOLEAN, vhost \in BOOLEAN, r \in Revs, v \in Version :
          /\ ~Loaded
          /\ Begin("add", FreshState,
                   [FreshState EXCEPT !.iso = iso, !.vhost = vhost, !.rev = r,
                      !.php = v, !.rt = IF v = NoVersion THEN "other" ELSE "php"],
                   "ensure")
    BY <1>1 DEF Add
  <2>2. ~next'.off /\ ~next'.tls /\ ~next'.cert
    BY <2>1 DEF FreshState
  <2>3. QED
    BY <2>1, <2>2
<1>2. CASE Modify
  <2>1. PICK r \in Revs, v \in Version :
          /\ Loaded /\ (saved.rt = "php" => v # NoVersion)
          /\ LET then == [saved EXCEPT !.rev = r, !.php = v]
             IN  Begin("modify", saved, then,
                       IF saved.rt = "php" /\ v # saved.php THEN "ensure"
                       ELSE IF saved.vhost /\ Rerender(saved, then)
                       THEN "write" ELSE "save")
    BY <1>2 DEF Modify
  <2>2. next' = [saved EXCEPT !.rev = r, !.php = v] /\ saved \in State
    BY <2>1
  <2>3. /\ next'.vhost = saved.vhost /\ next'.off = saved.off
        /\ next'.tls = saved.tls /\ next'.cert = saved.cert
        /\ next'.rt = saved.rt /\ next'.pool = saved.pool
    BY <2>2 DEF State
  <2>4. QED
    BY <2>1, <2>3
<1>3. CASE RuntimeSet
  <2>1. PICK r \in Revs, v \in Version :
          /\ Loaded
          /\ LET rt   == IF v = NoVersion THEN "other" ELSE "php"
                 same == saved.rt = "php" /\ v = saved.php
                 then == [saved EXCEPT !.rev = r, !.rt = rt, !.php = v,
                                       !.pool = IF same THEN @ ELSE NoVersion]
             IN  /\ rt # saved.rt \/ v # saved.php \/ r # saved.rev
                 /\ Begin("runtimeSet", saved, then, "ensure")
    BY <1>3 DEF RuntimeSet
  <2> DEFINE rt   == IF v = NoVersion THEN "other" ELSE "php"
             pool == IF saved.rt = "php" /\ v = saved.php THEN saved.pool ELSE NoVersion
  <2>2. next' = [saved EXCEPT !.rev = r, !.rt = rt, !.php = v, !.pool = pool]
    BY <2>1 DEF State
  <2>3. /\ next'.vhost = saved.vhost /\ next'.off = saved.off
        /\ next'.tls = saved.tls /\ next'.cert = saved.cert
    BY <2>1, <2>2 DEF State
  <2>4. QED
    BY <2>1, <2>3
<1>4. CASE Redirect
  <2>1. PICK r \in Revs : /\ Loaded /\ saved.vhost
                          /\ Begin("redirect", saved, [saved EXCEPT !.rev = r], "render")
    BY <1>4 DEF Redirect
  <2>2. /\ next'.vhost = saved.vhost /\ next'.off = saved.off
        /\ next'.tls = saved.tls /\ next'.cert = saved.cert
    BY <2>1 DEF State
  <2>3. QED
    BY <2>1, <2>2
<1>5. CASE AddVhost
  <2>1. PICK r \in Revs :
          /\ Loaded /\ ~saved.vhost
          /\ Begin("vhostAdd", saved,
                   [saved EXCEPT !.rev = r, !.vhost = TRUE, !.off = FALSE], "write")
    BY <1>5 DEF AddVhost
  <2>2. /\ next'.vhost /\ ~next'.off
        /\ next'.tls = saved.tls /\ next'.cert = saved.cert
    BY <2>1 DEF State
  <2>3. QED
    BY <2>1, <2>2
<1>6. CASE RemoveVhost
  <2>1. /\ next' = [saved EXCEPT !.vhost = FALSE, !.off = FALSE, !.tls = FALSE]
        /\ saved \in State
    BY <1>6 DEF RemoveVhost
  <2>2. /\ ~next'.vhost /\ ~next'.off /\ ~next'.tls /\ next'.cert = saved.cert
        /\ next'.rt = saved.rt /\ next'.php = saved.php
        /\ next'.pool = saved.pool /\ next'.rev = saved.rev
    BY <2>1 DEF State
  <2>3. QED
    BY <1>6, <2>2 DEF RemoveVhost
<1>7. CASE Enable \/ Disable
  <2>1. PICK b \in BOOLEAN :
          next' = [saved EXCEPT !.off = b] /\ saved \in State /\ b = (cmd' = "disable")
    BY <1>7 DEF Enable, Disable
  <2>2. /\ next'.vhost = saved.vhost /\ next'.off = b
        /\ next'.tls = saved.tls /\ next'.cert = saved.cert
        /\ next'.rt = saved.rt /\ next'.php = saved.php
        /\ next'.pool = saved.pool /\ next'.rev = saved.rev
    BY <2>1 DEF State
  <2>3. QED
    BY <1>7, <2>1, <2>2 DEF Enable, Disable
<1>8. CASE Remove
  BY <1>8 DEF Remove
<1>9. CASE SslAdd
  <2>1. next' = [saved EXCEPT !.tls = TRUE, !.cert = TRUE] /\ saved \in State
    BY <1>9 DEF SslAdd
  <2>2. /\ next'.vhost = saved.vhost /\ next'.off = saved.off
        /\ next'.tls /\ next'.cert
        /\ next'.rt = saved.rt /\ next'.php = saved.php
        /\ next'.pool = saved.pool /\ next'.rev = saved.rev
    BY <2>1 DEF State
  <2>3. QED
    BY <1>9, <2>2 DEF SslAdd
<1>10. CASE SslRemove
  <2>1. next' = [saved EXCEPT !.tls = FALSE, !.cert = FALSE] /\ saved \in State
    BY <1>10 DEF SslRemove
  <2>2. /\ next'.vhost = saved.vhost /\ next'.off = saved.off
        /\ ~next'.tls /\ ~next'.cert
        /\ next'.rt = saved.rt /\ next'.php = saved.php
        /\ next'.pool = saved.pool /\ next'.rev = saved.rev
    BY <2>1 DEF State
  <2>3. QED
    BY <1>10, <2>2 DEF SslRemove
<1>11. QED
  BY <1>1, <1>2, <1>3, <1>4, <1>5, <1>6, <1>7, <1>8, <1>9, <1>10 DEF Start

LEMMA StepCommand ==
  ASSUME TypeOK, VersionsKept, CommandInv, Step
  PROVE  CommandInv'
<1> USE DEF CommandInv, RouteInv, PlanInv, StoredInv, Rewriting, Rewriters, At, Goto,
        args, Loaded, Owner
<1>exit. ASSUME NEW r, Exit(r) PROVE CommandInv'
  BY <1>exit, CommandExit
<1>0. CASE \E r \in {"ok", "error"} : Exit(r)
  BY <1>0, <1>exit
<1>n. CASE ~\E r \in {"ok", "error"} : Exit(r)
  <2>1. CASE EnsureRuntime
    BY <1>n, <2>1 DEF EnsureRuntime, disk, AfterPool, NeedsVhost, NeedsPool
  <2>2. CASE CreatePool
    <3>1. /\ next' = [next EXCEPT !.pool = next.php] /\ pc' = AfterPool
          /\ pc = "pool" /\ cmd' = cmd /\ cur' = cur /\ saved' = saved
      BY <1>n, <2>2 DEF CreatePool
    <3>2. /\ next'.vhost = next.vhost /\ next'.off = next.off
          /\ next'.tls = next.tls /\ next'.cert = next.cert
      BY <3>1 DEF TypeOK, ProcessTyped, State
    <3>3. QED
      BY <3>1, <3>2 DEF AfterPool, NeedsVhost
  <2>3. CASE Preview
    BY <1>n, <2>3 DEF Preview, disk
  <2>4. CASE NotWritten /\ pc \in {"write"} \cup Rewriting /\ saved' = saved
    <3>1. CASE cmd = "sslAdd"
      <4>1. /\ next' = [cur EXCEPT !.cert = TRUE] /\ cmd' = "sslNote" /\ pc' = "save"
            /\ cur' = cur
        BY <2>4, <3>1 DEF NotWritten
      <4>2. /\ next'.vhost = cur.vhost /\ next'.off = cur.off
            /\ next'.tls = cur.tls /\ next'.cert
            /\ next'.rt = cur.rt /\ next'.php = cur.php
            /\ next'.pool = cur.pool /\ next'.rev = cur.rev
        BY <4>1 DEF TypeOK, ProcessTyped, State
      <4>3. QED
        BY <2>4, <3>1, <4>1, <4>2
    <3>2. CASE cmd # "sslAdd"
      BY <1>n, <2>4, <3>2 DEF NotWritten
    <3>3. QED
      BY <3>1, <3>2
  <2>5. CASE Written /\ pc \in {"turnOff", "reload"} /\ saved' = saved
    BY <1>n, <2>5 DEF Written
  <2>6. CASE WriteVhost
    <3>1. CASE NotWritten
      BY <2>4, <2>6, <3>1 DEF WriteVhost
    <3>2. CASE ~NotWritten
      BY <2>6, <3>2 DEF WriteVhost
    <3>3. QED
      BY <3>1, <3>2
  <2>7. CASE EnableVhost
    BY <2>4, <2>7 DEF EnableVhost
  <2>8. CASE TestVhost
    <3>1. CASE NotWritten
      BY <2>4, <2>8, <3>1 DEF TestVhost
    <3>2. CASE ~NotWritten
      BY <2>8, <3>2 DEF TestVhost, KeepOff
    <3>3. QED
      BY <3>1, <3>2
  <2>9. CASE TurnOffVhost
    BY <2>4, <2>5, <2>9 DEF TurnOffVhost
  <2>10. CASE ReloadVhost
    BY <2>5, <2>10 DEF ReloadVhost, disk
  <2>11. CASE FlipVhost
    BY <1>n, <2>11 DEF FlipVhost
  <2>12. CASE SaveState
    <3>1. CASE saved' = next /\ AfterSave
      BY <1>n, <2>12, <3>1 DEF SaveState, AfterSave
    <3>2. CASE saved' \in {saved, Torn} /\ AfterFailedSave
      <4>1. Torn \notin State
        BY SentinelAssumption
      <4>2. QED
        BY <1>n, <2>12, <3>2, <4>1 DEF SaveState, AfterFailedSave
    <3>3. QED
      BY <2>12, <3>1, <3>2 DEF SaveState
  <2>13. CASE Activate \/ RemoveOldPool \/ UndoPool \/ Undo \/ DeleteState
    BY <1>n, <2>13 DEF Activate, RemoveOldPool, UndoPool, Undo, DeleteState
  <2>14. CASE Unlink
    BY <1>n, <2>14 DEF Unlink
  <2>15. CASE Unload
    BY <1>n, <2>15 DEF Unload, disk
  <2>16. CASE DropPool
    BY <2>16 DEF DropPool
  <2>17. CASE IssueCert
    BY <1>n, <2>17 DEF IssueCert
  <2>18. CASE DeleteCert
    BY <1>n, <2>18 DEF DeleteCert
  <2>19. QED
    BY <2>1, <2>2, <2>3, <2>6, <2>7, <2>8, <2>9, <2>10, <2>11, <2>12, <2>13, <2>14,
       <2>15, <2>16, <2>17, <2>18 DEF Step
<1>q. QED
  BY <1>0, <1>n

\* A command takes the steps of its own handler, and holds the state it loaded.
LEMMA CommandStep ==
  ASSUME TypeOK, VersionsKept, CommandInv, [Next]_vars
  PROVE  CommandInv'
<1>1. CASE Start
  BY <1>1, StartCommand DEF CommandInv
<1>2. CASE Step
  BY <1>2, StepCommand
<1>3. CASE Crash
  BY <1>3, CommandExit DEF Crash, CommandInv
<1>4. CASE OtherReload
  BY <1>4 DEF OtherReload, disk, args, CommandInv, RouteInv, PlanInv, StoredInv,
              Loaded, KeepOff
<1>5. CASE UNCHANGED vars
  BY <1>5 DEF vars, disk, args, CommandInv, RouteInv, PlanInv, StoredInv, Loaded, KeepOff
<1>6. QED
  BY <1>1, <1>2, <1>3, <1>4, <1>5 DEF Next

LEMMA CommandInit == Init => CommandInv
BY SentinelAssumption
   DEF Init, CommandInv, RouteInv, PlanInv, StoredInv, Loaded, Rewriting

-----------------------------------------------------------------------------
(***************************************************************************)
(* What the vhost files hold.                                              *)
(***************************************************************************)

\* Vhost files both of which, if they are there, hold a member of S.
Over(S) == [active : S, off : S, link : BOOLEAN]
Only(c) == Over({c, NoFile})

\* The helpers of service.go invent no content.
LEMMA FilesOver ==
  ASSUME NEW S, NoFile \in S, NEW f \in Over(S), NEW s \in Over(S), NEW c \in S
  PROVE  /\ V!WriteActive(f, c) \in Over(S)
         /\ [f EXCEPT !.active = c] \in Over(S)
         /\ V!EnableFile(f) \in Over(S)
         /\ V!Unlinked(f) \in Over(S)
         /\ V!DisableFile(f) \in Over(S)
         /\ V!DeleteFiles(f) \in Over({NoFile})
         /\ V!RemoveActive(f) \in Over(S)
         /\ V!Snapshot(f) \in Over(S)
         /\ V!RestoreFiles(f, s) \in Over(S)
         /\ V!Served(f) \in S
BY DEF Over, V!WriteActive, V!EnableFile, V!Unlinked, V!DisableFile, V!DeleteFiles,
       V!RemoveActive, V!Snapshot, V!RestoreFiles, V!Served

LEMMA OverMonotone ==
  ASSUME NEW S, NEW T, S \subseteq T, NEW f \in Over(S)
  PROVE  f \in Over(T)
BY DEF Over

LEMMA OverSlot == V!Files = Over(V!Slot)
BY DEF V!Files, Over

\* Each layout uses two of the three facts: there is no .disabled copy on sites
\* and no link on conf.d.
OneLayout(f) == IF Layout = "sites" THEN f.off = NoFile ELSE ~f.link

LEMMA OneLayoutKept ==
  ASSUME NEW f \in V!Files, OneLayout(f), NEW s \in V!Files, NEW c \in V!Slot
  PROVE  /\ OneLayout(V!WriteActive(f, c)) /\ OneLayout([f EXCEPT !.active = c])
         /\ OneLayout(V!EnableFile(f)) /\ OneLayout(V!Unlinked(f))
         /\ OneLayout(V!DisableFile(f)) /\ OneLayout(V!DeleteFiles(f))
         /\ OneLayout(V!RemoveActive(f)) /\ OneLayout(V!RestoreFiles(f, s))
         /\ V!WriteActive(f, c) \in Only(c)
BY ProjectAssumption
   DEF ProjectAssumption, OneLayout, Only, Over, V!Files, V!WriteActive, V!EnableFile,
       V!Unlinked, V!DisableFile, V!DeleteFiles, V!RemoveActive, V!RestoreFiles

\* While a command rewrites a vhost the files hold its rendering and nothing
\* else, and the active one does until the vhost is turned off again.
RewriteInv ==
  /\ OneLayout(files)
  /\ pc \in Rewriting => files \in Only(Render(next)) /\ files.active = Render(next)
  /\ pc \in Rewriting \ {"enable"} => V!Served(files) = Render(next)

\* What a step may do to the files.
FilesShape ==
  \/ files' = files
  \/ pc = "write" /\ pc' = "enable" /\ files' = V!WriteActive(files, Render(next))
  \/ pc = "enable" /\ files' = V!EnableFile(files)
  \/ pc \in Rewriting /\ files' = V!RestoreFiles(files, snap)
  \/ pc = "turnOff" /\ files' = V!DisableFile(files)
  \/ pc = "flip" /\ files' \in {V!EnableFile(files), V!DisableFile(files)}
  \/ pc \in {"undo"} /\ cmd = "add" /\ files' = V!RemoveActive(files)
  \/ pc \in {"undo"} /\ cmd # "add" /\ next.vhost /\ files' = V!RestoreFiles(files, snap)
  \/ pc = "unlink" /\ files' \in {V!DisableFile(files), V!DeleteFiles(files)}
  \/ pc = "unlink" /\ cmd = "remove" /\ files' = V!RemoveActive(files)
  \/ pc = "write" /\ Owner \in CrashIn /\ files' = [files EXCEPT !.active = Torn]
  \/ pc = "enable" /\ Owner \in CrashIn /\ files' = V!Unlinked(files)
  \/ pc = "flip" /\ files' = V!Unlinked(files)
     /\ ("link" \in FaultKinds \/ Owner \in CrashIn)

LEMMA FilesStep ==
  ASSUME Next
  PROVE  FilesShape
<1> USE DEF FilesShape, At, Rewriting
<1>1. CASE Start
  BY <1>1
  DEF Start, Add, Modify, RuntimeSet, Redirect, AddVhost, RemoveVhost, Enable, Disable,
      Remove, SslAdd, SslRemove, Begin, disk
<1>2. CASE EnsureRuntime \/ CreatePool \/ Preview \/ ReloadVhost \/ SaveState
           \/ Activate \/ RemoveOldPool \/ UndoPool \/ Unload \/ DropPool
           \/ DeleteState \/ IssueCert \/ DeleteCert \/ OtherReload
  BY <1>2
  DEF EnsureRuntime, CreatePool, Preview, ReloadVhost, SaveState, Activate,
      RemoveOldPool, UndoPool, Unload, DropPool, DeleteState, IssueCert, DeleteCert,
      OtherReload, disk
<1>3. CASE WriteVhost
  BY <1>3 DEF WriteVhost
<1>4. CASE EnableVhost
  BY <1>4 DEF EnableVhost
<1>5. CASE TestVhost
  BY <1>5 DEF TestVhost
<1>6. CASE TurnOffVhost
  BY <1>6 DEF TurnOffVhost
<1>7. CASE FlipVhost
  BY <1>7 DEF FlipVhost, Fault
<1>8. CASE Undo
  BY <1>8 DEF Undo
<1>9. CASE Unlink
  BY <1>9 DEF Unlink
<1>10. CASE Crash
  BY <1>10 DEF Crash
<1>11. QED
  BY <1>1, <1>2, <1>3, <1>4, <1>5, <1>6, <1>7, <1>8, <1>9, <1>10 DEF Next, Step

\* How a command comes to a step of a rewrite.
RewriteShape ==
  \/ pc' \notin Rewriting
  \/ pc = "write" /\ pc' = "enable" /\ next' = next /\ snap' = V!Snapshot(files)
     /\ files' = V!WriteActive(files, Render(next))
  \/ pc = "enable" /\ pc' = "test" /\ next' = next /\ snap' = snap
     /\ files' = V!EnableFile(files)
  \/ pc = "test" /\ pc' \in {"turnOff", "reload"} /\ next' = next /\ snap' = snap
     /\ files' = files /\ (dry \/ ~Rejected(files, cert))
  \/ pc \in Rewriting /\ pc' = pc /\ UNCHANGED <<files, next, snap>>

LEMMA RewriteStep ==
  ASSUME [Next]_vars, RouteInv
  PROVE  RewriteShape
<1> USE DEF RewriteShape, At, Rewriting, Goto, Exit
<1>exit. ASSUME NEW r, Exit(r) PROVE pc' \notin Rewriting
  BY <1>exit
<1>1. CASE Start
  BY <1>1
  DEF Start, Add, Modify, RuntimeSet, Redirect, AddVhost, RemoveVhost, Enable, Disable,
      Remove, SslAdd, SslRemove, Begin
<1>2. CASE EnsureRuntime \/ CreatePool \/ Preview \/ SaveState \/ Unlink \/ Unload
           \/ DropPool \/ FlipVhost \/ IssueCert \/ DeleteCert
  BY <1>2
  DEF EnsureRuntime, CreatePool, Preview, SaveState, AfterSave, AfterFailedSave,
      AfterPool, Unlink, Unload, DropPool, FlipVhost, IssueCert, DeleteCert
<1>3. CASE Activate \/ RemoveOldPool \/ UndoPool \/ Undo \/ DeleteState \/ Crash
  BY <1>3, <1>exit DEF Activate, RemoveOldPool, UndoPool, Undo, DeleteState, Crash
<1>4. CASE NotWritten
  BY <1>4 DEF NotWritten
<1>5. CASE WriteVhost
  BY <1>4, <1>5 DEF WriteVhost
<1>6. CASE EnableVhost
  BY <1>4, <1>6 DEF EnableVhost
<1>7. CASE TestVhost
  BY <1>4, <1>7 DEF TestVhost
<1>8. CASE TurnOffVhost \/ ReloadVhost
  BY <1>4, <1>8 DEF TurnOffVhost, ReloadVhost, Written
<1>9. CASE OtherReload
  BY <1>9 DEF OtherReload, disk
<1>10. CASE UNCHANGED vars
  BY <1>10 DEF vars
<1>11. QED
  BY <1>1, <1>2, <1>3, <1>5, <1>6, <1>7, <1>8, <1>9, <1>10 DEF Next, Step

LEMMA RewriteKept ==
  ASSUME TypeOK, RouteInv, RewriteInv, [Next]_vars
  PROVE  RewriteInv'
<1> DEFINE c == Render(next)
<1>type. files \in V!Files /\ snap \in V!Files /\ c \in V!Slot
  BY RenderTyped DEF TypeOK, DiskTyped, ProcessTyped
<1>1. OneLayout(files')
  <2>1. CASE files' = files
    BY <2>1 DEF RewriteInv
  <2>2. CASE Next
    <3>1. Torn \in V!Slot
      BY DEF V!Slot
    <3>2. QED
      BY <2>2, <3>1, <1>type, FilesStep, OneLayoutKept DEF FilesShape, RewriteInv
  <2>3. QED
    BY <2>1, <2>2 DEF vars
<1>2. CASE pc' \notin Rewriting
  BY <1>1, <1>2 DEF RewriteInv, Rewriting
<1>3. CASE pc = "write" /\ pc' = "enable" /\ next' = next
           /\ files' = V!WriteActive(files, c)
  <2>1. files' \in Only(c) /\ files'.active = c
    BY <1>3, <1>type, OneLayoutKept DEF RewriteInv, V!WriteActive, V!Files
  <2>2. QED
    BY <1>1, <1>3, <2>1 DEF RewriteInv, Rewriting, Render
<1>4. CASE pc = "enable" /\ pc' = "test" /\ next' = next
           /\ files' = V!EnableFile(files)
  <2>1. files \in Only(c) /\ files.active = c
    BY <1>4 DEF RewriteInv, Rewriting
  <2>2. files' \in Only(c)
    BY <1>4, <2>1, FilesOver DEF Only
  <2>3. c # NoFile
    BY RenderTyped, SentinelAssumption DEF TypeOK, ProcessTyped
  <2>4. files'.active = c /\ V!Served(files') = c
    BY <1>4, <2>1, <2>3, <1>type
    DEF V!EnableFile, V!Served, V!Enabled, Only, Over, V!Files
  <2>5. QED
    BY <1>1, <1>4, <2>2, <2>4 DEF RewriteInv, Rewriting, Render
<1>5. CASE pc = "test" /\ pc' \in {"turnOff", "reload"} /\ next' = next /\ files' = files
  BY <1>1, <1>5 DEF RewriteInv, Rewriting, Render, V!Served, V!Enabled
<1>6. CASE pc \in Rewriting /\ pc' = pc /\ UNCHANGED <<files, next, snap>>
  BY <1>1, <1>6 DEF RewriteInv, Rewriting, Render, V!Served, V!Enabled
<1>7. QED
  BY <1>2, <1>3, <1>4, <1>5, <1>6, RewriteStep DEF RewriteShape

-----------------------------------------------------------------------------
(***************************************************************************)
(* The pools that the vhost passes PHP to.                                 *)
(***************************************************************************)

\* What a vhost file may hold when only the pools in ps exist.
Backed(ps) == {c \in V!Slot : c \in Conf /\ c.pool # NoVersion => c.pool \in ps}

\* Why the vhost never names a pool that is gone: a rewrite and its snapshot hold
\* backed contents, what SetRuntime goes back to was backed by the pools it goes
\* back to, and the old pool is dropped once the files hold the new rendering alone.
ServedInv ==
  /\ Loaded /\ saved.vhost /\ cmd # "remove" => files \in Over(Backed(pools))
  /\ pc \in Rewriting /\ Loaded /\ saved.vhost => snap \in Over(Backed(pools))
  /\ cmd = "runtimeSet" /\ cur.vhost => begin[2] \in Over(Backed(begin[3]))
  /\ pc \in {"save", "oldPool"} /\ next.vhost /\ cmd \in {"add", "vhostAdd", "runtimeSet"}
       => files \in Only(Render(next))

LEMMA BackedContents ==
  ASSUME NEW ps
  PROVE  /\ NoFile \in Backed(ps) /\ Torn \in Backed(ps)
         /\ \A qs : ps \subseteq qs => Backed(ps) \subseteq Backed(qs)
         /\ \A st \in State : (st.pool # NoVersion => st.pool \in ps)
                              => Render(st) \in Backed(ps)
<1>1. NoFile \in Backed(ps) /\ Torn \in Backed(ps)
  BY SentinelAssumption DEF Backed, V!Slot
<1>2. \A qs : ps \subseteq qs => Backed(ps) \subseteq Backed(qs)
  BY DEF Backed
<1>3. ASSUME NEW st \in State, st.pool # NoVersion => st.pool \in ps
      PROVE  Render(st) \in Backed(ps)
  <2>1. Render(st) \in V!Slot /\ Render(st).pool \in {st.pool, NoVersion}
    BY RenderTyped DEF Render
  <2>2. QED
    BY <1>3, <2>1 DEF Backed
<1>4. QED
  BY <1>1, <1>2, <1>3

\* How the pools and the state file change together.
PoolShape ==
  \/ pools' = pools
  \/ pc = "pool" /\ pools \subseteq pools' /\ saved' = saved
  \/ pc = "oldPool" /\ pools' = pools \ {cur.php} /\ saved' = saved /\ cmd' = "none"
  \/ pc \in {"undoPool", "undo"} /\ pools' = pools \ {newPool} /\ cmd' = "none"
     /\ (pc = "undoPool" \/ cmd = "add" => saved' = saved)
  \/ pc = "droppool" /\ cmd' = cmd

LEMMA PoolsStep ==
  ASSUME Next
  PROVE  PoolShape
<1> USE DEF PoolShape, At, Exit
<1>1. CASE Start \/ FileStep
  BY <1>1, FileStepIsShaped
  DEF FileStepShape, Start, Add, Modify, RuntimeSet, Redirect, AddVhost, RemoveVhost,
      Enable, Disable, Remove, SslAdd, SslRemove, Begin, disk
<1>2. CASE CreatePool
  BY <1>2 DEF CreatePool
<1>3. CASE RemoveOldPool
  BY <1>3 DEF RemoveOldPool
<1>4. CASE UndoPool \/ Undo
  BY <1>4 DEF UndoPool, Undo
<1>5. CASE DropPool
  BY <1>5 DEF DropPool, Goto, args
<1>6. CASE SaveState \/ DeleteState \/ Crash \/ OtherReload
  BY <1>6 DEF SaveState, DeleteState, Crash, OtherReload, disk
<1>7. QED
  BY <1>1, <1>2, <1>3, <1>4, <1>5, <1>6 DEF Next, Step, FileStep

\* How a command comes to its save with a vhost that it has rewritten.
SaveShape ==
  \/ pc' \notin {"save", "oldPool"}
  \/ pc = "save" /\ pc' = "oldPool" /\ UNCHANGED <<files, next, cmd>>
  \/ pc' = pc /\ UNCHANGED <<files, next, cmd>>
  \/ pc = "turnOff" /\ next' = next /\ files' = V!DisableFile(files)
  \/ pc = "reload" /\ UNCHANGED <<files, next>>
  \/ cmd' \notin {"add", "vhostAdd", "runtimeSet"}
  \/ ~next'.vhost

LEMMA SavesStep ==
  ASSUME TypeOK, CommandInv, [Next]_vars
  PROVE  SaveShape
<1> USE DEF SaveShape, At, Goto, args, Exit, CommandInv, RouteInv
<1>1. CASE Start
  BY <1>1
  DEF Start, Add, Modify, RuntimeSet, Redirect, AddVhost, RemoveVhost, Enable, Disable,
      Remove, SslAdd, SslRemove, Begin
<1>2. CASE EnsureRuntime
  BY <1>2 DEF EnsureRuntime, AfterPool, NeedsVhost
<1>3. CASE CreatePool
  <2>1. CASE pc' = "save"
    <3>1. next' = [next EXCEPT !.pool = next.php] /\ pc' = AfterPool /\ cmd' = cmd
      BY <1>3, <2>1 DEF CreatePool
    <3>2. next'.vhost = next.vhost
      BY <3>1 DEF TypeOK, ProcessTyped, State
    <3>3. QED
      BY <1>3, <2>1, <3>1, <3>2 DEF CreatePool, AfterPool, NeedsVhost
  <2>2. CASE pc' # "save"
    BY <1>3, <2>2 DEF CreatePool, AfterPool
  <2>3. QED
    BY <2>1, <2>2
<1>4. CASE NotWritten
  BY <1>4 DEF NotWritten
<1>5. CASE WriteVhost \/ EnableVhost \/ TestVhost
  BY <1>4, <1>5 DEF WriteVhost, EnableVhost, TestVhost
<1>6. CASE TurnOffVhost \/ ReloadVhost
  BY <1>4, <1>6 DEF TurnOffVhost, ReloadVhost, Written, disk
<1>7. CASE SaveState
  BY <1>7 DEF SaveState, AfterSave, AfterFailedSave
<1>8. CASE Preview \/ FlipVhost \/ Unlink \/ Unload \/ IssueCert \/ DeleteCert \/ DropPool
  BY <1>8 DEF Preview, FlipVhost, Unlink, Unload, IssueCert, DeleteCert, DropPool
<1>9. CASE Activate \/ RemoveOldPool \/ UndoPool \/ Undo \/ DeleteState \/ Crash
  BY <1>9 DEF Activate, RemoveOldPool, UndoPool, Undo, DeleteState, Crash
<1>10. CASE OtherReload \/ UNCHANGED vars
  BY <1>10 DEF OtherReload, vars, disk
<1>11. QED
  BY <1>1, <1>2, <1>3, <1>5, <1>6, <1>7, <1>8, <1>9, <1>10 DEF Next, Step

\* How the state file changes.
StoreShape ==
  \/ saved' = saved
  \/ saved' = Torn
  \/ saved' = NoState /\ pc = "delete" /\ cmd' = "none"
  \/ saved' = next /\ pc = "save" /\ UNCHANGED <<files, pools, cert>>
  \/ saved' = cur /\ pc = "undo" /\ cmd # "add"

LEMMA StoresStep ==
  ASSUME Next
  PROVE  StoreShape
<1> USE DEF StoreShape, At, Exit
<1>1. CASE Start \/ FileStep
  BY <1>1, FileStepIsShaped
  DEF FileStepShape, Start, Add, Modify, RuntimeSet, Redirect, AddVhost, RemoveVhost,
      Enable, Disable, Remove, SslAdd, SslRemove, Begin, disk
<1>2. CASE CreatePool \/ RemoveOldPool \/ UndoPool \/ DropPool \/ Crash \/ OtherReload
  BY <1>2 DEF CreatePool, RemoveOldPool, UndoPool, DropPool, Crash, OtherReload, disk
<1>3. CASE SaveState \/ DeleteState \/ Undo
  BY <1>3 DEF SaveState, DeleteState, Undo
<1>4. QED
  BY <1>1, <1>2, <1>3 DEF Next, Step, FileStep

\* A command that goes on keeps what it loaded and what it found on disk, and
\* Remove goes on until the state file is deleted.
LEMMA GoesOn ==
  ASSUME RouteInv, Next
  PROVE  /\ cmd # "none" /\ cmd' # "none" => cur' = cur /\ begin' = begin
         /\ cmd # "none" /\ cmd' # "none" /\ cmd' # cmd
              => cmd \in {"sslAdd", "sslRemove"} /\ cmd' \in Tails
         /\ RemoveCompletes /\ cmd = "remove" /\ cmd' # "remove" => saved' = NoState
<1> USE DEF Exit, Goto, args, At, Tails, RouteInv
<1>1. CASE Start
  BY <1>1
  DEF Start, Add, Modify, RuntimeSet, Redirect, AddVhost, RemoveVhost, Enable, Disable,
      Remove, SslAdd, SslRemove, Begin, Idle
<1>2. CASE FileStep /\ ~Unlink /\ ~Unload
  <2>1. cmd # "remove"
    BY <1>2
    DEF FileStep, EnsureRuntime, Preview, WriteVhost, EnableVhost, TestVhost,
        TurnOffVhost, ReloadVhost, FlipVhost, Activate, IssueCert, DeleteCert, Rewriters,
        Rewriting
  <2>2. cmd' # "none" /\ cmd' # cmd => cmd \in {"sslAdd", "sslRemove"}
    BY <1>2
    DEF FileStep, EnsureRuntime, Preview, WriteVhost, EnableVhost, TestVhost,
        TurnOffVhost, ReloadVhost, FlipVhost, Activate, IssueCert, DeleteCert, Written,
        NotWritten
  <2>3. QED
    BY <1>2, <2>1, <2>2, FileStepIsShaped DEF FileStepShape
<1>3. CASE Unlink \/ Unload
  BY <1>3 DEF Unlink, Unload
<1>4. CASE CreatePool \/ SaveState \/ RemoveOldPool \/ UndoPool \/ Undo
  BY <1>4
  DEF CreatePool, SaveState, AfterSave, AfterFailedSave, RemoveOldPool, UndoPool, Undo
<1>5. CASE DropPool
  BY <1>5 DEF DropPool
<1>6. CASE DeleteState
  BY <1>6 DEF DeleteState, RemoveCompletes, Fault
<1>7. CASE Crash
  BY <1>7 DEF Crash, Owner, RemoveCompletes
<1>8. CASE OtherReload
  BY <1>8 DEF OtherReload
<1>9. QED
  BY <1>1, <1>2, <1>3, <1>4, <1>5, <1>6, <1>7, <1>8 DEF Next, Step, FileStep

\* Without a command only an administrator, or another program, does something.
LEMMA StepLeaves ==
  ASSUME RouteInv, Next, cmd = "none"
  PROVE  Start \/ (OtherReload /\ cmd' = "none")
BY DEF RouteInv, Next, Step, EnsureRuntime, CreatePool, Preview, WriteVhost, EnableVhost,
       TestVhost, TurnOffVhost, ReloadVhost, FlipVhost, SaveState, Activate,
       RemoveOldPool, UndoPool, Undo, Unlink, Unload, DropPool, DeleteState, IssueCert,
       DeleteCert, Crash, OtherReload, Idle, At, args

\* The files of a project with a vhost stay backed: first when the same state
\* stays stored and the pools stay.
LEMMA FilesStayBacked ==
  ASSUME TypeOK, PoolInv, RouteInv, Next, pc # "undo",
         pc \in Rewriting => snap \in Over(Backed(pools)),
         files \in Over(Backed(pools))
  PROVE  files' \in Over(Backed(pools))
<1> DEFINE S == Backed(pools)
<1>1. NoFile \in S /\ Torn \in S
  BY BackedContents
<1>2. pc = "write" => Render(next) \in S
  <2>1. pc = "write" => (next.pool # NoVersion => next.pool \in pools)
    BY DEF PoolInv, Idle, At, Held
  <2>2. QED
    BY <2>1, BackedContents DEF TypeOK, ProcessTyped
<1>3. ASSUME NEW f \in Over({NoFile}) PROVE f \in Over(S)
  BY <1>1, <1>3, OverMonotone
<1>4. FilesShape
  BY FilesStep
<1>5. files \in Over(S) /\ (pc \in Rewriting => snap \in Over(S))
  OBVIOUS
<1> SUFFICES files' \in Over(S)
  OBVIOUS
<1> HIDE DEF S
<1>6. \A c \in S : /\ V!WriteActive(files, c) \in Over(S)
                   /\ [files EXCEPT !.active = c] \in Over(S)
  BY <1>1, <1>5, FilesOver
<1>7. /\ V!EnableFile(files) \in Over(S) /\ V!Unlinked(files) \in Over(S)
      /\ V!DisableFile(files) \in Over(S) /\ V!DeleteFiles(files) \in Over({NoFile})
      /\ V!RemoveActive(files) \in Over(S)
      /\ pc \in Rewriting => V!RestoreFiles(files, snap) \in Over(S)
  BY <1>1, <1>5, FilesOver
<1>8. QED
  BY <1>1, <1>2, <1>3, <1>4, <1>5, <1>6, <1>7 DEF FilesShape

LEMMA ServedStep ==
  ASSUME RemoveCompletes, TypeOK, VersionsKept, Quiet, PoolInv, UndoInv, CommandInv,
         RewriteInv, ServedInv, PoolInv', TypeOK', Next
  PROVE  ServedInv'
<1>shapes. FilesShape /\ PoolShape /\ StoreShape
  BY FilesStep, PoolsStep, StoresStep
<1>torn. Torn \notin State /\ NoState \notin State
  BY SentinelAssumption
<1>only. ASSUME NEW st \in State, NEW f \in Only(Render(st)), NEW ps,
                st.pool # NoVersion => st.pool \in ps
         PROVE  f \in Over(Backed(ps))
  <2>1. Render(st) \in Backed(ps) /\ NoFile \in Backed(ps)
    BY <1>only, BackedContents
  <2>2. QED
    BY <1>only, <2>1, OverMonotone DEF Only
<1>1. ASSUME Loaded', saved'.vhost, cmd' # "remove"
      PROVE  files' \in Over(Backed(pools'))
  <2>1. CASE pc = "idle"
    <3>1. files' = files /\ pools' = pools /\ saved' = saved /\ cmd = "none"
      BY <2>1, <1>shapes, <1>1, <1>torn
      DEF FilesShape, PoolShape, StoreShape, Rewriting, Loaded, CommandInv, RouteInv
    <3>2. QED
      BY <3>1, <1>1 DEF ServedInv, Loaded
  <2>2. CASE pc = "oldPool" /\ pools' = pools \ {cur.php}
    <3>1. saved' = next /\ saved = next /\ files' = files /\ cmd = "runtimeSet"
      BY <2>2, <1>shapes, <1>1, <1>torn
      DEF FilesShape, StoreShape, Rewriting, Loaded, CommandInv, StoredInv, RouteInv
    <3>2. files' \in Only(Render(saved'))
      BY <2>2, <3>1, <1>1 DEF ServedInv
    <3>3. saved'.pool # NoVersion => saved'.pool \in pools'
      <4>1. pc' # "delete"
        BY <2>2 DEF Next, Start, Add, Modify, RuntimeSet, Redirect, AddVhost, RemoveVhost,
           Enable, Disable, Remove, SslAdd, SslRemove, Begin, Idle, Step, EnsureRuntime,
           CreatePool, Preview, WriteVhost, EnableVhost, TestVhost, TurnOffVhost,
           ReloadVhost, FlipVhost, SaveState, Activate, RemoveOldPool, UndoPool, Undo,
           Unlink, Unload, DropPool, DeleteState, IssueCert, DeleteCert, Crash,
           OtherReload, At, Exit
      <4>2. QED
        BY <4>1, <1>1 DEF PoolInv, RecordedPoolExists, At, Loaded
    <3>4. QED
      BY <3>2, <3>3, <1>1, <1>only DEF Loaded
  <2>3. CASE pc \in {"undoPool", "undo"}
    <3>1. cmd \in {"add", "runtimeSet"}
      BY <2>3 DEF CommandInv, RouteInv
    <3>2. cmd = "runtimeSet" /\ saved' = cur
      BY <2>3, <3>1, <1>shapes, <1>1, <1>torn
      DEF StoreShape, CommandInv, StoredInv, Loaded
    <3>3. CASE UndoPool
      <4>1. pools' = begin[3] /\ files' = begin[2]
        BY <3>2, <3>3 DEF UndoPool, UndoInv, At
      <4>2. QED
        BY <3>2, <4>1, <1>1 DEF ServedInv
    <3>4. CASE Undo
      <4>1. pools' = begin[3] /\ files' = begin[2]
        BY <3>2, <3>4 DEF Undo, UndoInv, At
      <4>2. QED
        BY <3>2, <4>1, <1>1 DEF ServedInv
    <3>5. CASE Crash \/ OtherReload
      <4>1. files' = files /\ pools' = pools /\ saved' = saved
        BY <2>3, <3>5, <1>1, <1>torn DEF Crash, OtherReload, disk, At, Loaded
      <4>2. QED
        BY <4>1, <3>2, <1>1 DEF ServedInv, Loaded
    <3>6. QED
      BY <2>3, <3>3, <3>4, <3>5
      DEF Next, Start, Add, Modify, RuntimeSet, Redirect, AddVhost, RemoveVhost,
          Enable, Disable, Remove, SslAdd, SslRemove, Begin, Idle, Step, EnsureRuntime,
          CreatePool, Preview, WriteVhost, EnableVhost, TestVhost, TurnOffVhost,
          ReloadVhost, FlipVhost, SaveState, Activate, RemoveOldPool,
          Unlink, Unload, DropPool, DeleteState, IssueCert, DeleteCert, At
  <2>4. CASE pc = "droppool"
    <3>1. cmd = "remove"
      BY <2>4 DEF CommandInv, RouteInv
    <3>2. QED
      BY <3>1, <1>1, <1>torn, GoesOn DEF CommandInv, Loaded
  <2>5. CASE pc = "save" /\ saved' = next /\ UNCHANGED <<files, pools>>
    <3>1. CASE cmd \in {"add", "vhostAdd", "runtimeSet"}
      <4>1. files' \in Only(Render(next))
        BY <2>5, <3>1, <1>1 DEF ServedInv
      <4>2. next.pool # NoVersion => next.pool \in pools'
        BY <2>5 DEF PoolInv, Idle, At, Held
      <4>3. QED
        BY <2>5, <4>1, <4>2, <1>1, <1>only DEF Loaded
    <3>2. CASE cmd \notin {"add", "vhostAdd", "runtimeSet"}
      <4>1. cmd \notin {"none", "remove", "vhostRemove"} /\ saved = cur /\ cur.vhost
        BY <2>5, <3>2, <1>1 DEF CommandInv, RouteInv, StoredInv, PlanInv
      <4>2. Loaded
        BY <4>1 DEF Loaded, TypeOK, ProcessTyped
      <4>3. QED
        BY <2>5, <4>1, <4>2 DEF ServedInv
    <3>3. QED
      BY <3>1, <3>2
  <2>6. CASE pc \notin {"idle", "undoPool", "undo", "droppool"} /\ saved' = saved
             /\ pools \subseteq pools' /\ (pc # "pool" => pools' = pools)
    <3>1. cmd # "remove"
      BY <2>6, <1>1, <1>torn, GoesOn DEF CommandInv, Loaded
    <3>2. files \in Over(Backed(pools))
      BY <2>6, <3>1, <1>1 DEF ServedInv, Loaded
    <3>3. pc \in Rewriting => snap \in Over(Backed(pools))
      BY <2>6, <1>1 DEF ServedInv, Loaded
    <3>4. files' \in Over(Backed(pools))
      BY <2>6, <3>2, <3>3, FilesStayBacked DEF CommandInv
    <3>5. QED
      BY <2>6, <3>4, BackedContents, OverMonotone
  <2>7. QED
    BY <2>1, <2>2, <2>3, <2>4, <2>5, <2>6, <1>shapes, <1>1, <1>torn
    DEF PoolShape, StoreShape, Loaded
<1>2. ASSUME pc' \in Rewriting, Loaded', saved'.vhost
      PROVE  snap' \in Over(Backed(pools'))
  <2>1. RewriteShape
    BY RewriteStep DEF CommandInv
  <2>2. pc \in {"write"} \cup Rewriting /\ pools' = pools /\ saved' = saved
    BY <2>1, <1>shapes, <1>2, <1>torn DEF RewriteShape, PoolShape, StoreShape, Rewriting, Loaded
  <2>3. cmd # "remove"
    BY <2>2 DEF CommandInv, RouteInv, Rewriters
  <2>4. files \in Over(Backed(pools)) /\ NoFile \in Backed(pools)
    BY <2>2, <2>3, <1>2, BackedContents DEF ServedInv, Loaded
  <2>5. pc = "write" => snap' \in Over(Backed(pools))
    BY <2>1, <2>4, <1>2, FilesOver DEF RewriteShape, Rewriting
  <2>6. pc # "write" => snap' = snap /\ pc \in Rewriting
    BY <2>1, <2>2, <1>2 DEF RewriteShape
  <2>7. QED
    BY <2>2, <2>5, <2>6, <1>2 DEF ServedInv, Loaded
<1>3. ASSUME cmd' = "runtimeSet", cur'.vhost
      PROVE  begin'[2] \in Over(Backed(begin'[3]))
  <2>1. CASE cmd = "none"
    <3>1. Start
      BY <1>3, <2>1, StepLeaves DEF CommandInv
    <3>2. /\ begin' = <<saved, files, pools>> /\ cur' = saved /\ Loaded
      BY <1>3, <3>1, StartCommand DEF Opened, CommandInv
    <3>3. files \in Over(Backed(pools))
      BY <1>3, <2>1, <3>2 DEF ServedInv
    <3>4. QED
      BY <3>2, <3>3
  <2>2. CASE cmd # "none"
    <3>1. cmd = cmd' /\ cur' = cur /\ begin' = begin
      BY <1>3, <2>2, GoesOn DEF CommandInv, Tails
    <3>2. QED
      BY <1>3, <3>1 DEF ServedInv
  <2>3. QED
    BY <2>1, <2>2
<1>4. ASSUME pc' \in {"save", "oldPool"}, next'.vhost, cmd' \in {"add", "vhostAdd", "runtimeSet"}
      PROVE  files' \in Only(Render(next'))
  <2>1. SaveShape
    BY SavesStep
  <2>2. CASE next' = next /\ files' = V!DisableFile(files) /\ pc = "turnOff"
    <3>1. files \in Only(Render(next))
      BY <2>2 DEF RewriteInv, Rewriting
    <3>2. QED
      BY <2>2, <3>1, FilesOver DEF Only
  <2>3. CASE pc \in {"save", "oldPool"} /\ UNCHANGED <<files, next, cmd>>
    BY <1>4, <2>3 DEF ServedInv
  <2>4. CASE pc = "reload" /\ UNCHANGED <<files, next>>
    BY <2>4 DEF RewriteInv, Rewriting
  <2>5. QED
    BY <1>4, <2>1, <2>2, <2>3, <2>4 DEF SaveShape
<1>5. QED
  BY <1>1, <1>2, <1>3, <1>4 DEF ServedInv

LEMMA RestInit == Init => Quiet /\ PoolInv /\ UndoInv /\ RewriteInv /\ ServedInv
BY SentinelAssumption, ProjectAssumption
   DEF Init, Quiet, PoolInv, UndoInv, RewriteInv, ServedInv, RecordedPoolExists, Loaded,
       Idle, At, Rewriting, OneLayout, V!NoVhost

\* In every execution the vhost of a recorded project passes PHP to no pool that is
\* gone, at no step of any command, killed or failed where it may be, if Remove is
\* not stopped between dropping the pool and deleting the state file.
THEOREM ServedPoolsExist ==
  ASSUME RemoveCompletes
  PROVE  Spec => []ServedPoolExists
<1> DEFINE Inv == Quiet /\ PoolInv /\ UndoInv /\ CommandInv /\ RewriteInv /\ ServedInv
           Typed == TypeOK /\ VersionsKept
<1>1. Init => Inv
  BY CommandInit, RestInit
<1>2. Typed /\ Inv /\ [Next]_vars /\ Typed' => Inv'
  <2> SUFFICES ASSUME Typed, Inv, [Next]_vars, Typed' PROVE Inv'
    OBVIOUS
  <2>1. (Quiet /\ PoolInv /\ UndoInv)'
    BY QuietStep, PoolStep, UndoStep
  <2>2. CommandInv' /\ RewriteInv'
    BY CommandStep, RewriteKept DEF CommandInv
  <2>3. ServedInv'
    <3>1. CASE Next
      BY <2>1, <3>1, ServedStep
    <3>2. CASE UNCHANGED vars
      BY <3>2 DEF vars, disk, args, ServedInv, Loaded
    <3>3. QED
      BY <3>1, <3>2
  <2>4. QED
    BY <2>1, <2>2, <2>3
<1>3. Inv => ServedPoolExists
  <2> SUFFICES ASSUME ServedInv, Loaded, saved.vhost, cmd # "remove"
               PROVE  V!Served(files) \in Backed(pools)
    BY DEF ServedPoolExists, Backed
  <2>1. QED
    BY BackedContents DEF ServedInv, Over, V!Served
<1>4. QED
  BY <1>1, <1>2, <1>3, TypedInvariant, PTL DEF Spec

-----------------------------------------------------------------------------
(***************************************************************************)
(* --dry-run.                                                              *)
(***************************************************************************)

\* The commands that look at --dry-run themselves.
DryHonoured == DryIn \subseteq {"runtimeSet", "redirect", "sslAdd", "sslRemove"}

\* A dry command is at its first step: the preview ends it.
DryInv == dry => /\ pc \in {"ensure", "render", "plain", "issue"}
                 /\ cmd \in {"runtimeSet", "redirect", "sslAdd", "sslRemove"}

LEMMA DryExit ==
  ASSUME NEW r, Exit(r)
  PROVE  DryInv'
BY DEF Exit, DryInv

LEMMA DryStart ==
  ASSUME DryHonoured, Start
  PROVE  DryInv'
<1> USE DEF Begin, DryHonoured, DryInv
<1>1. CASE RuntimeSet \/ Redirect
  BY <1>1 DEF RuntimeSet, Redirect
<1>2. CASE SslAdd \/ SslRemove
  BY <1>2 DEF SslAdd, SslRemove
<1>3. CASE Add \/ Modify \/ AddVhost
  BY <1>3 DEF Add, Modify, AddVhost
<1>4. CASE RemoveVhost \/ Enable \/ Disable \/ Remove
  BY <1>4 DEF RemoveVhost, Enable, Disable, Remove
<1>5. QED
  BY <1>1, <1>2, <1>3, <1>4 DEF Start

\* No step of a dry command does more than end it.
LEMMA DryStep ==
  ASSUME RouteInv, DryInv, dry, Step
  PROVE  UNCHANGED <<disk, live>> /\ \E r \in {"ok", "error"} : Exit(r)
<1>1. CASE EnsureRuntime
  BY <1>1 DEF EnsureRuntime, RouteInv, DryInv, At
<1>2. CASE Preview
  BY <1>2 DEF Preview
<1>3. CASE IssueCert
  BY <1>3 DEF IssueCert, disk
<1>4. QED
  BY <1>1, <1>2, <1>3
  DEF DryInv, Step, At, CreatePool, WriteVhost, EnableVhost, TestVhost, TurnOffVhost,
      ReloadVhost, FlipVhost, SaveState, Activate, RemoveOldPool, UndoPool, Undo,
      Unlink, Unload, DropPool, DeleteState, DeleteCert

LEMMA DryNext ==
  ASSUME DryHonoured, RouteInv, DryInv, [Next]_vars
  PROVE  DryInv'
<1>1. CASE Start
  BY <1>1, DryStart
<1>2. CASE Step /\ dry
  BY <1>2, DryStep, DryExit
<1>3. CASE Step /\ ~dry
  <2>1. dry' = dry \/ ~dry'
    <3>1. CASE FileStep
      BY <3>1, <1>3
      DEF FileStep, EnsureRuntime, Preview, WriteVhost, EnableVhost, TestVhost,
          TurnOffVhost, ReloadVhost, FlipVhost, Activate, Unlink, Unload, IssueCert,
          DeleteCert, Written, NotWritten, Exit, Goto, args
    <3>2. CASE ~FileStep
      BY <3>2, <1>3
      DEF Step, FileStep, CreatePool, SaveState, AfterSave, AfterFailedSave,
          RemoveOldPool, UndoPool, Undo, DropPool, DeleteState, Exit, Goto, args
    <3>3. QED
      BY <3>1, <3>2
  <2>2. QED
    BY <1>3, <2>1 DEF DryInv
<1>4. CASE Crash
  BY <1>4, DryExit DEF Crash
<1>5. CASE OtherReload \/ UNCHANGED vars
  BY <1>5 DEF OtherReload, vars, args, DryInv
<1>6. QED
  BY <1>1, <1>2, <1>3, <1>4, <1>5 DEF Next

\* "Show what would happen without making changes": in every execution the commands
\* that honour --dry-run change no file, no pool, no certificate and nothing that
\* nginx serves while they run dry, not even by being killed.  (What another program
\* does to nginx meanwhile is not their doing.)
THEOREM DryRunsChangeNothing ==
  ASSUME DryHonoured, ~OtherReloads
  PROVE  Spec => DryRunChangesNothing
<1> DEFINE Nothing == dry => UNCHANGED <<disk, live>>
<1>1. Init => CommandInv /\ DryInv
  BY CommandInit DEF Init, DryInv
<1>2. TypeOK /\ VersionsKept /\ CommandInv /\ DryInv /\ [Next]_vars => (CommandInv /\ DryInv)'
  BY CommandStep, DryNext DEF CommandInv
<1>3. CommandInv /\ DryInv /\ [Next]_vars => [Nothing]_vars
  <2> SUFFICES ASSUME CommandInv, DryInv, Next, dry
               PROVE  UNCHANGED <<disk, live>>
    OBVIOUS
  <2>1. CASE Start
    <3>1. pc = "idle"
      BY <2>1
      DEF Start, Add, Modify, RuntimeSet, Redirect, AddVhost, RemoveVhost, Enable,
          Disable, Remove, SslAdd, SslRemove, Begin, Idle
    <3>2. QED
      BY <3>1 DEF DryInv
  <2>2. CASE Step
    BY <2>2, DryStep DEF CommandInv
  <2>3. CASE Crash
    BY <2>3 DEF Crash, DryInv, At, disk
  <2>4. CASE OtherReload
    BY <2>4 DEF OtherReload
  <2>5. QED
    BY <2>1, <2>2, <2>3, <2>4 DEF Next
<1>4. QED
  BY <1>1, <1>2, <1>3, TypedInvariant, PTL DEF Spec, DryRunChangesNothing

-----------------------------------------------------------------------------
(***************************************************************************)
(* The certificate that the vhost names.                                   *)
(***************************************************************************)

\* What a vhost file may hold when there is no certificate, and as things are.
Plain     == {c \in V!Slot : c \in Conf => ~c.tls}
Certified == IF cert THEN V!Slot ELSE Plain

\* Why an enabled vhost never names a missing certificate: a rewrite is tested
\* before it is kept, what every rollback goes back to was tested before, and
\* certbot deletes the certificate only of files without TLS.
TlsInv ==
  /\ Loaded /\ saved.tls => saved.vhost
  /\ cmd \notin {"none", "add"} /\ cur.tls => cur.vhost
  /\ pc \notin {"enable", "test"} => files \in Over(Certified)
  /\ pc \in Rewriting => snap \in Over(Certified)
  /\ cmd = "runtimeSet" => begin[2] \in Over(Certified)
  /\ cmd = "sslAdd" /\ pc # "issue" => cert
  /\ cmd = "sslPutback" \/ pc = "certdel" => cert
  /\ pc = "certdel" => files \in Over(Plain)
  /\ cmd = "vhostRemove" /\ pc # "unlink" => files \in Over({NoFile})
  /\ Loaded /\ saved.cert /\ ~saved.vhost =>
       /\ files \in Over(Plain)
       /\ pc \in Rewriting => snap \in Over(Plain)
  /\ cmd = "runtimeSet" /\ cur.cert /\ ~cur.vhost => begin[2] \in Over(Plain)

\* The commands that may put back HTTPS without having asked certbot for it: those
\* must not be killed between writing the vhost and testing it.
TestedBeforeKilled == CrashIn \cap {"modify", "redirect", "runtimeSet"} = {}

LEMMA PlainContents ==
  /\ NoFile \in Plain /\ Torn \in Plain /\ Plain \subseteq V!Slot
  /\ Plain \subseteq Certified /\ Certified \subseteq V!Slot
  /\ \A st \in State : ~st.tls => Render(st) \in Plain
<1>1. NoFile \in Plain /\ Torn \in Plain /\ Plain \subseteq V!Slot
  BY SentinelAssumption DEF Plain, V!Slot
<1>2. ASSUME NEW st \in State, ~st.tls PROVE Render(st) \in Plain
  <2>1. Render(st) \in V!Slot /\ Render(st).tls = st.tls
    BY RenderTyped DEF Render
  <2>2. QED
    BY <1>2, <2>1 DEF Plain
<1>3. QED
  BY <1>1, <1>2 DEF Certified

\* The certificate comes with certbot's issue and goes with its delete.
LEMMA CertStep ==
  ASSUME [Next]_vars
  PROVE  \/ cert' = cert
         \/ pc = "issue" /\ cert' /\ files' = files
         \/ pc = "certdel" /\ ~cert' /\ files' = files
<1>1. CASE Start \/ Crash \/ OtherReload \/ UNCHANGED vars
  BY <1>1
  DEF Start, Add, Modify, RuntimeSet, Redirect, AddVhost, RemoveVhost, Enable,
      Disable, Remove, SslAdd, SslRemove, Begin, Crash, OtherReload, vars, disk
<1>2. CASE IssueCert \/ DeleteCert
  BY <1>2 DEF IssueCert, DeleteCert, At
<1>3. CASE EnsureRuntime \/ Preview \/ ReloadVhost \/ Activate \/ Unload
  BY <1>3 DEF EnsureRuntime, Preview, ReloadVhost, Activate, Unload, disk
<1>4. CASE CreatePool \/ WriteVhost \/ EnableVhost \/ TestVhost \/ TurnOffVhost
           \/ FlipVhost \/ SaveState \/ RemoveOldPool \/ UndoPool \/ Undo \/ Unlink
           \/ DropPool \/ DeleteState
  BY <1>4
  DEF CreatePool, WriteVhost, EnableVhost, TestVhost, TurnOffVhost, FlipVhost,
      SaveState, RemoveOldPool, UndoPool, Undo, Unlink, DropPool, DeleteState
<1>5. QED
  BY <1>1, <1>2, <1>3, <1>4 DEF Next, Step

\* How a rewrite that has not been tested ends.
LEMMA UntestedStep ==
  ASSUME RouteInv, Next, pc \in {"enable", "test"}, pc' \notin {"enable", "test"}
  PROVE  \/ files' = V!RestoreFiles(files, snap)
         \/ pc = "test" /\ files' = files /\ (dry \/ ~Rejected(files, cert))
         \/ Owner \in CrashIn /\ files' \in {files, V!Unlinked(files)}
<1>1. CASE EnableVhost
  BY <1>1 DEF EnableVhost, Goto
<1>2. CASE TestVhost
  BY <1>2 DEF TestVhost, At
<1>3. CASE Crash
  BY <1>3 DEF Crash, At
<1>4. CASE ~(EnableVhost \/ TestVhost \/ Crash)
  BY <1>4
  DEF Next, Start, Add, Modify, RuntimeSet, Redirect, AddVhost, RemoveVhost, Enable,
      Disable, Remove, SslAdd, SslRemove, Begin, Idle, Step, EnsureRuntime,
      CreatePool, Preview, WriteVhost, TurnOffVhost, ReloadVhost, FlipVhost, SaveState,
      Activate, RemoveOldPool, UndoPool, Undo, Unlink, Unload, DropPool, DeleteState,
      IssueCert, DeleteCert, OtherReload, At
<1>5. QED
  BY <1>1, <1>2, <1>3, <1>4

\* How the commands come to the steps that TlsInv is about.
TlsShape ==
  /\ cmd' = "sslAdd" => pc' = "issue" \/ (cmd = "sslAdd" /\ pc # "issue" /\ cert' = cert)
                        \/ (pc = "issue" /\ cert')
  /\ cmd' = "sslPutback" => /\ cmd = "sslPutback" \/ pc = "certdel"
                            /\ cert' = cert
  /\ pc' = "certdel" =>
       /\ cert' = cert
       /\ \/ pc = "certdel" /\ files' = files
          \/ pc = "plain" /\ cert /\ ~cur.vhost /\ files' = files
          \/ cmd = "sslRemove" /\ pc = "turnOff" /\ cert /\ files' = V!DisableFile(files)
          \/ cmd = "sslRemove" /\ pc = "reload" /\ cert /\ files' = files
  /\ cmd' = "vhostRemove" => \/ pc' = "unlink"
                             \/ pc = "unlink" /\ files' = V!DeleteFiles(files)
                             \/ cmd = "vhostRemove" /\ pc # "unlink" /\ files' = files

LEMMA TlsStepShape ==
  ASSUME RouteInv, Next
  PROVE  TlsShape
<1> USE DEF TlsShape, Goto, Exit, At, args, RouteInv
<1>0. cert' = cert \/ pc = "issue" \/ pc = "certdel"
  BY CertStep
<1>1. CASE Start
  BY <1>1
  DEF Start, Add, Modify, RuntimeSet, Redirect, AddVhost, RemoveVhost, Enable,
      Disable, Remove, SslAdd, SslRemove, Begin
<1>2. CASE EnsureRuntime \/ CreatePool \/ SaveState
  BY <1>0, <1>2
  DEF EnsureRuntime, CreatePool, SaveState, AfterPool, AfterSave, AfterFailedSave, disk
<1>3. CASE Preview
  BY <1>0, <1>3 DEF Preview, disk
<1>4. CASE WriteVhost \/ EnableVhost \/ TestVhost
  BY <1>0, <1>4 DEF WriteVhost, EnableVhost, TestVhost, NotWritten, Rewriters, Rewriting
<1>5. CASE TurnOffVhost
  BY <1>0, <1>5 DEF TurnOffVhost, NotWritten, Written, Rewriters, Rewriting
<1>6. CASE ReloadVhost
  BY <1>0, <1>6 DEF ReloadVhost, Written, Rewriters, Rewriting, disk
<1>7. CASE Unlink \/ Unload
  BY <1>0, <1>7 DEF Unlink, Unload, disk
<1>8. CASE FlipVhost \/ DropPool
  BY <1>0, <1>8 DEF FlipVhost, DropPool
<1>9. CASE Activate \/ RemoveOldPool \/ UndoPool \/ Undo \/ DeleteState \/ Crash
  BY <1>9 DEF Activate, RemoveOldPool, UndoPool, Undo, DeleteState, Crash
<1>10. CASE IssueCert \/ DeleteCert
  BY <1>10 DEF IssueCert, DeleteCert
<1>11. CASE OtherReload
  BY <1>11 DEF OtherReload, disk
<1>12. QED
  BY <1>1, <1>2, <1>3, <1>4, <1>5, <1>6, <1>7, <1>8, <1>9, <1>10, <1>11 DEF Next, Step

LEMMA TlsStep ==
  ASSUME TestedBeforeKilled, TypeOK, Quiet, UndoInv, CommandInv, RewriteInv, DryInv,
         TlsInv, TypeOK', CommandInv', Next
  PROVE  TlsInv'
<1>shapes. FilesShape /\ StoreShape /\ RewriteShape /\ TlsShape
  BY FilesStep, StoresStep, RewriteStep, TlsStepShape DEF CommandInv
<1>torn. Torn \notin State /\ NoState \notin State
  BY SentinelAssumption
<1>type. next \in State /\ files \in Over(V!Slot) /\ files' \in Over(V!Slot)
         /\ snap \in Over(V!Slot)
  BY OverSlot DEF TypeOK, DiskTyped, ProcessTyped
<1>cert. \/ cert' = cert
         \/ pc = "issue" /\ cert' /\ files' = files
         \/ pc = "certdel" /\ ~cert' /\ files' = files
  BY CertStep
<1>same. cert' = cert => Certified' = Certified
  BY DEF Certified, Plain
<1>plain. NoFile \in Plain /\ Torn \in Plain /\ NoFile \in Certified /\ Torn \in Certified
  BY PlainContents
<1>only. ~next.tls /\ files \in Only(Render(next)) => files \in Over(Plain)
  <2>1. ~next.tls => Render(next) \in Plain
    BY <1>type, PlainContents
  <2>2. QED
    BY <2>1, <1>plain, OverMonotone DEF Only
<1>undo. cmd = "runtimeSet" /\ pc = "undo" /\ next.vhost /\ files' = V!RestoreFiles(files, snap)
         => files' = begin[2]
  BY DEF UndoInv
\* What SetRuntime found when it started.
<1>1. (cmd = "runtimeSet" => begin[2] \in Over(Certified))'
  <2> SUFFICES ASSUME cmd' = "runtimeSet" PROVE begin'[2] \in Over(Certified')
    OBVIOUS
  <2>1. cert' = cert
    <3>1. pc = "issue" => cmd = "sslAdd" /\ cmd # "none"
      BY DEF CommandInv, RouteInv
    <3>2. pc = "certdel" => cmd = "sslRemove"
      BY DEF CommandInv, RouteInv
    <3>3. QED
      BY <3>1, <3>2, <1>cert, GoesOn DEF CommandInv, Tails
  <2>2. CASE cmd = "none"
    <3>1. Start
      BY <2>2, StepLeaves DEF CommandInv
    <3>2. begin' = <<saved, files, pools>> /\ pc = "idle"
      BY <3>1, StartCommand, <2>2 DEF CommandInv, RouteInv, Start, Add, Modify,
         RuntimeSet, Redirect, AddVhost, RemoveVhost, Enable, Disable, Remove, SslAdd,
         SslRemove, Begin, Idle
    <3>3. QED
      BY <2>1, <3>2, <1>same DEF TlsInv
  <2>3. CASE cmd # "none"
    BY <2>1, <2>3, <1>same, GoesOn DEF CommandInv, Tails, TlsInv
  <2>4. QED
    BY <2>2, <2>3
<1>2. (cmd = "runtimeSet" /\ cur.cert /\ ~cur.vhost => begin[2] \in Over(Plain))'
  <2> SUFFICES ASSUME cmd' = "runtimeSet", cur'.cert, ~cur'.vhost
               PROVE  begin'[2] \in Over(Plain)
    BY DEF Plain
  <2>1. CASE cmd = "none"
    <3>1. Start
      BY <2>1, StepLeaves DEF CommandInv
    <3>2. begin' = <<saved, files, pools>> /\ cur' = saved /\ Loaded
      BY <3>1, StartsOpened DEF Opened, CommandInv
    <3>3. QED
      BY <3>2 DEF TlsInv
  <2>2. CASE cmd # "none"
    BY <2>2, GoesOn DEF CommandInv, Tails, TlsInv
  <2>3. QED
    BY <2>1, <2>2
\* The certificate of the SSL commands.
<1>3. /\ (cmd = "sslAdd" /\ pc # "issue" => cert)'
      /\ (cmd = "sslPutback" \/ pc = "certdel" => cert)'
  BY <1>shapes DEF TlsShape, TlsInv
<1>4. (cmd = "vhostRemove" /\ pc # "unlink" => files \in Over({NoFile}))'
  <2> SUFFICES ASSUME cmd' = "vhostRemove", pc' # "unlink"
               PROVE  files' \in Over({NoFile})
    OBVIOUS
  <2>1. V!DeleteFiles(files) \in Over({NoFile})
    BY <1>type, FilesOver DEF V!Slot
  <2>2. QED
    BY <2>1, <1>shapes DEF TlsShape, TlsInv
<1>5. (pc = "certdel" => files \in Over(Plain))'
  <2> SUFFICES ASSUME pc' = "certdel" PROVE files' \in Over(Plain)
    BY DEF Plain
  <2>1. CASE pc = "certdel"
    BY <2>1, <1>shapes DEF TlsShape, TlsInv
  <2>2. CASE pc = "plain"
    <3>1. saved = cur /\ cur.cert /\ ~cur.vhost /\ Loaded /\ files' = files
      BY <2>2, <1>shapes
      DEF TlsShape, CommandInv, RouteInv, StoredInv, PlanInv, Loaded, TypeOK, ProcessTyped
    <3>2. QED
      BY <3>1 DEF TlsInv
  <2>3. CASE pc \in {"turnOff", "reload"}
    <3>1. cmd = "sslRemove" /\ files' \in {files, V!DisableFile(files)}
      BY <2>3, <1>shapes DEF TlsShape
    <3>2. files \in Over(Plain)
      BY <2>3, <3>1, <1>only DEF RewriteInv, Rewriting, CommandInv, PlanInv
    <3>3. QED
      BY <3>1, <3>2, <1>plain, FilesOver
  <2>4. QED
    BY <2>1, <2>2, <2>3, <1>shapes DEF TlsShape
\* Every state that has TLS has a vhost.
<1>6. (cmd \notin {"none", "add"} /\ cur.tls => cur.vhost)'
  <2>1. CASE cmd = "none" /\ cmd' \notin {"none", "add"}
    <3>1. cur' = saved /\ Loaded
      BY <2>1, StepLeaves, StartsOpened DEF CommandInv, Opened
    <3>2. QED
      BY <3>1 DEF TlsInv
  <2>2. CASE cmd # "none" /\ cmd' \notin {"none", "add"}
    BY <2>2, GoesOn DEF CommandInv, Tails, TlsInv
  <2>3. QED
    BY <2>1, <2>2
<1>7. (Loaded /\ saved.tls => saved.vhost)'
  <2>1. cmd \notin {"none", "remove"} /\ next.tls => next.vhost
    BY DEF CommandInv, PlanInv, TlsInv
  <2>2. pc = "undo" => cmd \in {"add", "runtimeSet"}
    BY DEF CommandInv, RouteInv
  <2>3. pc = "save" => cmd \notin {"none", "remove"}
    BY DEF CommandInv, RouteInv
  <2>4. QED
    BY <2>1, <2>2, <2>3, <1>shapes, <1>torn DEF StoreShape, TlsInv, Loaded
\* The snapshot is what the files were, and a certificate stays during a rewrite.
<1>8. (pc \in Rewriting => snap \in Over(Certified))'
  <2> SUFFICES ASSUME pc' \in Rewriting PROVE snap' \in Over(Certified')
    OBVIOUS
  <2>1. pc \in {"write"} \cup Rewriting
    BY <1>shapes DEF RewriteShape, Rewriting
  <2>2. Certified' = Certified
    BY <2>1, <1>cert, <1>same DEF Rewriting
  <2>3. CASE pc = "write"
    <3>1. files \in Over(Certified) /\ snap' = V!Snapshot(files)
      BY <2>3, <1>shapes DEF RewriteShape, TlsInv, Rewriting
    <3>2. QED
      BY <2>2, <3>1, <1>plain, FilesOver
  <2>4. CASE pc \in Rewriting
    BY <2>2, <2>4, <1>shapes DEF RewriteShape, TlsInv, Rewriting
  <2>5. QED
    BY <2>1, <2>3, <2>4
\* The files of a project that has a certificate and no vhost.
<1>9. (Loaded /\ saved.cert /\ ~saved.vhost =>
         files \in Over(Plain) /\ (pc \in Rewriting => snap \in Over(Plain)))'
  <2> SUFFICES ASSUME Loaded', saved'.cert, ~saved'.vhost
               PROVE  files' \in Over(Plain) /\ (pc' \in Rewriting => snap' \in Over(Plain))
    BY DEF Plain
  <2>1. CASE saved' = saved
    <3>1. /\ Loaded /\ files \in Over(Plain)
          /\ pc \in Rewriting => snap \in Over(Plain)
      BY <2>1 DEF Loaded, TlsInv
    <3>2. pc = "write" => ~next.tls
      <4>1. pc = "write" => cmd \in Rewriters /\ next.vhost /\ saved = cur /\ cmd # "add"
        BY <3>1 DEF CommandInv, RouteInv, StoredInv, Rewriters
      <4>2. pc = "write" => cmd = "vhostAdd"
        BY <4>1, <2>1 DEF CommandInv, PlanInv, Rewriters
      <4>3. QED
        BY <4>1, <4>2, <2>1 DEF CommandInv, PlanInv, TlsInv
    <3>3. pc = "write" => Render(next) \in Plain
      BY <3>2, <1>type, PlainContents
    <3>4. pc = "undo" /\ cmd # "add" => begin[2] \in Over(Plain) /\ cmd = "runtimeSet"
      BY <2>1, <3>1, <1>torn
      DEF CommandInv, RouteInv, StoredInv, TlsInv, Loaded
    <3>5. files' \in Over(Plain)
      <4>1. /\ V!EnableFile(files) \in Over(Plain) /\ V!Unlinked(files) \in Over(Plain)
            /\ V!DisableFile(files) \in Over(Plain) /\ V!RemoveActive(files) \in Over(Plain)
            /\ pc \in Rewriting => V!RestoreFiles(files, snap) \in Over(Plain)
        BY <3>1, <1>plain, FilesOver
      <4>2. /\ [files EXCEPT !.active = Torn] \in Over(Plain)
            /\ pc = "write" => V!WriteActive(files, Render(next)) \in Over(Plain)
        BY <3>1, <3>3, <1>plain, FilesOver
      <4>3. V!DeleteFiles(files) \in Over(Plain)
        BY <3>1, <1>plain, FilesOver, OverMonotone
      <4>4. QED
        BY <3>1, <3>4, <4>1, <4>2, <4>3, <1>undo, <1>shapes DEF FilesShape
    <3>6. ASSUME pc' \in Rewriting PROVE snap' \in Over(Plain)
      <4>1. V!Snapshot(files) \in Over(Plain)
        BY <3>1, <1>plain, FilesOver
      <4>2. QED
        BY <3>1, <3>6, <4>1, <1>shapes DEF RewriteShape, Rewriting
    <3>7. QED
      BY <3>5, <3>6
  <2>2. CASE saved' = next /\ pc = "save" /\ files' = files
    <3>1. pc' \notin Rewriting
      BY <2>2, <1>shapes DEF RewriteShape, Rewriting
    <3>2. CASE cmd = "vhostRemove"
      <4>1. files \in Over({NoFile}) /\ {NoFile} \subseteq Plain
        BY <2>2, <3>2, <1>plain DEF TlsInv
      <4>2. QED
        BY <2>2, <3>1, <4>1, OverMonotone
    <3>3. CASE cmd # "vhostRemove"
      <4>1. saved = cur /\ Loaded /\ cur.cert /\ ~cur.vhost
        <5>1. cmd \notin {"none", "add", "vhostAdd", "remove", "sslRemove"}
          BY <2>2 DEF CommandInv, RouteInv, PlanInv
        <5>2. ~cur.vhost
          BY <2>2, <3>3, <5>1 DEF CommandInv, PlanInv
        <5>3. cmd \notin {"sslAdd", "sslNote"}
          BY <5>2 DEF CommandInv, PlanInv
        <5>4. cur.cert
          BY <2>2, <5>1, <5>3 DEF CommandInv, PlanInv
        <5>5. saved = cur
          BY <2>2, <5>1 DEF CommandInv, StoredInv
        <5>6. QED
          BY <5>2, <5>4, <5>5 DEF Loaded, TypeOK, ProcessTyped
      <4>2. QED
        BY <2>2, <3>1, <4>1 DEF TlsInv
    <3>4. QED
      BY <3>2, <3>3
  <2>3. CASE saved' = cur /\ pc = "undo" /\ cmd # "add"
    <3>1. cmd = "runtimeSet" /\ pc' \notin Rewriting
      BY <2>3, <1>shapes DEF CommandInv, RouteInv, RewriteShape, Rewriting
    <3>2. begin[2] \in Over(Plain)
      BY <2>3, <3>1 DEF TlsInv
    <3>3. CASE files' = files
      <4>1. CASE next.vhost
        <5>1. cur.vhost
          BY <3>1, <4>1 DEF CommandInv, PlanInv
        <5>2. QED
          BY <2>3, <5>1
      <4>2. CASE ~next.vhost
        BY <2>3, <3>1, <3>2, <3>3, <4>2 DEF UndoInv
      <4>3. QED
        BY <4>1, <4>2
    <3>4. CASE files' # files
      BY <2>3, <3>1, <3>2, <3>4, <1>undo, <1>shapes DEF FilesShape, Rewriting
    <3>5. QED
      BY <3>1, <3>3, <3>4
  <2>4. QED
    BY <2>1, <2>2, <2>3, <1>shapes, <1>torn DEF StoreShape, Loaded
\* The files, once what was written has been tested.
<1>10. (pc \notin {"enable", "test"} => files \in Over(Certified))'
  <2> SUFFICES ASSUME pc' \notin {"enable", "test"}, ~cert'
               PROVE  files' \in Over(Plain)
    BY <1>type DEF Certified, Plain
  <2>1. CASE pc = "certdel" /\ files' = files
    BY <2>1 DEF TlsInv
  <2>2. CASE ~cert /\ pc \notin {"enable", "test"}
    <3>1. files \in Over(Plain) /\ (pc \in Rewriting => snap \in Over(Plain))
      BY <2>2 DEF TlsInv, Certified
    <3>2. pc = "undo" /\ cmd # "add" => cmd = "runtimeSet" /\ begin[2] \in Over(Plain)
      BY <2>2 DEF CommandInv, RouteInv, TlsInv, Certified
    <3>3. /\ V!EnableFile(files) \in Over(Plain) /\ V!Unlinked(files) \in Over(Plain)
          /\ V!DisableFile(files) \in Over(Plain) /\ V!RemoveActive(files) \in Over(Plain)
          /\ pc \in Rewriting => V!RestoreFiles(files, snap) \in Over(Plain)
          /\ [files EXCEPT !.active = Torn] \in Over(Plain)
      BY <3>1, <1>plain, FilesOver
    <3>4. V!DeleteFiles(files) \in Over(Plain)
      BY <3>1, <1>plain, FilesOver, OverMonotone
    <3>5. QED
      BY <2>2, <3>1, <3>2, <3>3, <3>4, <1>undo, <1>shapes DEF FilesShape
  <2>3. CASE ~cert /\ pc \in {"enable", "test"}
    <3>1. files \in Only(Render(next)) /\ snap \in Over(Plain) /\ cmd \in Rewriters
      BY <2>3 DEF RewriteInv, Rewriting, TlsInv, Certified, CommandInv, RouteInv
    <3>2. CASE files' = V!RestoreFiles(files, snap)
      <4>1. files.off \in Plain \/ Layout = "confd"
        BY <1>plain, ProjectAssumption DEF RewriteInv, OneLayout, ProjectAssumption
      <4>2. QED
        BY <3>1, <3>2, <4>1, <1>type DEF V!RestoreFiles, Over
    <3>3. CASE pc = "test" /\ files' = files /\ (dry \/ ~Rejected(files, cert))
      <4>1. ~dry
        BY <3>3 DEF DryInv
      <4>2. V!Served(files) = Render(next) /\ Render(next) \in Conf
        BY <3>3, <1>type, RenderTyped DEF RewriteInv, Rewriting
      <4>3. ~Render(next).tls
        BY <2>3, <3>3, <4>1, <4>2 DEF Rejected
      <4>4. ~next.tls
        BY <4>3 DEF Render
      <4>5. QED
        BY <3>1, <3>3, <4>4, <1>only
    <3>4. CASE Owner \in CrashIn /\ files' \in {files, V!Unlinked(files)}
      <4>1. cmd \notin {"modify", "redirect", "runtimeSet"}
        BY <3>4 DEF Owner, TestedBeforeKilled
      <4>2. cmd \notin {"sslAdd", "sslPutback"}
        BY <2>3 DEF TlsInv
      <4>3. ~next.tls
        BY <3>1, <4>1, <4>2 DEF Rewriters, CommandInv, PlanInv, TlsInv
      <4>4. files \in Over(Plain)
        BY <3>1, <4>3, <1>only
      <4>5. QED
        BY <3>4, <4>4 DEF Over, V!Unlinked
    <3>5. QED
      BY <2>3, <3>2, <3>3, <3>4, UntestedStep DEF CommandInv
  <2>4. QED
    BY <2>1, <2>2, <2>3, <1>cert
<1>11. QED
  BY <1>1, <1>2, <1>3, <1>4, <1>5, <1>6, <1>7, <1>8, <1>9, <1>10 DEF TlsInv

LEMMA TlsInit == Init => TlsInv
<1> SUFFICES ASSUME Init PROVE TlsInv
  OBVIOUS
<1>1. V!NoVhost \in Over(Plain) /\ V!NoVhost \in Over(Certified)
  BY PlainContents DEF Over, V!NoVhost
<1>2. QED
  BY <1>1, SentinelAssumption DEF Init, TlsInv, Loaded, Rewriting

\* "nginx never points at a missing certificate": in every execution the enabled
\* vhost uses no certificate that certbot does not hold, whatever fails and whoever
\* reloads nginx, if --dry-run is kept to the commands that honour it (under it
\* "nginx -t" is skipped) and no rewrite by Modify, Redirect or SetRuntime is killed
\* before it has been tested.
THEOREM TlsHasItsCertificate ==
  ASSUME DryHonoured, TestedBeforeKilled
  PROVE  Spec => []TlsHasCertificate
<1> DEFINE Inv == Quiet /\ UndoInv /\ CommandInv /\ RewriteInv /\ DryInv /\ TlsInv
           Typed == TypeOK /\ VersionsKept
<1>1. Init => Inv
  BY CommandInit, RestInit, TlsInit DEF Init, DryInv
<1>2. Typed /\ Inv /\ [Next]_vars /\ Typed' => Inv'
  <2> SUFFICES ASSUME Typed, Inv, [Next]_vars, Typed' PROVE Inv'
    OBVIOUS
  <2>1. (Quiet /\ UndoInv)'
    BY QuietStep, UndoStep
  <2>2. CommandInv' /\ RewriteInv' /\ DryInv'
    BY CommandStep, RewriteKept, DryNext DEF CommandInv
  <2>3. TlsInv'
    <3>1. CASE Next
      BY <2>1, <2>2, <3>1, TlsStep
    <3>2. CASE UNCHANGED vars
      BY <3>2 DEF vars, disk, args, TlsInv, Loaded, Certified, Plain
    <3>3. QED
      BY <3>1, <3>2
  <2>4. QED
    BY <2>1, <2>2, <2>3
<1>3. Inv => TlsHasCertificate
  <2> SUFFICES ASSUME TlsInv, Idle, V!Served(files) \in Conf, V!Served(files).tls
               PROVE  cert
    BY DEF TlsHasCertificate
  <2>1. V!Served(files) \in Certified
    BY PlainContents DEF TlsInv, Idle, Over, V!Served
  <2>2. QED
    BY <2>1 DEF Certified, Plain
<1>4. QED
  BY <1>1, <1>2, <1>3, TypedInvariant, PTL DEF Spec
=============================================================================
