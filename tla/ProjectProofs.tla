--------------------------- MODULE ProjectProofs ---------------------------
(***************************************************************************)
(* Theorems about Project, for every value of its constants.               *)
(***************************************************************************)
EXTENDS Project, TLAPS

\* A failed rewrite of a vhost is undone exactly: whatever writeNginxVhost did
\* up to the failure, restoring its snapshot gives back the files it found.
LEMMA RestoreUndoesRewrite ==
  ASSUME NEW f \in V!Files, NEW c \in V!Slot
  PROVE  LET w == V!WriteActive(f, c)
             e == V!EnableFile(w)
             s == V!Snapshot(f)
         IN  /\ V!RestoreFiles(w, s) = f
             /\ V!RestoreFiles(e, s) = f
             /\ V!RestoreFiles(V!DisableFile(e), s) = f
BY ProjectAssumption
   DEF ProjectAssumption, V!Files, V!WriteActive, V!EnableFile, V!DisableFile,
       V!Snapshot, V!RestoreFiles

\* The helpers of service.go turn vhost files into vhost files.
LEMMA FilesTyped ==
  ASSUME NEW f \in V!Files, NEW s \in V!Files, NEW c \in V!Slot
  PROVE  /\ V!WriteActive(f, c) \in V!Files
         /\ V!EnableFile(f) \in V!Files
         /\ V!Unlinked(f) \in V!Files
         /\ V!DisableFile(f) \in V!Files
         /\ V!DeleteFiles(f) \in V!Files
         /\ V!RemoveActive(f) \in V!Files
         /\ V!Snapshot(f) \in V!Files
         /\ V!RestoreFiles(f, s) \in V!Files
         /\ V!Served(f) \in V!Slot
BY DEF V!Files, V!Slot, V!WriteActive, V!EnableFile, V!Unlinked, V!DisableFile,
       V!DeleteFiles, V!RemoveActive, V!Snapshot, V!RestoreFiles, V!Served,
       V!Enabled

LEMMA FreshTyped == FreshState \in State
BY ProjectAssumption DEF ProjectAssumption, FreshState, State, Version

LEMMA NoVhostTyped == V!NoVhost \in V!Files
BY DEF V!NoVhost, V!Files, V!Slot

LEMMA RenderTyped ==
  ASSUME NEW st \in State
  PROVE  Render(st) \in Conf /\ Render(st) \in V!Slot
BY DEF Render, State, Conf, Version, V!Slot

\* The three shapes of a step of a command: its start, a jump, and its end.
LEMMA BeginTyped ==
  ASSUME TypeOK, NEW c \in AllCommands, NEW now \in State, NEW then \in State,
         NEW first \in Labels, Begin(c, now, then, first)
  PROVE  TypeOK'
<1>1. DiskTyped' /\ live' \in V!Slot
  BY DEF Begin, TypeOK, DiskTyped, disk
<1>2. begin' \in Stored \X V!Files \X SUBSET Versions
  BY DEF Begin, TypeOK, DiskTyped
<1>3. ProcessTyped'
  BY <1>2 DEF Begin, TypeOK, ProcessTyped
<1>4. QED
  BY <1>1, <1>3 DEF TypeOK

LEMMA GotoTyped ==
  ASSUME ProcessTyped, NEW p \in Labels, Goto(p)
  PROVE  ProcessTyped'
BY DEF ProcessTyped, Goto, args

LEMMA ExitTyped ==
  ASSUME NEW r \in {"ok", "error", "crashed"}, Exit(r)
  PROVE  ProcessTyped'
<1>1. begin' \in Stored \X V!Files \X SUBSET Versions
  BY NoVhostTyped DEF Exit, Stored
<1>2. cur' \in State /\ next' \in State /\ snap' \in V!Files
  BY FreshTyped, NoVhostTyped DEF Exit
<1>3. /\ pc' \in Labels /\ cmd' \in AllCommands \cup Tails \cup {"none"}
      /\ dry' \in BOOLEAN /\ newPool' \in Version
      /\ outcome' \in {"none", "ok", "error", "crashed"}
  BY DEF Exit, Labels, Version
<1>4. QED
  BY <1>1, <1>2, <1>3 DEF ProcessTyped

LEMMA WrittenTyped ==
  ASSUME ProcessTyped, Written \/ NotWritten \/ AfterSave \/ AfterFailedSave
  PROVE  ProcessTyped'
<1>1. CASE Written
  BY <1>1, GotoTyped, ExitTyped DEF Written, Labels
<1>2. CASE NotWritten
  <2>1. CASE cmd = "sslAdd"
    <3>1. [cur EXCEPT !.cert = TRUE] \in State
      BY DEF ProcessTyped, State
    <3>2. QED
      BY <1>2, <2>1, <3>1 DEF NotWritten, ProcessTyped, Labels, Tails
  <2>2. CASE cmd # "sslAdd"
    BY <1>2, <2>2, GotoTyped, ExitTyped DEF NotWritten, Labels
  <2>3. QED
    BY <2>1, <2>2
<1>3. CASE AfterSave
  BY <1>3, GotoTyped, ExitTyped DEF AfterSave, Labels
<1>4. CASE AfterFailedSave
  BY <1>4, GotoTyped, ExitTyped DEF AfterFailedSave, Labels
<1>5. QED
  BY <1>1, <1>2, <1>3, <1>4

LEMMA ReloadTyped ==
  ASSUME live \in V!Slot, NEW f \in V!Files, NEW c,
         Reload(f) \/ Loads(f, c) \/ Keeps(f, c)
  PROVE  live' \in V!Slot
BY FilesTyped DEF Reload, Loads, Keeps

-----------------------------------------------------------------------------
\* What every command has in common when it starts: it holds the stored state,
\* or a fresh one if it is Add, and a state it means to store, whose pool is the
\* same or not yet made.
FirstLabels == {"ensure", "render", "plain", "write", "flip", "save", "unlink",
                "droppool", "issue"}

Started(c, now, then, first) ==
  /\ Begin(c, now, then, first)
  /\ \/ Loaded /\ now = saved
     \/ ~Loaded /\ now = FreshState /\ c = "add"
  /\ PhpHasVersion(then)
  /\ then.pool \in {now.pool, NoVersion}
  /\ first = "droppool" => c = "remove"
  /\ c \in {"add", "runtimeSet"} => first = "ensure"
  /\ c = "runtimeSet" /\ then.pool # NoVersion
     => then.rt = "php" /\ now.rt = "php" /\ then.php = now.php

LEMMA StartShape ==
  ASSUME TypeOK, VersionsKept, Start
  PROVE  \E c \in AllCommands, now \in State, then \in State, first \in FirstLabels :
            Started(c, now, then, first)
<1> USE DEF FirstLabels, AllCommands
<1>1. CASE Add
  <2>1. PICK iso \in BOOLEAN, vhost \in BOOLEAN, r \in Revs, v \in Version :
          /\ ~Loaded
          /\ Begin("add", FreshState,
                   [FreshState EXCEPT !.iso = iso, !.vhost = vhost, !.rev = r,
                      !.php = v, !.rt = IF v = NoVersion THEN "other" ELSE "php"],
                   "ensure")
    BY <1>1 DEF Add
  <2> DEFINE then == [FreshState EXCEPT !.iso = iso, !.vhost = vhost, !.rev = r,
                        !.php = v, !.rt = IF v = NoVersion THEN "other" ELSE "php"]
  <2>2. then \in State /\ then.pool = FreshState.pool /\ PhpHasVersion(then)
    BY FreshTyped DEF State, PhpHasVersion
  <2>3. Started("add", FreshState, then, "ensure")
    BY <2>1, <2>2 DEF Started
  <2>4. QED
    BY <2>2, <2>3, FreshTyped
<1>2. CASE Modify
  <2>1. PICK r \in Revs, v \in Version :
          /\ Loaded /\ (saved.rt = "php" => v # NoVersion)
          /\ LET then == [saved EXCEPT !.rev = r, !.php = v]
             IN  Begin("modify", saved, then,
                       IF saved.rt = "php" /\ v # saved.php THEN "ensure"
                       ELSE IF saved.vhost /\ Rerender(saved, then)
                       THEN "write" ELSE "save")
    BY <1>2 DEF Modify
  <2> DEFINE then == [saved EXCEPT !.rev = r, !.php = v]
  <2>2. then \in State /\ then.pool = saved.pool /\ PhpHasVersion(then)
    BY <2>1 DEF Loaded, State, PhpHasVersion
  <2>3. PICK first \in {"ensure", "write", "save"} : Begin("modify", saved, then, first)
    BY <2>1
  <2>4. Started("modify", saved, then, first)
    BY <2>1, <2>2, <2>3 DEF Started
  <2>5. QED
    BY <2>1, <2>2, <2>4 DEF Loaded
<1>3. CASE RuntimeSet
  <2>1. PICK r \in Revs, v \in Version :
          /\ Loaded
          /\ LET rt   == IF v = NoVersion THEN "other" ELSE "php"
                 same == saved.rt = "php" /\ v = saved.php
                 then == [saved EXCEPT !.rev = r, !.rt = rt, !.php = v,
                                       !.pool = IF same THEN @ ELSE NoVersion]
             IN  /\ rt # saved.rt \/ v # saved.php \/ r # saved.rev
                 /\ Begin("runtimeSet", saved, then, "ensure")
    BY <1>3 DEF RuntimeSet
  <2> DEFINE rt   == IF v = NoVersion THEN "other" ELSE "php"
             same == saved.rt = "php" /\ v = saved.php
             then == [saved EXCEPT !.rev = r, !.rt = rt, !.php = v,
                                   !.pool = IF same THEN @ ELSE NoVersion]
  <2>2. /\ then \in State /\ then.pool \in {saved.pool, NoVersion}
        /\ PhpHasVersion(then)
        /\ then.php = v /\ then.rt = rt /\ (~same => then.pool = NoVersion)
    BY <2>1 DEF Loaded, State, Version, PhpHasVersion
  <2>3. same => rt = "php"
    BY <2>1 DEF VersionsKept, PhpHasVersion
  <2>4. Started("runtimeSet", saved, then, "ensure")
    BY <2>1, <2>2, <2>3 DEF Started
  <2>5. QED
    BY <2>1, <2>2, <2>4 DEF Loaded
<1>4. CASE Redirect
  <2>1. PICK r \in Revs :
          Loaded /\ Begin("redirect", saved, [saved EXCEPT !.rev = r], "render")
    BY <1>4 DEF Redirect
  <2> DEFINE then == [saved EXCEPT !.rev = r]
  <2>2. then \in State /\ then.pool = saved.pool /\ PhpHasVersion(then)
    BY <2>1 DEF Loaded, State, PhpHasVersion, VersionsKept
  <2>3. Started("redirect", saved, then, "render")
    BY <2>1, <2>2 DEF Started
  <2>4. QED
    BY <2>1, <2>2, <2>3 DEF Loaded
<1>5. CASE AddVhost
  <2>1. PICK r \in Revs :
          /\ Loaded
          /\ Begin("vhostAdd", saved,
                   [saved EXCEPT !.rev = r, !.vhost = TRUE, !.off = FALSE], "write")
    BY <1>5 DEF AddVhost
  <2> DEFINE then == [saved EXCEPT !.rev = r, !.vhost = TRUE, !.off = FALSE]
  <2>2. then \in State /\ then.pool = saved.pool /\ PhpHasVersion(then)
    BY <2>1 DEF Loaded, State, PhpHasVersion, VersionsKept
  <2>3. Started("vhostAdd", saved, then, "write")
    BY <2>1, <2>2 DEF Started
  <2>4. QED
    BY <2>1, <2>2, <2>3 DEF Loaded
<1>6. CASE RemoveVhost
  <2> DEFINE then == [saved EXCEPT !.vhost = FALSE, !.off = FALSE, !.tls = FALSE]
  <2>1. Loaded /\ Begin("vhostRemove", saved, then, "unlink")
    BY <1>6 DEF RemoveVhost
  <2>2. then \in State /\ then.pool = saved.pool /\ PhpHasVersion(then)
    BY <2>1 DEF Loaded, State, PhpHasVersion, VersionsKept
  <2>3. Started("vhostRemove", saved, then, "unlink")
    BY <2>1, <2>2 DEF Started
  <2>4. QED
    BY <2>1, <2>2, <2>3 DEF Loaded
<1>7. CASE Enable
  <2> DEFINE then == [saved EXCEPT !.off = FALSE]
  <2>1. Loaded /\ Begin("enable", saved, then, "flip")
    BY <1>7 DEF Enable
  <2>2. then \in State /\ then.pool = saved.pool /\ PhpHasVersion(then)
    BY <2>1 DEF Loaded, State, PhpHasVersion, VersionsKept
  <2>3. Started("enable", saved, then, "flip")
    BY <2>1, <2>2 DEF Started
  <2>4. QED
    BY <2>1, <2>2, <2>3 DEF Loaded
<1>8. CASE Disable
  <2> DEFINE then == [saved EXCEPT !.off = TRUE]
  <2>1. Loaded /\ Begin("disable", saved, then, "flip")
    BY <1>8 DEF Disable
  <2>2. then \in State /\ then.pool = saved.pool /\ PhpHasVersion(then)
    BY <2>1 DEF Loaded, State, PhpHasVersion, VersionsKept
  <2>3. Started("disable", saved, then, "flip")
    BY <2>1, <2>2 DEF Started
  <2>4. QED
    BY <2>1, <2>2, <2>3 DEF Loaded
<1>9. CASE SslAdd
  <2> DEFINE then == [saved EXCEPT !.tls = TRUE, !.cert = TRUE]
  <2>1. Loaded /\ Begin("sslAdd", saved, then, "issue")
    BY <1>9 DEF SslAdd
  <2>2. then \in State /\ then.pool = saved.pool /\ PhpHasVersion(then)
    BY <2>1 DEF Loaded, State, PhpHasVersion, VersionsKept
  <2>3. Started("sslAdd", saved, then, "issue")
    BY <2>1, <2>2 DEF Started
  <2>4. QED
    BY <2>1, <2>2, <2>3 DEF Loaded
<1>10. CASE SslRemove
  <2> DEFINE then == [saved EXCEPT !.tls = FALSE, !.cert = FALSE]
  <2>1. Loaded /\ Begin("sslRemove", saved, then, "plain")
    BY <1>10 DEF SslRemove
  <2>2. then \in State /\ then.pool = saved.pool /\ PhpHasVersion(then)
    BY <2>1 DEF Loaded, State, PhpHasVersion, VersionsKept
  <2>3. Started("sslRemove", saved, then, "plain")
    BY <2>1, <2>2 DEF Started
  <2>4. QED
    BY <2>1, <2>2, <2>3 DEF Loaded
<1>11. CASE Remove
  <2>1. PICK first \in {"unlink", "droppool"} :
          Loaded /\ Begin("remove", saved, saved, first)
    BY <1>11 DEF Remove
  <2>2. Started("remove", saved, saved, first)
    BY <2>1 DEF Started, VersionsKept
  <2>3. QED
    BY <2>1, <2>2 DEF Loaded
<1>12. QED
  BY <1>1, <1>2, <1>3, <1>4, <1>5, <1>6, <1>7, <1>8, <1>9, <1>10, <1>11 DEF Start

-----------------------------------------------------------------------------
\* A step of a running command leaves the disk, nginx and the process typed.
LEMMA StepTyped ==
  ASSUME TypeOK, VersionsKept, Step
  PROVE  TypeOK'
<1> USE DEF TypeOK
<1>1. CASE EnsureRuntime
  <2>1. ProcessTyped'
    BY <1>1, GotoTyped, ExitTyped DEF EnsureRuntime, AfterPool, Labels
  <2>2. DiskTyped' /\ live' \in V!Slot
    BY <1>1 DEF EnsureRuntime, DiskTyped, disk
  <2>3. QED
    BY <2>1, <2>2
<1>2. CASE CreatePool
  <2>1. next.php \in Versions
    BY <1>2 DEF CreatePool, VersionsKept, PhpHasVersion, At, ProcessTyped, State,
                Version
  <2>2. DiskTyped' /\ live' \in V!Slot
    BY <1>2, <2>1 DEF CreatePool, DiskTyped
  <2>3. [next EXCEPT !.pool = next.php] \in State
    BY DEF ProcessTyped, State
  <2>4. ProcessTyped'
    <3>1. CASE Exit("error")
      BY <3>1, ExitTyped
    <3>2. CASE ~Exit("error")
      BY <1>2, <2>1, <2>3, <3>2
      DEF CreatePool, ProcessTyped, AfterPool, Labels, args, Version
    <3>3. QED
      BY <3>1, <3>2
  <2>5. QED
    BY <2>2, <2>4
<1>3. CASE Preview
  <2>1. ProcessTyped'
    BY <1>3, GotoTyped, ExitTyped DEF Preview, Labels
  <2>2. DiskTyped' /\ live' \in V!Slot
    BY <1>3 DEF Preview, DiskTyped, disk
  <2>3. QED
    BY <2>1, <2>2
<1>4. CASE WriteVhost
  <2>1. Render(next) \in V!Slot
    BY RenderTyped DEF ProcessTyped
  <2>2. V!WriteActive(files, Render(next)) \in V!Files /\ V!Snapshot(files) \in V!Files
    BY <2>1, FilesTyped DEF DiskTyped
  <2>3. DiskTyped' /\ live' \in V!Slot
    BY <1>4, <2>2 DEF WriteVhost, DiskTyped
  <2>4. ProcessTyped'
    <3>1. CASE NotWritten
      BY <3>1, WrittenTyped
    <3>2. CASE ~NotWritten
      BY <1>4, <2>2, <3>2 DEF WriteVhost, ProcessTyped, Labels, args
    <3>3. QED
      BY <3>1, <3>2
  <2>5. QED
    BY <2>3, <2>4
<1>5. CASE EnableVhost
  <2>1. /\ V!EnableFile(files) \in V!Files
        /\ V!RestoreFiles(files, snap) \in V!Files
    BY FilesTyped DEF DiskTyped, ProcessTyped, V!Files
  <2>2. DiskTyped' /\ live' \in V!Slot
    BY <1>5, <2>1 DEF EnableVhost, DiskTyped
  <2>3. ProcessTyped'
    BY <1>5, GotoTyped, WrittenTyped DEF EnableVhost, Labels
  <2>4. QED
    BY <2>2, <2>3
<1>6. CASE TestVhost
  <2>1. V!RestoreFiles(files, snap) \in V!Files
    BY FilesTyped DEF DiskTyped, ProcessTyped, V!Files
  <2>2. DiskTyped' /\ live' \in V!Slot
    BY <1>6, <2>1 DEF TestVhost, DiskTyped
  <2>3. ProcessTyped'
    BY <1>6, GotoTyped, WrittenTyped DEF TestVhost, Labels
  <2>4. QED
    BY <2>2, <2>3
<1>7. CASE TurnOffVhost
  <2>1. /\ V!DisableFile(files) \in V!Files
        /\ V!RestoreFiles(files, snap) \in V!Files
    BY FilesTyped DEF DiskTyped, ProcessTyped, V!Files
  <2>2. DiskTyped' /\ live' \in V!Slot
    BY <1>7, <2>1 DEF TurnOffVhost, DiskTyped
  <2>3. ProcessTyped'
    BY <1>7, WrittenTyped DEF TurnOffVhost
  <2>4. QED
    BY <2>2, <2>3
<1>8. CASE ReloadVhost
  <2>1. DiskTyped' /\ live' \in V!Slot
    BY <1>8, ReloadTyped DEF ReloadVhost, DiskTyped, disk
  <2>2. ProcessTyped'
    BY <1>8, WrittenTyped DEF ReloadVhost
  <2>3. QED
    BY <2>1, <2>2
<1>9. CASE FlipVhost
  <2>1. /\ V!EnableFile(files) \in V!Files /\ V!DisableFile(files) \in V!Files
        /\ V!Unlinked(files) \in V!Files
    BY FilesTyped DEF DiskTyped, V!Files, V!Unlinked
  <2>2. DiskTyped' /\ live' \in V!Slot
    BY <1>9, <2>1 DEF FlipVhost, DiskTyped
  <2>3. ProcessTyped'
    BY <1>9, GotoTyped, ExitTyped DEF FlipVhost, Labels
  <2>4. QED
    BY <2>2, <2>3
<1>10. CASE SaveState
  <2>1. DiskTyped' /\ live' \in V!Slot
    BY <1>10 DEF SaveState, DiskTyped, ProcessTyped, Stored
  <2>2. ProcessTyped'
    BY <1>10, WrittenTyped DEF SaveState
  <2>3. QED
    BY <2>1, <2>2
<1>11. CASE Activate
  <2>1. DiskTyped' /\ live' \in V!Slot
    BY <1>11, ReloadTyped DEF Activate, DiskTyped, disk
  <2>2. ProcessTyped'
    BY <1>11, ExitTyped DEF Activate
  <2>3. QED
    BY <2>1, <2>2
<1>12. CASE RemoveOldPool
  BY <1>12, ExitTyped DEF RemoveOldPool, DiskTyped
<1>13. CASE UndoPool
  BY <1>13, ExitTyped DEF UndoPool, DiskTyped
<1>14. CASE Undo
  <2>1. /\ V!RemoveActive(files) \in V!Files
        /\ V!RestoreFiles(files, snap) \in V!Files
    BY FilesTyped DEF DiskTyped, ProcessTyped, V!Files
  <2>2. DiskTyped'
    BY <1>14, <2>1 DEF Undo, DiskTyped, ProcessTyped, Stored
  <2>3. live' \in V!Slot
    BY <1>14, <2>2, ReloadTyped DEF Undo, DiskTyped
  <2>4. ProcessTyped'
    BY <1>14, ExitTyped DEF Undo
  <2>5. QED
    BY <2>2, <2>3, <2>4
<1>15. CASE Unlink
  <2>1. /\ V!DeleteFiles(files) \in V!Files /\ V!DisableFile(files) \in V!Files
        /\ V!RemoveActive(files) \in V!Files
    BY FilesTyped DEF DiskTyped, V!Files
  <2>2. DiskTyped' /\ live' \in V!Slot
    BY <1>15, <2>1 DEF Unlink, DiskTyped
  <2>3. ProcessTyped'
    BY <1>15, GotoTyped, ExitTyped DEF Unlink, Labels
  <2>4. QED
    BY <2>2, <2>3
<1>16. CASE Unload
  <2>1. DiskTyped' /\ live' \in V!Slot
    BY <1>16, ReloadTyped DEF Unload, DiskTyped, disk
  <2>2. ProcessTyped'
    BY <1>16, GotoTyped, ExitTyped DEF Unload, Labels
  <2>3. QED
    BY <2>1, <2>2
<1>17. CASE DropPool
  <2>1. DiskTyped' /\ live' \in V!Slot
    BY <1>17 DEF DropPool, DiskTyped
  <2>2. ProcessTyped'
    BY <1>17, GotoTyped DEF DropPool, Labels
  <2>3. QED
    BY <2>1, <2>2
<1>18. CASE DeleteState
  <2>1. DiskTyped' /\ live' \in V!Slot
    BY <1>18 DEF DeleteState, DiskTyped, Stored
  <2>2. ProcessTyped'
    BY <1>18, ExitTyped DEF DeleteState
  <2>3. QED
    BY <2>1, <2>2
<1>19. CASE IssueCert
  <2>1. DiskTyped'
    BY <1>19 DEF IssueCert, DiskTyped
  <2>2. live' \in V!Slot
    BY <1>19, ReloadTyped DEF IssueCert, DiskTyped
  <2>3. ProcessTyped'
    BY <1>19, GotoTyped, ExitTyped DEF IssueCert, Labels
  <2>4. QED
    BY <2>1, <2>2, <2>3
<1>20. CASE DeleteCert
  <2>1. DiskTyped' /\ live' \in V!Slot
    BY <1>20 DEF DeleteCert, DiskTyped
  <2>2. ProcessTyped'
    <3>1. CASE Goto("save") \/ Exit("error")
      BY <3>1, GotoTyped, ExitTyped DEF Labels
    <3>2. CASE ~(Goto("save") \/ Exit("error"))
      BY <1>20, <3>2 DEF DeleteCert, ProcessTyped, Labels, Tails
    <3>3. QED
      BY <3>1, <3>2
  <2>3. QED
    BY <2>1, <2>2
<1>21. QED
  BY <1>1, <1>2, <1>3, <1>4, <1>5, <1>6, <1>7, <1>8, <1>9, <1>10, <1>11, <1>12,
     <1>13, <1>14, <1>15, <1>16, <1>17, <1>18, <1>19, <1>20 DEF Step

\* What a step may do to the three states a command handles: it stores one it
\* holds, and only createPHPPool, and the failures of the SSL commands, change
\* the one to be stored.
LEMMA StepShape ==
  ASSUME Step
  PROVE  /\ saved' \in {saved, cur, next, Torn, NoState}
         /\ cur' \in {cur, FreshState}
         /\ next' \in {next, cur, [cur EXCEPT !.cert = TRUE],
                       [next EXCEPT !.pool = next.php], FreshState}
         /\ pc' = "pool" => At("ensure") /\ NeedsPool /\ next' = next
<1> USE DEF Exit, Goto, args, At
<1>1. CASE EnsureRuntime
  BY <1>1 DEF EnsureRuntime, disk, AfterPool
<1>2. CASE CreatePool
  BY <1>2 DEF CreatePool, AfterPool
<1>3. CASE Preview
  BY <1>3 DEF Preview, disk
<1>4. CASE WriteVhost
  BY <1>4 DEF WriteVhost, NotWritten
<1>5. CASE EnableVhost
  BY <1>5 DEF EnableVhost, NotWritten
<1>6. CASE TestVhost
  BY <1>6 DEF TestVhost, NotWritten
<1>7. CASE TurnOffVhost
  BY <1>7 DEF TurnOffVhost, NotWritten, Written
<1>8. CASE ReloadVhost
  BY <1>8 DEF ReloadVhost, Written, disk
<1>9. CASE FlipVhost
  BY <1>9 DEF FlipVhost
<1>10. CASE SaveState
  BY <1>10 DEF SaveState, AfterSave, AfterFailedSave
<1>11. CASE Activate
  BY <1>11 DEF Activate, disk
<1>12. CASE RemoveOldPool \/ UndoPool
  BY <1>12 DEF RemoveOldPool, UndoPool
<1>13. CASE Undo
  BY <1>13 DEF Undo
<1>14. CASE Unlink
  BY <1>14 DEF Unlink
<1>15. CASE Unload
  BY <1>15 DEF Unload, disk
<1>16. CASE DropPool
  BY <1>16 DEF DropPool
<1>17. CASE DeleteState
  BY <1>17 DEF DeleteState
<1>18. CASE IssueCert
  BY <1>18 DEF IssueCert
<1>19. CASE DeleteCert
  BY <1>19 DEF DeleteCert
<1>20. QED
  BY <1>1, <1>2, <1>3, <1>4, <1>5, <1>6, <1>7, <1>8, <1>9, <1>10, <1>11, <1>12,
     <1>13, <1>14, <1>15, <1>16, <1>17, <1>18, <1>19 DEF Step

\* TypeOK is not inductive alone: createPHPPool adds the version of the project
\* to the pools, which is one only because a PHP project always has a version.
LEMMA TypedStep == TypeOK /\ VersionsKept /\ [Next]_vars => (TypeOK /\ VersionsKept)'
<1> SUFFICES ASSUME TypeOK, VersionsKept, [Next]_vars
             PROVE  (TypeOK /\ VersionsKept)'
  OBVIOUS
<1>fresh. PhpHasVersion(FreshState)
  BY DEF PhpHasVersion, FreshState
<1>1. CASE Start
  <2>1. PICK c \in AllCommands, now \in State, then \in State, first \in FirstLabels :
          Started(c, now, then, first)
    BY <1>1, StartShape
  <2>2. TypeOK'
    BY <2>1, BeginTyped DEF Started, FirstLabels, Labels
  <2>3. VersionsKept'
    BY <2>1, <1>fresh
    DEF Started, FirstLabels, Begin, disk, VersionsKept, Loaded, At, PhpHasVersion
  <2>4. QED
    BY <2>2, <2>3
<1>2. CASE Step
  <2>1. TypeOK'
    BY <1>2, StepTyped
  <2>2. saved' \in State => saved' \in {saved, cur, next}
    BY <1>2, StepShape, SentinelAssumption
  <2>3. (Loaded => PhpHasVersion(saved))'
    BY <2>2 DEF VersionsKept, Loaded, PhpHasVersion
  <2>4. PhpHasVersion(cur') /\ PhpHasVersion(next')
    BY <1>2, StepShape, <1>fresh DEF VersionsKept, PhpHasVersion, TypeOK,
       ProcessTyped, State
  <2>5. (At("pool") => next.rt = "php")'
    BY <1>2, StepShape DEF NeedsPool, At
  <2>6. VersionsKept'
    BY <2>3, <2>4, <2>5 DEF VersionsKept, PhpHasVersion
  <2>7. QED
    BY <2>1, <2>6
<1>3. CASE Crash
  <2>1. ProcessTyped'
    BY <1>3, ExitTyped DEF Crash
  <2>2. Torn \in V!Slot /\ V!Unlinked(files) \in V!Files
    BY FilesTyped DEF V!Slot, TypeOK, DiskTyped, V!Files
  <2>3. files' \in V!Files
    BY <1>3, <2>2 DEF Crash, TypeOK, DiskTyped, V!Files
  <2>4. DiskTyped' /\ live' \in V!Slot
    BY <1>3, <2>3 DEF Crash, TypeOK, DiskTyped, Stored
  <2>5. VersionsKept'
    BY <1>3, <1>fresh, SentinelAssumption
    DEF Crash, Exit, VersionsKept, Loaded, PhpHasVersion, At
  <2>6. QED
    BY <2>1, <2>4, <2>5 DEF TypeOK
<1>4. CASE OtherReload
  <2>1. live' \in V!Slot
    BY <1>4, ReloadTyped DEF OtherReload, TypeOK, DiskTyped
  <2>2. QED
    BY <1>4, <2>1 DEF OtherReload, disk, args, TypeOK, DiskTyped, ProcessTyped,
       VersionsKept, Loaded, PhpHasVersion, At
<1>5. CASE UNCHANGED vars
  BY <1>5 DEF vars, args, disk, TypeOK, DiskTyped, ProcessTyped, VersionsKept,
     Loaded, PhpHasVersion, At
<1>6. QED
  BY <1>1, <1>2, <1>3, <1>4, <1>5 DEF Next

\* Every variable keeps its type in every execution of every command, and a
\* project that runs PHP keeps a version.
THEOREM TypedInvariant == Spec => [](TypeOK /\ VersionsKept)
<1>1. Init => TypeOK /\ VersionsKept
  <2> SUFFICES ASSUME Init PROVE TypeOK /\ VersionsKept
    OBVIOUS
  <2>1. DiskTyped /\ live \in V!Slot
    BY NoVhostTyped DEF Init, DiskTyped, Stored, V!Slot
  <2>2. begin \in Stored \X V!Files \X SUBSET Versions
    BY NoVhostTyped DEF Init, Stored
  <2>3. cur \in State /\ next \in State /\ snap \in V!Files
    BY FreshTyped, NoVhostTyped DEF Init
  <2>4. ProcessTyped
    BY <2>2, <2>3 DEF Init, ProcessTyped, Labels, Version
  <2>5. VersionsKept
    BY SentinelAssumption
    DEF Init, VersionsKept, PhpHasVersion, FreshState, At, Loaded
  <2>6. QED
    BY <2>1, <2>4, <2>5 DEF TypeOK
<1>2. QED
  BY <1>1, TypedStep, PTL DEF Spec

-----------------------------------------------------------------------------
\* The steps that touch neither the state file nor the pools.
FileStep ==
  \/ EnsureRuntime \/ Preview \/ WriteVhost \/ EnableVhost \/ TestVhost
  \/ TurnOffVhost \/ ReloadVhost \/ FlipVhost \/ Activate \/ Unlink \/ Unload
  \/ IssueCert \/ DeleteCert

\* They go on with the states they hold, or stop; an SSL command that fails goes
\* on with the state it loaded.
FileStepShape ==
  /\ saved' = saved /\ pools' = pools
  /\ pc \notin {"idle", "oldPool", "delete", "droppool", "undoPool", "undo"}
  /\ \/ \E r \in {"ok", "error"} : Exit(r)
     \/ /\ cur' = cur /\ newPool' = newPool /\ outcome' = outcome /\ begin' = begin
        /\ pc' \notin {"idle", "oldPool", "delete", "undo"}
        /\ pc' = "undoPool" => cmd' \in {"add", "runtimeSet"}
        /\ pc' = "droppool" => cmd' = "remove"
        /\ \/ next' = next /\ cmd' = cmd
           \/ next' \in {cur, [cur EXCEPT !.cert = TRUE]} /\ cmd' \in Tails

LEMMA FileStepIsShaped ==
  ASSUME FileStep
  PROVE  FileStepShape
<1> USE DEF FileStepShape, Goto, args, At, Tails
<1>1. CASE EnsureRuntime
  BY <1>1 DEF EnsureRuntime, disk, AfterPool
<1>2. CASE Preview
  BY <1>2 DEF Preview, disk
<1>3. CASE WriteVhost
  BY <1>3 DEF WriteVhost, NotWritten
<1>4. CASE EnableVhost
  BY <1>4 DEF EnableVhost, NotWritten
<1>5. CASE TestVhost
  BY <1>5 DEF TestVhost, NotWritten
<1>6. CASE TurnOffVhost
  BY <1>6 DEF TurnOffVhost, NotWritten, Written
<1>7. CASE ReloadVhost
  BY <1>7 DEF ReloadVhost, Written, disk
<1>8. CASE FlipVhost
  BY <1>8 DEF FlipVhost
<1>9. CASE Activate
  BY <1>9 DEF Activate, disk
<1>10. CASE Unlink
  BY <1>10 DEF Unlink
<1>11. CASE Unload
  BY <1>11 DEF Unload, disk
<1>12. CASE IssueCert
  BY <1>12 DEF IssueCert
<1>13. CASE DeleteCert
  BY <1>13 DEF DeleteCert
<1>14. QED
  BY <1>1, <1>2, <1>3, <1>4, <1>5, <1>6, <1>7, <1>8, <1>9, <1>10, <1>11, <1>12,
     <1>13 DEF FileStep

\* A process that starts has made nothing, and one that ends leaves nothing.
LEMMA QuietStep == Quiet /\ [Next]_vars => Quiet'
<1> SUFFICES ASSUME Quiet, [Next]_vars PROVE Quiet'
  OBVIOUS
<1> USE DEF Quiet, Idle
<1>exit. ASSUME NEW r, Exit(r) PROVE Quiet'
  BY <1>exit DEF Exit
<1>begin. ASSUME NEW c, NEW now, NEW then, NEW first, first # "idle",
                 Begin(c, now, then, first)
          PROVE  Quiet'
  BY <1>begin DEF Begin
<1>1. CASE Start
  <2>1. Add => Quiet'
    BY <1>begin DEF Add
  <2>2. Modify => Quiet'
    BY <1>begin DEF Modify
  <2>3. RuntimeSet => Quiet'
    BY <1>begin DEF RuntimeSet
  <2>4. Redirect \/ AddVhost \/ RemoveVhost => Quiet'
    BY <1>begin DEF Redirect, AddVhost, RemoveVhost
  <2>5. Enable \/ Disable \/ SslAdd \/ SslRemove => Quiet'
    BY <1>begin DEF Enable, Disable, SslAdd, SslRemove
  <2>6. Remove => Quiet'
    BY <1>begin DEF Remove
  <2>7. QED
    BY <1>1, <2>1, <2>2, <2>3, <2>4, <2>5, <2>6 DEF Start
<1>2. CASE FileStep
  BY <1>2, FileStepIsShaped, <1>exit DEF FileStepShape
<1>3. CASE CreatePool
  BY <1>3, <1>exit DEF CreatePool, AfterPool, args, At
<1>4. CASE SaveState
  BY <1>4, <1>exit DEF SaveState, AfterSave, AfterFailedSave, Goto, At
<1>5. CASE DropPool
  BY <1>5 DEF DropPool, Goto, At
<1>6. CASE RemoveOldPool \/ UndoPool \/ Undo \/ DeleteState
  BY <1>6, <1>exit DEF RemoveOldPool, UndoPool, Undo, DeleteState
<1>7. CASE Crash
  BY <1>7, <1>exit DEF Crash
<1>8. CASE OtherReload
  BY <1>8 DEF OtherReload
<1>9. CASE UNCHANGED vars
  BY <1>9 DEF vars
<1>10. QED
  BY <1>1, <1>2, <1>3, <1>4, <1>5, <1>6, <1>7, <1>8, <1>9 DEF Next, Step, FileStep

-----------------------------------------------------------------------------
\* Remove is the one command that lets go of a pool before the state that names
\* it: the two theorems below are about machines on which it is not stopped.
RemoveCompletes == "delete" \notin FaultKinds /\ "remove" \notin CrashIn

LEMMA PoolExit ==
  ASSUME NEW r, Exit(r), RecordedPoolExists'
  PROVE  PoolInv'
BY DEF Exit, PoolInv, Idle, At

\* Every step of every command preserves PoolInv.
LEMMA PoolStep ==
  ASSUME RemoveCompletes, TypeOK, VersionsKept, Quiet, PoolInv, [Next]_vars
  PROVE  PoolInv'
<1> USE DEF Held, RecordedPoolExists, Loaded, Idle, At
<1>1. CASE Start
  <2>1. PICK c \in AllCommands, now \in State, then \in State, first \in FirstLabels :
          Started(c, now, then, first)
    BY <1>1, StartShape
  <2>2. /\ saved' = saved /\ pools' = pools /\ cmd' = c /\ cur' = now
        /\ next' = then /\ pc' = first /\ newPool' = NoVersion /\ pc = "idle"
    BY <2>1 DEF Started, Begin, disk, Quiet
  <2>3. now.pool # NoVersion => now.pool \in pools
    BY <2>1, <2>2 DEF Started, PoolInv, FreshState
  <2>4. RecordedPoolExists'
    BY <2>2 DEF PoolInv
  <2>5. (cmd = "runtimeSet" => RuntimeSetPool)'
    BY <2>1, <2>2 DEF Started, RuntimeSetPool
  <2>6. (cmd \in {"add", "runtimeSet"} /\ ~At("oldPool") /\ Loaded => saved = cur)'
    BY <2>1, <2>2 DEF Started
  <2>7. (~Idle /\ ~At("delete") => Held(cur) /\ Held(next))'
    BY <2>1, <2>2, <2>3 DEF Started
  <2>8. /\ pc' \notin {"oldPool", "undoPool", "undo", "delete"}
        /\ pc' = "droppool" => cmd' = "remove"
    BY <2>1, <2>2 DEF Started, FirstLabels
  <2>9. QED
    BY <2>2, <2>4, <2>5, <2>6, <2>7, <2>8 DEF PoolInv
<1>2. CASE FileStep
  <2>1. FileStepShape
    BY <1>2, FileStepIsShaped
  <2>2. RecordedPoolExists'
    BY <2>1 DEF FileStepShape, PoolInv
  <2>3. CASE \E r \in {"ok", "error"} : Exit(r)
    BY <2>2, <2>3, PoolExit
  <2>4. CASE next' = next /\ cmd' = cmd /\ ~\E r \in {"ok", "error"} : Exit(r)
    BY <2>1, <2>2, <2>4 DEF FileStepShape, PoolInv, RuntimeSetPool
  <2>5. CASE /\ next' \in {cur, [cur EXCEPT !.cert = TRUE]} /\ cmd' \in Tails
             /\ ~\E r \in {"ok", "error"} : Exit(r)
    <3>1. next'.pool = cur.pool
      BY <2>5 DEF TypeOK, ProcessTyped, State
    <3>2. QED
      BY <2>1, <2>2, <2>5, <3>1 DEF FileStepShape, PoolInv, Tails
  <2>6. QED
    BY <2>1, <2>3, <2>4, <2>5 DEF FileStepShape
<1>3. CASE CreatePool
  <2>1. RecordedPoolExists'
    BY <1>3 DEF CreatePool, PoolInv
  <2>2. CASE Exit("error")
    BY <2>1, <2>2, PoolExit
  <2>3. CASE ~Exit("error")
    <3>1. /\ next' = [next EXCEPT !.pool = next.php] /\ next.php \notin pools
          /\ pools' = pools \cup {next.php} /\ newPool' = next.php
          /\ pc' \in {"write", "save"} /\ cur' = cur /\ cmd' = cmd /\ saved' = saved
          /\ pc = "pool"
      BY <1>3, <2>3 DEF CreatePool, AfterPool, args
    <3>2. /\ next'.pool = next.php /\ next'.php = next.php /\ next'.rt = "php"
      BY <3>1 DEF TypeOK, ProcessTyped, State, VersionsKept
    <3>3. Held(cur)' /\ Held(next)' /\ cur.pool # next.php
      BY <3>1, <3>2 DEF PoolInv, VersionsKept, PhpHasVersion
    <3>4. QED
      BY <2>1, <3>1, <3>2, <3>3 DEF PoolInv, RuntimeSetPool
  <2>4. QED
    BY <2>2, <2>3
<1>4. CASE SaveState
  <2>1. pools' = pools /\ pc = "save"
    BY <1>4 DEF SaveState
  <2>2. RecordedPoolExists'
    BY <1>4, <2>1, SentinelAssumption DEF SaveState, PoolInv
  <2>3. CASE \E r \in {"ok", "error"} : Exit(r)
    BY <2>2, <2>3, PoolExit
  <2>4. CASE saved' = next /\ AfterSave /\ ~\E r \in {"ok", "error"} : Exit(r)
    BY <2>1, <2>2, <2>4
    DEF AfterSave, Goto, args, PoolInv, RuntimeSetPool, RemovesOldPool
  <2>5. CASE saved' \in {saved, Torn} /\ AfterFailedSave /\ ~\E r \in {"ok", "error"} : Exit(r)
    BY <2>1, <2>2, <2>5, SentinelAssumption
    DEF AfterFailedSave, Goto, args, PoolInv, RuntimeSetPool
  <2>6. QED
    BY <1>4, <2>3, <2>4, <2>5 DEF SaveState
<1>5. CASE RemoveOldPool
  <2>1. saved.pool # cur.php \/ saved.pool = NoVersion
    BY <1>5 DEF RemoveOldPool, PoolInv, RuntimeSetPool, RemovesOldPool
  <2>2. RecordedPoolExists'
    BY <1>5, <2>1 DEF RemoveOldPool, PoolInv
  <2>3. QED
    BY <1>5, <2>2, PoolExit DEF RemoveOldPool
<1>6. CASE UndoPool
  <2>1. RecordedPoolExists'
    BY <1>6 DEF UndoPool, PoolInv
  <2>2. QED
    BY <1>6, <2>1, PoolExit DEF UndoPool
<1>7. CASE Undo
  <2>1. pools' = pools \ {newPool} /\ saved' \in {saved, cur, Torn}
        /\ cmd \in {"add", "runtimeSet"} /\ pc = "undo"
    BY <1>7 DEF Undo, PoolInv
  <2>2. RecordedPoolExists'
    BY <2>1, SentinelAssumption DEF PoolInv
  <2>3. QED
    BY <1>7, <2>2, PoolExit DEF Undo
<1>8. CASE DropPool
  BY <1>8 DEF DropPool, Goto, args, PoolInv, RuntimeSetPool
<1>9. CASE DeleteState
  <2>1. saved' = NoState
    BY <1>9 DEF DeleteState, Fault, RemoveCompletes
  <2>2. RecordedPoolExists'
    BY <2>1, SentinelAssumption
  <2>3. QED
    BY <1>9, <2>2, PoolExit DEF DeleteState
<1>10. CASE Crash
  <2>1. pc # "delete"
    BY <1>10 DEF Crash, Owner, PoolInv, RemoveCompletes
  <2>2. RecordedPoolExists'
    BY <1>10, <2>1, SentinelAssumption DEF Crash, PoolInv
  <2>3. QED
    BY <1>10, <2>2, PoolExit DEF Crash
<1>11. CASE OtherReload
  BY <1>11 DEF OtherReload, disk, args, PoolInv, RuntimeSetPool, RemovesOldPool
<1>12. CASE UNCHANGED vars
  BY <1>12 DEF vars, disk, args, PoolInv, RuntimeSetPool, RemovesOldPool
<1>13. QED
  BY <1>1, <1>2, <1>3, <1>4, <1>5, <1>6, <1>7, <1>8, <1>9, <1>10, <1>11, <1>12
  DEF Next, Step, FileStep

\* In every execution the PHP-FPM pool that the state file names is on disk, if
\* Remove is not stopped between dropping the pool and deleting the state file:
\* whatever else fails, is killed, or runs for which project and versions.
THEOREM RecordedPoolsExist ==
  ASSUME RemoveCompletes
  PROVE  Spec => []RecordedPoolExists
<1>1. Init => Quiet /\ PoolInv
  BY SentinelAssumption
  DEF Init, Quiet, PoolInv, RecordedPoolExists, Loaded, Idle, At
<1>2. TypeOK /\ VersionsKept /\ Quiet /\ PoolInv /\ [Next]_vars => (Quiet /\ PoolInv)'
  BY QuietStep, PoolStep
<1>3. PoolInv => RecordedPoolExists
  BY DEF PoolInv
<1>4. QED
  BY <1>1, <1>2, <1>3, TypedInvariant, PTL DEF Spec

-----------------------------------------------------------------------------
\* Once a command has written a vhost, every way of failing gives back the files.
LEMMA RewriteUndone ==
  ASSUME TypeOK
  PROVE  LET e == V!EnableFile(Rewritten)
             s == V!Snapshot(begin[2])
         IN  /\ V!RestoreFiles(Rewritten, s) = begin[2]
             /\ V!RestoreFiles(e, s) = begin[2]
             /\ V!RestoreFiles(V!DisableFile(e), s) = begin[2]
BY RestoreUndoesRewrite, RenderTyped DEF Rewritten, TypeOK, ProcessTyped

LEMMA UndoExit ==
  ASSUME NEW r, Exit(r)
  PROVE  UndoInv'
BY DEF Exit, UndoInv

\* Every step preserves UndoInv.
LEMMA UndoStep ==
  ASSUME TypeOK, VersionsKept, Quiet, UndoInv, [Next]_vars
  PROVE  UndoInv'
<1> USE DEF Idle, At
<1>1. CASE Start
  <2>1. CASE RuntimeSet
    <3>1. PICK then :
            Loaded /\ Begin("runtimeSet", saved, then, "ensure")
      BY <2>1 DEF RuntimeSet
    <3>2. /\ cur' = saved /\ begin' = <<saved, files, pools>> /\ pc' = "ensure"
          /\ newPool' = NoVersion /\ saved' = saved /\ pools' = pools /\ files' = files
      BY <3>1 DEF Begin, disk, Quiet
    <3>3. NoVersion \notin pools
      BY ProjectAssumption DEF ProjectAssumption, TypeOK, DiskTyped
    <3>4. QED
      BY <3>2, <3>3 DEF UndoInv
  <2>2. CASE ~RuntimeSet
    <3>1. cmd' # "runtimeSet"
      BY <1>1, <2>2
      DEF Start, Add, Modify, Redirect, AddVhost, RemoveVhost, Enable, Disable,
          Remove, SslAdd, SslRemove, Begin
    <3>2. QED
      BY <3>1 DEF UndoInv
  <2>3. QED
    BY <2>1, <2>2
<1>2. CASE (Step \/ Crash) /\ cmd # "runtimeSet"
  <2>1. cmd' # "runtimeSet"
    <3>1. CASE FileStep
      BY <1>2, <3>1, FileStepIsShaped DEF FileStepShape, Tails, Exit
    <3>2. CASE CreatePool \/ SaveState \/ RemoveOldPool \/ UndoPool \/ Undo
               \/ DropPool \/ DeleteState \/ Crash
      BY <1>2, <3>2
      DEF CreatePool, SaveState, AfterSave, AfterFailedSave, RemoveOldPool,
          UndoPool, Undo, DropPool, DeleteState, Crash, Goto, Exit, args
    <3>3. QED
      BY <1>2, <3>1, <3>2 DEF Step, FileStep
  <2>2. QED
    BY <2>1 DEF UndoInv
<1>3. CASE Step /\ cmd = "runtimeSet" /\ \E r \in {"ok", "error"} : Exit(r)
  BY <1>3, UndoExit
<1>4. CASE Step /\ cmd = "runtimeSet" /\ ~\E r \in {"ok", "error"} : Exit(r)
  <2> USE DEF Goto, args, UndoInv, Rewritten
  <2>1. CASE EnsureRuntime
    BY <1>4, <2>1 DEF EnsureRuntime, disk, AfterPool, NeedsVhost
  <2>2. CASE CreatePool
    <3>1. next' = [next EXCEPT !.pool = next.php] /\ next'.vhost = next.vhost
          /\ newPool' = next.php /\ next.php \notin pools
          /\ pools' = pools \cup {next.php}
      BY <1>4, <2>2 DEF CreatePool, TypeOK, ProcessTyped, State
    <3>2. next.php # NoVersion
      BY <2>2 DEF CreatePool, VersionsKept, PhpHasVersion
    <3>3. QED
      BY <1>4, <2>2, <3>1, <3>2 DEF CreatePool, AfterPool, NeedsVhost
  <2>3. CASE WriteVhost
    BY <1>4, <2>3 DEF WriteVhost, NotWritten
  <2>4. CASE EnableVhost
    BY <1>4, <2>4, RewriteUndone DEF EnableVhost, NotWritten
  <2>5. CASE TestVhost
    BY <1>4, <2>5, RewriteUndone DEF TestVhost, NotWritten
  <2>6. CASE TurnOffVhost
    BY <1>4, <2>6, RewriteUndone DEF TurnOffVhost, NotWritten, Written
  <2>7. CASE ReloadVhost
    BY <1>4, <2>7, RewriteUndone DEF ReloadVhost, Written, disk
  <2>8. CASE SaveState
    BY <1>4, <2>8 DEF SaveState, AfterSave, AfterFailedSave
  <2>9. CASE ~(EnsureRuntime \/ CreatePool \/ WriteVhost \/ EnableVhost \/ TestVhost
               \/ TurnOffVhost \/ ReloadVhost \/ SaveState)
    <3>1. FALSE
      BY <1>4, <2>9
      DEF Step, Preview, FlipVhost, Activate, RemoveOldPool, UndoPool, Undo,
          Unlink, Unload, DropPool, DeleteState, IssueCert, DeleteCert
    <3>2. QED
      BY <3>1
  <2>10. QED
    BY <2>1, <2>2, <2>3, <2>4, <2>5, <2>6, <2>7, <2>8, <2>9
<1>5. CASE Crash
  BY <1>5, UndoExit DEF Crash
<1>6. CASE OtherReload
  BY <1>6 DEF OtherReload, disk, args, UndoInv, Rewritten
<1>7. CASE UNCHANGED vars
  BY <1>7 DEF vars, disk, args, UndoInv, Rewritten
<1>8. QED
  BY <1>1, <1>2, <1>3, <1>4, <1>5, <1>6, <1>7 DEF Next

\* What the rollback of SetRuntime cannot undo: the pool file it could not write,
\* and a state file it cannot write a second time.
RollbackWrites == "poolfile" \notin FaultKinds /\ "resave" \notin FaultKinds

\* A step that ends SetRuntime with an error leaves the disk as it was found.
LEMMA ErrorUndone ==
  ASSUME RollbackWrites, TypeOK, Quiet, UndoInv, Next, cmd = "runtimeSet", outcome' = "error"
  PROVE  begin = <<saved, files, pools>>'
<1> USE DEF Idle, At, UndoInv
<1>begin. begin = <<begin[1], begin[2], begin[3]>>
  BY DEF TypeOK, ProcessTyped
<1>0. pc # "idle" /\ outcome = "none"
  BY DEF Quiet
<1>1. CASE EnsureRuntime
  BY <1>0, <1>1, <1>begin DEF EnsureRuntime, disk, Goto
<1>2. CASE CreatePool
  BY <1>0, <1>2, <1>begin DEF CreatePool, Fault, RollbackWrites
<1>3. CASE UndoPool
  <2>1. pools' = begin[3]
    BY <1>3 DEF UndoPool
  <2>2. QED
    BY <1>0, <1>3, <2>1, <1>begin DEF UndoPool
<1>4. CASE Undo
  <2>1. pools' = begin[3]
    BY <1>4 DEF Undo
  <2>2. files' = begin[2] /\ saved' = begin[1]
    BY <1>4 DEF Undo, Fault, RollbackWrites
  <2>3. QED
    BY <2>1, <2>2, <1>begin
<1>5. CASE ~(EnsureRuntime \/ CreatePool \/ UndoPool \/ Undo)
  <2>1. CASE Start
    BY <2>1, <1>0
    DEF Start, Add, Modify, RuntimeSet, Redirect, AddVhost, RemoveVhost, Enable,
        Disable, Remove, SslAdd, SslRemove, Begin
  <2>2. CASE Crash \/ OtherReload
    BY <2>2, <1>0 DEF Crash, OtherReload, Exit
  <2>3. CASE WriteVhost \/ EnableVhost \/ TestVhost \/ TurnOffVhost
    BY <2>3, <1>0
    DEF WriteVhost, EnableVhost, TestVhost, TurnOffVhost, NotWritten, Written, Goto
  <2>4. CASE ReloadVhost \/ SaveState
    BY <2>4, <1>0
    DEF ReloadVhost, Written, SaveState, AfterSave, AfterFailedSave, Goto, Exit
  <2>5. CASE RemoveOldPool
    BY <2>5 DEF RemoveOldPool, Exit
  <2>6. QED
    BY <1>5, <2>1, <2>2, <2>3, <2>4, <2>5
    DEF Next, Step, Preview, FlipVhost, Activate, Unlink, Unload, DropPool,
        DeleteState, IssueCert, DeleteCert
<1>6. QED
  BY <1>1, <1>2, <1>3, <1>4, <1>5

\* "The change is transactional": in every execution, a SetRuntime that ends in
\* an error has put back the state file, the vhost files and the set of pools
\* exactly as it found them, on both layouts, wherever it failed, if the writes of
\* the rollback itself succeed.
THEOREM FailedRuntimeSetIsUndone ==
  ASSUME RollbackWrites
  PROVE  Spec => FailedRuntimeSetUndone
<1> DEFINE Inv == TypeOK /\ VersionsKept /\ Quiet /\ UndoInv
           Undone == cmd = "runtimeSet" /\ outcome' = "error"
                     => begin = <<saved, files, pools>>'
<1>1. Init => Quiet /\ UndoInv
  BY DEF Init, Quiet, UndoInv, Idle
<1>2. Inv /\ [Next]_vars => (Quiet /\ UndoInv)'
  BY QuietStep, UndoStep
<1>3. Inv /\ [Next]_vars => [Undone]_vars
  BY ErrorUndone
<1>4. QED
  BY <1>1, <1>2, <1>3, TypedInvariant, PTL DEF Spec, FailedRuntimeSetUndone

=============================================================================
