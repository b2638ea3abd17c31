------------------------ MODULE ProjectSettledProofs ------------------------
(***************************************************************************)
(* More theorems about Project: what its disk and nginx hold at rest.      *)
(***************************************************************************)
EXTENDS ProjectFilesProofs

\* The conditions of the four properties of settled projects: the steps that fail
\* are those whose command undoes what it did, nothing is killed, and Redirect,
\* which writes the vhost of a disabled project enabled, is not run.  An enable that
\* loses the link it is about to make ("link") is not one of these steps.
Undisturbed ==
  /\ FaultKinds \subseteq {"ensure", "pool", "write", "nginx"} /\ CrashIn = {}
  /\ "redirect" \notin Commands /\ DryHonoured

\* The vhost files f are those of a settled project with the vhost of state st.
Laid(st, f) ==
  IF Layout = "sites"
  THEN f.active = Render(st) /\ f.off = NoFile /\ f.link = ~st.off
  ELSE /\ f.active = IF st.off THEN NoFile ELSE Render(st)
       /\ f.off = IF st.off THEN Render(st) ELSE NoFile
       /\ ~f.link
LaidOut(st, f) == st.vhost => Laid(st, f)

\* No half of a file, and no link without one.
Whole(f) == f \in Over(Conf \cup {NoFile}) /\ OneLayout(f) /\ ~V!Dangling(f)

\* The steps that no undisturbed command comes to.
UndisturbedInv ==
  /\ pc \notin {"undo", "render"} /\ cmd \notin {"sslPutback", "redirect"}
  /\ cmd = "vhostAdd" => pc \notin {"unlink", "unload"}
  /\ pc = "reload" => ~next.off

BeginInv ==
  /\ cmd # "none" => Whole(begin[2])
  /\ cmd \notin {"none", "add"} => LaidOut(cur, begin[2])

\* The files follow the command: what it found, then the rewrite, then what the
\* state it is about to store renders to.
Untouched == {"ensure", "pool", "plain", "issue", "write", "flip", "unlink", "undoPool"}
LaidInv ==
  /\ Whole(files)
  /\ pc = "idle" /\ Loaded => LaidOut(saved, files)
  /\ pc \in Untouched => files = begin[2]
  /\ pc \in Rewriting => snap = V!Snapshot(begin[2])
  /\ pc = "enable" => files = Rewritten
  /\ pc \in {"test", "turnOff", "reload"} => files = V!EnableFile(Rewritten)
  /\ pc \in {"save", "certdel", "oldPool", "activate"} => LaidOut(next, files)
  /\ pc = "unload" => V!Served(files) = NoFile

\* nginx runs what it was given last: what the command found, until its reload.
LiveInv ==
  /\ pc \in Rewriting => live = V!Served(begin[2])
  /\ pc \notin Rewriting \cup {"unload", "activate"}
     /\ ~(pc = "save" /\ cmd \in {"enable", "disable"}) => live = V!Served(files)

LEMMA RenderIsFile ==
  ASSUME NEW st \in State
  PROVE  Render(st) \in Conf \cup {NoFile} /\ Render(st) \in V!Slot /\ Render(st) # NoFile
BY RenderTyped, SentinelAssumption

LEMMA LaidServed ==
  ASSUME NEW st \in State, NEW f \in V!Files, Laid(st, f)
  PROVE  /\ Whole(f)
         /\ V!Served(f) = IF st.off THEN NoFile ELSE Render(st)
         /\ V!Enabled(f) <=> ~st.off
<1>1. /\ Render(st) \in Conf \cup {NoFile} /\ Render(st) # NoFile
      /\ st.off \in BOOLEAN /\ f.link \in BOOLEAN
  BY RenderIsFile DEF State, V!Files
<1>2. f.active \in Conf \cup {NoFile} /\ f.off \in Conf \cup {NoFile}
  BY <1>1 DEF Laid
<1>3. f \in Over(Conf \cup {NoFile})
  BY <1>2 DEF V!Files, Over
<1>4. QED
  BY <1>1, <1>3, ProjectAssumption
  DEF ProjectAssumption, Laid, Whole, OneLayout, V!Dangling, V!Served, V!Enabled

\* A rewrite leaves the files of the state it renders, off if that is off.
LEMMA RewriteLaysOut ==
  ASSUME NEW st \in State, NEW f \in V!Files, Whole(f)
  PROVE  LET w == V!WriteActive(f, Render(st))
             e == V!EnableFile(w)
         IN  /\ Whole(w) /\ Whole(e)
             /\ ~st.off => Laid(st, e)
             /\ st.off => Laid(st, V!DisableFile(e))
<1> DEFINE c == Render(st)
           S == Conf \cup {NoFile}
           w == V!WriteActive(f, c)
           e == V!EnableFile(w)
<1>1. c \in S /\ c \in V!Slot /\ c # NoFile /\ st.off \in BOOLEAN
  BY RenderIsFile DEF State
<1>2. w \in Over(S) /\ e \in Over(S)
  BY <1>1, FilesOver DEF Whole
<1>3. w \in V!Files
  BY <1>1, FilesTyped, NoVhostTyped
<1>4. OneLayout(w) /\ OneLayout(e)
  BY <1>1, <1>3, OneLayoutKept DEF Whole
<1>5. w.active = c /\ w.off = NoFile
  BY <1>1, <1>4, ProjectAssumption
  DEF V!WriteActive, V!Files, OneLayout, ProjectAssumption
<1>6. /\ e.active = c /\ e.off = NoFile /\ (Layout = "sites" => e.link)
      /\ e \in V!Files
  BY <1>3, <1>5, FilesTyped, NoVhostTyped, ProjectAssumption
  DEF V!EnableFile, V!Files, ProjectAssumption
<1>7. ~V!Dangling(w) /\ ~V!Dangling(e)
  BY <1>1, <1>5, <1>6 DEF V!Dangling, V!Enabled
<1>8. ~st.off => Laid(st, e)
  BY <1>4, <1>6 DEF Laid, OneLayout
<1>9. st.off => Laid(st, V!DisableFile(e))
  BY <1>1, <1>4, <1>6 DEF Laid, OneLayout, V!DisableFile, V!Files
<1>10. QED
  BY <1>2, <1>4, <1>7, <1>8, <1>9 DEF Whole

\* Turning a settled vhost on or off settles it.
LEMMA FlipLaysOut ==
  ASSUME NEW a \in State, NEW b \in State, Render(a) = Render(b),
         NEW f \in V!Files, Laid(a, f)
  PROVE  /\ ~b.off => Laid(b, V!EnableFile(f))
         /\ b.off => Laid(b, V!DisableFile(f))
<1>1. Render(a) # NoFile /\ a.off \in BOOLEAN /\ b.off \in BOOLEAN
  BY RenderIsFile DEF State
<1>2. ~b.off => Laid(b, V!EnableFile(f))
  BY <1>1 DEF Laid, V!EnableFile, V!Files
<1>3. b.off => Laid(b, V!DisableFile(f))
  BY <1>1 DEF Laid, V!DisableFile, V!Files
<1>4. QED
  BY <1>2, <1>3

LEMMA DeleteIsWhole ==
  ASSUME NEW f \in V!Files, OneLayout(f)
  PROVE  Whole(V!DeleteFiles(f)) /\ V!Served(V!DeleteFiles(f)) = NoFile
BY ProjectAssumption
   DEF ProjectAssumption, Whole, Over, OneLayout, V!DeleteFiles, V!DisableFile, V!Dangling,
       V!Served, V!Enabled, V!Files

LEMMA UndisturbedStep ==
  ASSUME Undisturbed, CommandInv, UndisturbedInv, Next
  PROVE  UndisturbedInv'
<1> USE DEF UndisturbedInv, Goto, args, At, Fault, Undisturbed
<1>exit. ASSUME NEW r, Exit(r) PROVE UndisturbedInv'
  BY <1>exit DEF Exit
<1>0. CASE \E r \in {"ok", "error", "crashed"} : Exit(r)
  BY <1>0, <1>exit
<1>1. CASE Start
  BY <1>1
  DEF Start, Add, Modify, RuntimeSet, Redirect, AddVhost, RemoveVhost, Enable, Disable,
      Remove, SslAdd, SslRemove, Begin
<1>n. CASE Step /\ ~\E r \in {"ok", "error", "crashed"} : Exit(r)
  <2>1. CASE EnsureRuntime \/ CreatePool \/ Preview
    BY <1>n, <2>1 DEF EnsureRuntime, CreatePool, Preview, AfterPool
  <2>2. CASE NotWritten
    BY <1>n, <2>2 DEF NotWritten
  <2>3. CASE WriteVhost \/ EnableVhost
    BY <1>n, <2>2, <2>3 DEF WriteVhost, EnableVhost
  <2>4. CASE TestVhost
    <3>1. CASE NotWritten
      BY <2>2, <3>1
    <3>2. CASE ~NotWritten
      <4>1. pc' = (IF KeepOff THEN "turnOff" ELSE "reload") /\ next' = next /\ cmd' = cmd
        BY <2>4, <3>2 DEF TestVhost
      <4>2. cmd \in Rewriters \ {"sslPutback", "redirect"}
        BY <2>4 DEF TestVhost, CommandInv, RouteInv, Rewriting
      <4>3. ~KeepOff => ~next.off
        BY <4>2 DEF KeepOff, Rewriters, CommandInv, PlanInv
      <4>4. QED
        BY <4>1, <4>2, <4>3 DEF Rewriters
    <3>3. QED
      BY <3>1, <3>2
  <2>5. CASE TurnOffVhost \/ ReloadVhost
    BY <1>n, <2>2, <2>5 DEF TurnOffVhost, ReloadVhost, Written
  <2>6. CASE FlipVhost \/ DropPool \/ Unlink \/ Unload
    BY <1>n, <2>6 DEF FlipVhost, DropPool, Unlink, Unload
  <2>7. CASE SaveState
    BY <1>n, <2>7 DEF SaveState, AfterSave
  <2>8. CASE IssueCert \/ DeleteCert
    BY <1>n, <2>8 DEF IssueCert, DeleteCert
  <2>9. QED
    BY <1>n, <2>1, <2>3, <2>4, <2>5, <2>6, <2>7, <2>8
    DEF Step, Activate, RemoveOldPool, UndoPool, Undo, DeleteState
<1>2. CASE OtherReload \/ Crash
  BY <1>2, <1>exit DEF OtherReload, Crash
<1>3. QED
  BY <1>0, <1>1, <1>n, <1>2 DEF Next

LEMMA BeginStep ==
  ASSUME TypeOK, CommandInv, BeginInv, LaidInv, Next
  PROVE  BeginInv'
<1>1. CASE cmd = "none"
  <2>1. CASE cmd' = "none"
    BY <2>1 DEF BeginInv
  <2>2. CASE cmd' # "none"
    <3>1. Start
      BY <1>1, <2>2, StepLeaves DEF CommandInv
    <3>2. begin' = <<saved, files, pools>> /\ (cmd' # "add" => cur' = saved /\ Loaded)
      BY <3>1, StartsOpened DEF Opened
    <3>3. pc = "idle"
      BY <1>1 DEF CommandInv, RouteInv
    <3>4. Whole(begin'[2])
      BY <3>2 DEF LaidInv
    <3>5. cmd' # "add" => LaidOut(cur', begin'[2])
      BY <3>2, <3>3 DEF LaidInv
    <3>6. QED
      BY <3>4, <3>5 DEF BeginInv, Whole, LaidOut, Laid, Render, Over, OneLayout, V!Dangling, V!Enabled
  <2>3. QED
    BY <2>1, <2>2
<1>2. CASE cmd # "none"
  <2>1. CASE cmd' = "none"
    BY <2>1 DEF BeginInv
  <2>2. CASE cmd' # "none"
    <3>1. begin' = begin /\ cur' = cur /\ (cmd' \notin {"none", "add"} => cmd \notin {"none", "add"})
      BY <1>2, <2>2, GoesOn DEF CommandInv, Tails
    <3>2. QED
      BY <1>2, <3>1 DEF BeginInv, Whole, LaidOut, Laid, Render, Over, OneLayout, V!Dangling, V!Enabled
  <2>3. QED
    BY <2>1, <2>2
<1>3. QED
  BY <1>1, <1>2

\* What a settled vhost depends on.
LEMMA SameLaid ==
  ASSUME NEW a, NEW b, NEW f, LaidOut(a, f),
         b.vhost => a.vhost /\ Render(a) = Render(b) /\ a.off = b.off
  PROVE  LaidOut(b, f)
BY DEF LaidOut, Laid

LEMMA LaidStep ==
  ASSUME Undisturbed, TypeOK, CommandInv, UndisturbedInv, BeginInv, LaidInv, TypeOK',
         CommandInv', UndisturbedInv', Next
  PROVE  LaidInv'
<1> USE DEF Undisturbed, Fault, At, Goto, args
<1>type. next \in State /\ cur \in State /\ files \in V!Files /\ files' \in V!Files
         /\ begin[2] \in V!Files /\ saved' \in Stored
  BY DEF TypeOK, DiskTyped, ProcessTyped
<1>torn. Torn \notin State /\ NoState \notin State
  BY SentinelAssumption
<1>whole. ASSUME NEW f, Whole(f), files' = f PROVE Whole(files')
  BY <1>whole
<1>rest. cmd \notin {"none", "remove"} /\ pc \notin {"oldPool", "activate"} /\ Loaded
         => LaidOut(saved, begin[2])
  BY <1>torn DEF CommandInv, StoredInv, BeginInv, Loaded
\* The end of a command.
<1>exit. ASSUME NEW r, Exit(r), Whole(files'), Loaded' => LaidOut(saved', files')
         PROVE  LaidInv'
  BY <1>exit DEF Exit, LaidInv, Untouched, Rewriting
<1>back. ASSUME NEW r, Exit(r), files' = begin[2], saved' = saved,
                cmd \notin {"none", "remove"}, pc \notin {"oldPool", "activate"}
         PROVE  LaidInv'
  BY <1>back, <1>rest, <1>exit DEF BeginInv, Loaded
\* A jump to a step before the rewrite, or to one after it.
<1>before. ASSUME pc' \in Untouched, begin' = begin, files' = begin[2], cmd # "none"
           PROVE  LaidInv'
  <2>1. Whole(files')
    BY <1>before DEF BeginInv
  <2>2. QED
    BY <1>before, <2>1 DEF LaidInv, Untouched, Rewriting
<1>after. ASSUME pc' \in {"save", "certdel", "oldPool", "activate"},
                 LaidOut(next', files'), Whole(files')
          PROVE  LaidInv'
  BY <1>after DEF LaidInv, Untouched, Rewriting
\* A rewrite that fails, and one that is done.
<1>fail. ASSUME NotWritten, files' = begin[2], saved' = saved, begin' = begin \/ cmd' = "none",
                pc \in {"write"} \cup Rewriting
         PROVE  LaidInv'
  <2>1. cmd \notin {"none", "remove"} /\ pc \notin {"oldPool", "activate"}
    BY <1>fail DEF CommandInv, RouteInv, Rewriting, Rewriters
  <2>2. CASE cmd \in {"add", "runtimeSet"}
    BY <1>fail, <2>1, <2>2, <1>before DEF NotWritten, Untouched
  <2>3. CASE cmd = "sslAdd"
    <3>1. next' = [cur EXCEPT !.cert = TRUE] /\ pc' = "save"
      BY <1>fail, <2>3 DEF NotWritten
    <3>2. next'.vhost = cur.vhost /\ Render(next') = Render(cur) /\ next'.off = cur.off
      BY <3>1, <1>type DEF State, Render
    <3>3. LaidOut(cur, begin[2]) /\ Whole(begin[2])
      BY <2>3 DEF BeginInv
    <3>4. QED
      BY <1>fail, <3>1, <3>2, <3>3, <1>after, SameLaid
  <2>4. CASE cmd \notin {"add", "runtimeSet", "sslAdd"}
    BY <1>fail, <2>1, <2>4, <1>back DEF NotWritten
  <2>5. QED
    BY <2>2, <2>3, <2>4
<1>done. ASSUME Written, Laid(next, files'), cmd # "sslPutback" PROVE LaidInv'
  <2>1. Whole(files')
    BY <1>done, <1>type, LaidServed
  <2>2. pc' \in {"save", "certdel"} /\ next' = next
    BY <1>done DEF Written
  <2>3. LaidOut(next', files')
    BY <1>done, <2>2 DEF LaidOut
  <2>4. QED
    BY <2>1, <2>2, <2>3, <1>after
<1>1. CASE Start
  <2>1. Opened
    BY <1>1, StartsOpened
  <2>2. files' = files /\ saved' = saved /\ begin'[2] = files /\ Whole(files)
    BY <2>1 DEF Opened, disk, LaidInv
  <2>3. pc' \in Untouched \cup {"save", "droppool"}
    BY <2>1, <1>1 DEF Opened, FirstLabels, Untouched, UndisturbedInv
  <2>4. CASE pc' = "save"
    <3>1. Modify
      BY <1>1, <2>4
      DEF Start, Add, RuntimeSet, Redirect, AddVhost, RemoveVhost, Enable, Disable,
          Remove, SslAdd, SslRemove, Begin
    <3>2. PICK r \in Revs, v \in Version :
            /\ Loaded
            /\ LET then == [saved EXCEPT !.rev = r, !.php = v]
               IN  Begin("modify", saved, then,
                         IF saved.rt = "php" /\ v # saved.php THEN "ensure"
                         ELSE IF saved.vhost /\ Rerender(saved, then)
                         THEN "write" ELSE "save")
      BY <3>1 DEF Modify
    <3>3. /\ next' = [saved EXCEPT !.rev = r, !.php = v] /\ saved \in State
          /\ saved.vhost => ~Rerender(saved, next')
      BY <2>4, <3>2 DEF Begin, Loaded
    <3>4. /\ next'.vhost = saved.vhost /\ next'.off = saved.off
          /\ next'.vhost => Render(next') = Render(saved)
      BY <3>3 DEF State, Rerender, Render
    <3>5. LaidOut(saved, files)
      BY <2>1, <3>2 DEF Opened, LaidInv
    <3>6. QED
      BY <2>2, <2>4, <3>4, <3>5, <1>after, SameLaid
  <2>5. CASE pc' # "save"
    BY <2>2, <2>3, <2>5 DEF LaidInv, Untouched, Rewriting, Whole, Over, OneLayout,
       V!Dangling, V!Enabled
  <2>6. QED
    BY <2>4, <2>5
<1>2. CASE EnsureRuntime
  <2>1. files' = files /\ saved' = saved /\ files = begin[2] /\ pc = "ensure"
        /\ cmd \in {"add", "modify", "runtimeSet"}
    BY <1>2 DEF EnsureRuntime, disk, LaidInv, Untouched, CommandInv, RouteInv
  <2>2. CASE \E r \in {"ok", "error"} : Exit(r)
    BY <2>1, <2>2, <1>back
  <2>3. CASE ~\E r \in {"ok", "error"} : Exit(r)
    <3>1. pc' = (IF NeedsPool THEN "pool" ELSE AfterPool) /\ next' = next /\ begin' = begin
      BY <1>2, <2>3 DEF EnsureRuntime
    <3>2. CASE pc' = "save"
      <4>1. ~NeedsVhost
        BY <3>1, <3>2 DEF AfterPool
      <4>2. CASE next.vhost
        <5>1. cmd = "modify" /\ ~Rerender(cur, next)
          BY <4>1, <4>2 DEF NeedsVhost
        <5>2. Render(next) = Render(cur) /\ next.off = cur.off /\ cur.vhost
          BY <4>2, <5>1 DEF Rerender, Render, CommandInv, PlanInv
        <5>3. LaidOut(cur, begin[2]) /\ Whole(begin[2])
          BY <5>1 DEF BeginInv
        <5>4. QED
          BY <2>1, <3>1, <3>2, <5>2, <5>3, <1>after, SameLaid
      <4>3. CASE ~next.vhost
        BY <2>1, <3>1, <3>2, <4>3, <1>after DEF LaidOut, LaidInv
      <4>4. QED
        BY <4>2, <4>3
    <3>3. CASE pc' # "save"
      <4>1. pc' \in Untouched
        BY <3>1, <3>3 DEF AfterPool, Untouched
      <4>2. QED
        BY <2>1, <3>1, <4>1, <1>before
    <3>4. QED
      BY <3>2, <3>3
  <2>4. QED
    BY <2>2, <2>3
<1>3. CASE CreatePool
  <2>1. files' = files /\ saved' = saved /\ files = begin[2] /\ pc = "pool"
        /\ cmd \in {"add", "runtimeSet"}
    BY <1>3 DEF CreatePool, LaidInv, Untouched, CommandInv, RouteInv
  <2>2. CASE Exit("error")
    BY <2>1, <2>2, <1>back
  <2>3. CASE ~Exit("error")
    <3>1. pc' = AfterPool /\ next' = [next EXCEPT !.pool = next.php] /\ begin' = begin
      BY <1>3, <2>3 DEF CreatePool
    <3>2. next'.vhost = next.vhost
      BY <3>1, <1>type DEF State
    <3>3. pc' = IF next.vhost THEN "write" ELSE "save"
      BY <2>1, <3>1 DEF AfterPool, NeedsVhost
    <3>4. CASE next.vhost
      BY <2>1, <3>1, <3>3, <3>4, <1>before DEF Untouched
    <3>5. CASE ~next.vhost
      BY <2>1, <3>2, <3>3, <3>5, <1>after DEF LaidOut, LaidInv
    <3>6. QED
      BY <3>4, <3>5
  <2>4. QED
    BY <2>2, <2>3
<1>4. CASE Preview
  <2>1. files' = files /\ saved' = saved /\ files = begin[2] /\ pc = "plain"
        /\ cmd = "sslRemove"
    BY <1>4 DEF Preview, disk, LaidInv, Untouched, CommandInv, RouteInv, UndisturbedInv
  <2>2. CASE dry
    BY <1>4, <2>1, <2>2, <1>back DEF Preview
  <2>3. CASE ~dry /\ cur.vhost
    BY <1>4, <2>1, <2>3, <1>before DEF Preview, Untouched
  <2>4. CASE ~dry /\ ~cur.vhost
    <3>1. pc' \in {"certdel", "save"} /\ next' = next /\ ~next.vhost
      BY <1>4, <2>1, <2>4 DEF Preview, CommandInv, PlanInv
    <3>2. QED
      BY <2>1, <3>1, <1>after DEF LaidOut, LaidInv
  <2>5. QED
    BY <2>2, <2>3, <2>4
\* The rewrite itself.
<1>rewrite. LET e == V!EnableFile(Rewritten)
            IN  /\ pc \in {"write", "enable", "test", "turnOff", "reload"} => Whole(begin[2])
                /\ Whole(begin[2]) => /\ Whole(Rewritten) /\ Whole(e)
                                      /\ ~next.off => Laid(next, e)
                                      /\ next.off => Laid(next, V!DisableFile(e))
  <2>1. pc \in {"write", "enable", "test", "turnOff", "reload"} => Whole(begin[2])
    BY DEF CommandInv, RouteInv, BeginInv
  <2>2. QED
    BY <2>1, <1>type, RewriteLaysOut DEF Rewritten
<1>restored. pc \in Rewriting =>
               V!RestoreFiles(files, snap) = begin[2]
  BY RewriteUndone DEF LaidInv, Rewriting
<1>5. CASE WriteVhost
  <2>1. pc = "write" /\ files = begin[2] /\ saved' = saved
    BY <1>5 DEF WriteVhost, LaidInv, Untouched
  <2>2. CASE NotWritten /\ files' = files
    BY <2>1, <2>2, <1>fail DEF NotWritten, Exit
  <2>3. CASE ~(NotWritten /\ files' = files)
    <3>1. /\ files' = Rewritten /\ snap' = V!Snapshot(begin[2]) /\ pc' = "enable"
          /\ next' = next /\ begin' = begin
      BY <1>5, <2>1, <2>3 DEF WriteVhost, Rewritten
    <3>2. Whole(files')
      BY <2>1, <3>1, <1>rewrite
    <3>3. Rewritten' = Rewritten
      BY <3>1 DEF Rewritten, Render
    <3>4. QED
      BY <3>1, <3>2, <3>3 DEF LaidInv, Untouched
  <2>4. QED
    BY <2>2, <2>3
<1>6. CASE EnableVhost
  <2>1. pc = "enable" /\ files = Rewritten /\ saved' = saved
    BY <1>6 DEF EnableVhost, LaidInv
  <2>2. CASE NotWritten /\ files' = V!RestoreFiles(files, snap)
    BY <2>1, <2>2, <1>fail, <1>restored DEF NotWritten, Exit, Rewriting
  <2>3. CASE ~(NotWritten /\ files' = V!RestoreFiles(files, snap))
    <3>1. /\ files' = V!EnableFile(Rewritten) /\ snap' = snap /\ pc' = "test"
          /\ next' = next /\ begin' = begin
      BY <1>6, <2>1, <2>3 DEF EnableVhost
    <3>2. Whole(files') /\ snap = V!Snapshot(begin[2])
      BY <2>1, <3>1, <1>rewrite DEF LaidInv, Rewriting
    <3>3. Rewritten' = Rewritten
      BY <3>1 DEF Rewritten, Render
    <3>4. QED
      BY <3>1, <3>2, <3>3 DEF LaidInv, Untouched
  <2>4. QED
    BY <2>2, <2>3
<1>7. CASE TestVhost
  <2>1. pc = "test" /\ files = V!EnableFile(Rewritten) /\ saved' = saved
    BY <1>7 DEF TestVhost, LaidInv
  <2>2. CASE NotWritten /\ files' = V!RestoreFiles(files, snap)
    BY <2>1, <2>2, <1>fail, <1>restored DEF NotWritten, Exit, Rewriting
  <2>3. CASE ~(NotWritten /\ files' = V!RestoreFiles(files, snap))
    <3>1. /\ files' = files /\ snap' = snap /\ pc' \in {"turnOff", "reload"}
          /\ next' = next /\ begin' = begin
      BY <1>7, <2>1, <2>3 DEF TestVhost
    <3>2. Whole(files') /\ snap = V!Snapshot(begin[2])
      BY <2>1, <3>1, <1>rewrite DEF LaidInv, Rewriting
    <3>3. Rewritten' = Rewritten
      BY <3>1 DEF Rewritten, Render
    <3>4. QED
      BY <2>1, <3>1, <3>2, <3>3 DEF LaidInv, Untouched
  <2>4. QED
    BY <2>2, <2>3
<1>8. CASE TurnOffVhost
  <2>1. pc = "turnOff" /\ files = V!EnableFile(Rewritten) /\ saved' = saved /\ next.off
    BY <1>8 DEF TurnOffVhost, LaidInv, CommandInv, RouteInv, KeepOff
  <2>2. CASE NotWritten /\ files' = V!RestoreFiles(files, snap)
    BY <2>1, <2>2, <1>fail, <1>restored DEF NotWritten, Exit, Rewriting
  <2>3. CASE Written /\ files' = V!DisableFile(files)
    BY <2>1, <2>3, <1>rewrite, <1>done DEF UndisturbedInv
  <2>4. QED
    BY <1>8, <2>2, <2>3 DEF TurnOffVhost
<1>9. CASE ReloadVhost
  <2>1. pc = "reload" /\ files' = V!EnableFile(Rewritten) /\ ~next.off /\ Written
    BY <1>9 DEF ReloadVhost, LaidInv, UndisturbedInv, disk
  <2>2. QED
    BY <2>1, <1>rewrite, <1>done DEF UndisturbedInv
<1>10. CASE FlipVhost
  <2>1. pc = "flip" /\ files = begin[2] /\ saved' = saved /\ cmd \in {"enable", "disable"}
    BY <1>10 DEF FlipVhost, LaidInv, Untouched, CommandInv, RouteInv
  <2>2. CASE Exit("error") /\ files' = files
    BY <2>1, <2>2, <1>back
  <2>3. CASE ~(Exit("error") /\ files' = files)
    <3>1. /\ pc' = "save" /\ next' = next
          /\ \/ cmd = "enable" /\ files' = V!EnableFile(files)
             \/ cmd = "disable" /\ files' = V!DisableFile(files)
      BY <1>10, <2>3 DEF FlipVhost
    <3>2. Laid(cur, files) /\ Render(next) = Render(cur)
      BY <2>1 DEF BeginInv, LaidOut, CommandInv, PlanInv, Render
    <3>3. next.off <=> cmd = "disable"
      BY <2>1 DEF CommandInv, PlanInv
    <3>4. Laid(next, files')
      BY <3>1, <3>2, <3>3, <1>type, FlipLaysOut
    <3>5. QED
      BY <3>1, <3>4, <1>type, <1>after, LaidServed DEF LaidOut
  <2>4. QED
    BY <2>2, <2>3
<1>11. CASE SaveState
  <2>1. /\ saved' = next /\ AfterSave /\ files' = files /\ pc = "save"
    BY <1>11 DEF SaveState
  <2>2. LaidOut(next, files) /\ Whole(files)
    BY <2>1 DEF LaidInv
  <2>3. CASE \E r \in {"ok", "error"} : Exit(r)
    BY <2>1, <2>2, <2>3, <1>exit
  <2>4. CASE ~\E r \in {"ok", "error"} : Exit(r)
    BY <2>1, <2>2, <2>4, <1>after DEF AfterSave
  <2>5. QED
    BY <2>3, <2>4
<1>12. CASE Activate \/ RemoveOldPool
  <2>1. /\ pc \in {"activate", "oldPool"} /\ files' = files /\ saved' = saved
        /\ \E r \in {"ok", "error"} : Exit(r)
    BY <1>12 DEF Activate, RemoveOldPool, disk
  <2>2. cmd \notin {"none", "add"} /\ saved = next
    BY <2>1 DEF CommandInv, RouteInv, StoredInv
  <2>3. LaidOut(saved', files') /\ Whole(files')
    BY <2>1, <2>2 DEF LaidInv
  <2>4. QED
    BY <2>1, <2>3, <1>exit
<1>13. CASE UndoPool
  <2>1. /\ pc = "undoPool" /\ files' = files /\ saved' = saved /\ Exit("error")
        /\ files = begin[2] /\ cmd \in {"add", "runtimeSet"}
    BY <1>13 DEF UndoPool, LaidInv, Untouched, CommandInv, RouteInv
  <2>2. QED
    BY <2>1, <1>back
<1>14. CASE Unlink
  <2>1. files' = V!DeleteFiles(files) /\ pc' = "unload" /\ OneLayout(files)
    BY <1>14 DEF Unlink, LaidInv, Whole
  <2>2. Whole(files') /\ V!Served(files') = NoFile
    BY <2>1, <1>type, DeleteIsWhole
  <2>3. QED
    BY <2>1, <2>2 DEF LaidInv, Untouched, Rewriting
<1>15. CASE Unload
  <2>1. files' = files /\ next' = next /\ pc = "unload" /\ Whole(files)
    BY <1>15 DEF Unload, disk, LaidInv, UndisturbedInv
  <2>2. CASE pc' = "droppool"
    BY <2>1, <2>2, <1>whole DEF LaidInv, Untouched, Rewriting
  <2>3. CASE pc' # "droppool"
    <3>1. pc' = "save" /\ ~next.vhost
      BY <1>15, <2>3 DEF Unload, UndisturbedInv, CommandInv, PlanInv
    <3>2. QED
      BY <2>1, <3>1, <1>whole, <1>after DEF LaidOut
  <2>4. QED
    BY <2>2, <2>3
<1>16. CASE DropPool
  <2>1. files' = files /\ pc' = "delete" /\ Whole(files)
    BY <1>16 DEF DropPool, LaidInv
  <2>2. QED
    BY <2>1, <1>whole DEF LaidInv, Untouched, Rewriting
<1>17. CASE DeleteState
  <2>1. files' = files /\ saved' = NoState /\ Exit("ok") /\ Whole(files)
    BY <1>17 DEF DeleteState, LaidInv
  <2>2. QED
    BY <2>1, <1>torn, <1>whole, <1>exit DEF Loaded
<1>18. CASE IssueCert
  <2>1. /\ pc = "issue" /\ files' = files /\ saved' = saved /\ files = begin[2]
        /\ cmd = "sslAdd"
    BY <1>18 DEF IssueCert, LaidInv, Untouched, CommandInv, RouteInv
  <2>2. CASE Exit("ok")
    BY <2>1, <2>2, <1>back
  <2>3. CASE ~Exit("ok")
    BY <1>18, <2>1, <2>3, <1>before DEF IssueCert, Untouched
  <2>4. QED
    BY <2>2, <2>3
<1>19. CASE DeleteCert
  <2>1. pc = "certdel" /\ files' = files /\ pc' = "save" /\ next' = next
    BY <1>19 DEF DeleteCert
  <2>2. LaidOut(next, files) /\ Whole(files)
    BY <2>1 DEF LaidInv
  <2>3. QED
    BY <2>1, <2>2, <1>after
<1>20. CASE Undo \/ Crash
  BY <1>20 DEF Undo, Crash, UndisturbedInv
<1>21. CASE OtherReload
  BY <1>21 DEF OtherReload, disk, LaidInv, Whole, Over, OneLayout, V!Dangling, V!Served,
     V!Enabled, LaidOut, Laid, Render, Loaded, Rewritten
<1>22. QED
  BY <1>1, <1>2, <1>3, <1>4, <1>5, <1>6, <1>7, <1>8, <1>9, <1>10, <1>11, <1>12, <1>13,
     <1>14, <1>15, <1>16, <1>17, <1>18, <1>19, <1>20, <1>21 DEF Next, Step

\* nginx takes files that are whole and name no missing certificate.
LEMMA WholeIsTaken ==
  ASSUME NEW f, Whole(f), NEW b \in BOOLEAN, ~b => f \in Over(Plain)
  PROVE  ~MayReject(f, b) /\ ~Rejected(f, b)
<1>1. V!Served(f) \in Conf \cup {NoFile} /\ V!Served(f) # Torn
  BY SentinelAssumption DEF Whole, Over, V!Served
<1>2. ~b => V!Served(f) \in Plain
  BY PlainContents DEF Over, V!Served
<1>3. QED
  BY <1>1, <1>2 DEF MayReject, Rejected, Whole, Plain

LEMMA LiveStep ==
  ASSUME Undisturbed, ~OtherReloads, TypeOK, CommandInv, UndisturbedInv, BeginInv, LaidInv, DryInv, TlsInv,
         LiveInv, CommandInv', LaidInv', Next
  PROVE  LiveInv'
<1> USE DEF Undisturbed, Fault, At, Goto, args
<1>type. next \in State /\ cur \in State /\ files \in V!Files /\ files' \in V!Files
         /\ begin[2] \in V!Files /\ cert \in BOOLEAN
  <2>1. files' \in V!Files
    BY OverSlot, OverMonotone DEF LaidInv, Whole, V!Slot
  <2>2. QED
    BY <2>1 DEF TypeOK, DiskTyped, ProcessTyped
<1>taken. pc \notin {"enable", "test"} =>
            /\ ~MayReject(files, cert) /\ ~Rejected(files, cert)
            /\ ~MayReject(files, TRUE) /\ ~Rejected(files, TRUE)
  <2>1. ~cert /\ pc \notin {"enable", "test"} => files \in Over(Plain)
    BY DEF TlsInv, Certified
  <2>2. QED
    BY <2>1, <1>type, WholeIsTaken DEF LaidInv
\* Where nginx runs what is enabled, and what the rewrite found.
<1>served. ASSUME pc' \notin Rewriting, live' = V!Served(files') PROVE LiveInv'
  BY <1>served DEF LiveInv, Rewriting, V!Served, V!Enabled
<1>found. ASSUME begin' = begin, live' = live, pc' \in Rewriting,
                 live = V!Served(begin[2])
          PROVE  LiveInv'
  BY <1>found DEF LiveInv, Rewriting, V!Served, V!Enabled
<1>same. ASSUME pc \in {"ensure", "pool", "plain", "undoPool", "oldPool", "droppool",
                        "delete", "certdel"},
                pc' \notin Rewriting, live' = live, files' = files
         PROVE  LiveInv'
  BY <1>same, <1>served DEF LiveInv, Rewriting
<1>fail. ASSUME NotWritten, files' = begin[2], live' = live, live = V!Served(begin[2])
         PROVE  LiveInv'
  <2>1. pc' \notin Rewriting
    BY <1>fail DEF NotWritten, Exit, Rewriting
  <2>2. QED
    BY <1>fail, <2>1, <1>served
<1>1. CASE Start
  <2>1. Opened
    BY <1>1, StartsOpened
  <2>2. pc' \notin Rewriting /\ live' = live /\ files' = files /\ pc = "idle"
    BY <2>1 DEF Opened, FirstLabels, Rewriting, disk
  <2>3. QED
    BY <2>2, <1>served DEF LiveInv, Rewriting
<1>2. CASE EnsureRuntime
  BY <1>2, <1>same DEF EnsureRuntime, AfterPool, Exit, Rewriting, disk
<1>3. CASE CreatePool
  BY <1>3, <1>same DEF CreatePool, AfterPool, Exit, Rewriting
<1>4. CASE Preview
  BY <1>4, <1>same DEF Preview, Exit, Rewriting, disk, UndisturbedInv
<1>5. CASE WriteVhost
  <2>1. pc = "write" /\ live' = live /\ live = V!Served(begin[2]) /\ files = begin[2]
    BY <1>5 DEF WriteVhost, LiveInv, LaidInv, Untouched, Rewriting
  <2>2. CASE NotWritten /\ files' = files
    BY <2>1, <2>2, <1>fail
  <2>3. CASE ~(NotWritten /\ files' = files)
    BY <1>5, <2>1, <2>3, <1>found DEF WriteVhost, Rewriting
  <2>4. QED
    BY <2>2, <2>3
<1>restored. pc \in Rewriting => V!RestoreFiles(files, snap) = begin[2]
  BY RewriteUndone DEF LaidInv, Rewriting
<1>6. CASE EnableVhost
  <2>1. pc = "enable" /\ live' = live /\ live = V!Served(begin[2])
    BY <1>6 DEF EnableVhost, LiveInv, Rewriting
  <2>2. CASE NotWritten /\ files' = V!RestoreFiles(files, snap)
    BY <2>1, <2>2, <1>restored, <1>fail DEF Rewriting
  <2>3. CASE ~(NotWritten /\ files' = V!RestoreFiles(files, snap))
    BY <1>6, <2>1, <2>3, <1>found DEF EnableVhost, Rewriting
  <2>4. QED
    BY <2>2, <2>3
<1>7. CASE TestVhost
  <2>1. pc = "test" /\ live' = live /\ live = V!Served(begin[2])
    BY <1>7 DEF TestVhost, LiveInv, Rewriting
  <2>2. CASE NotWritten /\ files' = V!RestoreFiles(files, snap)
    BY <2>1, <2>2, <1>restored, <1>fail DEF Rewriting
  <2>3. CASE ~(NotWritten /\ files' = V!RestoreFiles(files, snap))
    BY <1>7, <2>1, <2>3, <1>found DEF TestVhost, Rewriting
  <2>4. QED
    BY <2>2, <2>3
<1>8. CASE TurnOffVhost
  <2>1. pc = "turnOff" /\ live' = live /\ live = V!Served(begin[2])
        /\ files = V!EnableFile(Rewritten)
    BY <1>8 DEF TurnOffVhost, LiveInv, Rewriting, LaidInv
  <2>2. CASE NotWritten /\ files' = V!RestoreFiles(files, snap)
    BY <2>1, <2>2, <1>restored, <1>fail DEF Rewriting
  <2>3. CASE Written /\ files' = V!DisableFile(files)
    <3>1. next.off /\ cmd \notin {"none", "add", "vhostAdd", "vhostRemove", "enable", "disable"}
          /\ next.vhost
      BY <2>1 DEF CommandInv, RouteInv, KeepOff, Rewriting
    <3>2. cur.off /\ cur.vhost
      BY <3>1 DEF CommandInv, PlanInv
    <3>3. V!Served(begin[2]) = NoFile
      BY <3>1, <3>2, <1>type, LaidServed DEF BeginInv, LaidOut
    <3>4. Laid(next, files')
      BY <2>1, <2>3, <3>1, <1>type, RewriteLaysOut DEF BeginInv, Rewritten
    <3>5. V!Served(files') = NoFile
      BY <3>1, <3>4, <1>type, LaidServed
    <3>6. pc' \notin Rewriting
      BY <2>3 DEF Written, Exit, Rewriting
    <3>7. QED
      BY <2>1, <3>3, <3>5, <3>6, <1>served
  <2>4. QED
    BY <1>8, <2>2, <2>3 DEF TurnOffVhost
<1>9. CASE ReloadVhost
  <2>1. pc = "reload" /\ files' = files /\ Reload(files) /\ Written
    BY <1>9 DEF ReloadVhost, disk
  <2>2. live' = V!Served(files)
    BY <2>1, <1>taken DEF Reload, Loads, Keeps, DryInv
  <2>3. pc' \notin Rewriting
    BY <2>1 DEF Written, Exit, Rewriting
  <2>4. QED
    BY <2>1, <2>2, <2>3, <1>served
<1>10. CASE FlipVhost
  <2>1. pc = "flip" /\ live' = live /\ cmd \in {"enable", "disable"}
        /\ live = V!Served(files)
    BY <1>10 DEF FlipVhost, LiveInv, Rewriting, CommandInv, RouteInv
  <2>2. CASE Exit("error") /\ files' = files
    BY <2>1, <2>2, <1>served DEF Exit, Rewriting
  <2>3. CASE ~(Exit("error") /\ files' = files)
    BY <1>10, <2>1, <2>3 DEF FlipVhost, LiveInv, Rewriting
  <2>4. QED
    BY <2>2, <2>3
<1>11. CASE SaveState
  <2>1. pc = "save" /\ files' = files /\ live' = live /\ AfterSave
    BY <1>11 DEF SaveState
  <2>2. CASE cmd \in {"enable", "disable"}
    BY <2>1, <2>2 DEF AfterSave, LiveInv, Rewriting
  <2>3. CASE cmd \notin {"enable", "disable"}
    <3>1. live = V!Served(files)
      BY <2>1, <2>3 DEF LiveInv, Rewriting
    <3>2. pc' \notin Rewriting
      BY <2>1 DEF AfterSave, Exit, Rewriting
    <3>3. QED
      BY <2>1, <3>1, <3>2, <1>served
  <2>4. QED
    BY <2>2, <2>3
<1>12. CASE Activate
  <2>1. pc = "activate" /\ files' = files /\ pc' = "idle"
    BY <1>12 DEF Activate, Exit, disk
  <2>2. live' = V!Served(files)
    BY <1>12, <2>1, <1>taken DEF Activate, Loads, Keeps, DryInv
  <2>3. QED
    BY <2>1, <2>2, <1>served DEF Rewriting
<1>13. CASE RemoveOldPool \/ UndoPool
  BY <1>13, <1>same DEF RemoveOldPool, UndoPool, Exit, Rewriting
<1>14. CASE Unlink
  BY <1>14 DEF Unlink, LiveInv, Rewriting
<1>15. CASE Unload
  <2>1. pc = "unload" /\ files' = files /\ Reload(files)
        /\ pc' \in {"idle", "droppool", "save"}
    BY <1>15 DEF Unload, Exit, disk
  <2>2. live' = V!Served(files)
    BY <2>1, <1>taken DEF Reload, Loads, Keeps, DryInv
  <2>3. QED
    BY <2>1, <2>2, <1>served DEF Rewriting
<1>16. CASE DropPool \/ DeleteState \/ DeleteCert
  BY <1>16, <1>same DEF DropPool, DeleteState, DeleteCert, Exit, Rewriting
<1>17. CASE IssueCert
  <2>1. pc = "issue" /\ files' = files /\ pc' \in {"idle", "write"}
    BY <1>17 DEF IssueCert, Exit
  <2>2. live' = V!Served(files)
    BY <1>17, <2>1, <1>taken DEF IssueCert, Loads, Keeps, LiveInv, Rewriting
  <2>3. QED
    BY <2>1, <2>2, <1>served DEF Rewriting
<1>18. CASE Undo \/ Crash \/ OtherReload
  BY <1>18 DEF Undo, Crash, OtherReload, UndisturbedInv
<1>19. QED
  BY <1>1, <1>2, <1>3, <1>4, <1>5, <1>6, <1>7, <1>8, <1>9, <1>10, <1>11, <1>12, <1>13,
     <1>14, <1>15, <1>16, <1>17, <1>18 DEF Next, Step

-----------------------------------------------------------------------------
\* Everything that holds of undisturbed commands, but for nginx.
SettledInv ==
  /\ Quiet /\ UndoInv /\ CommandInv /\ RewriteInv /\ DryInv /\ TlsInv
  /\ UndisturbedInv /\ BeginInv /\ LaidInv

LEMMA SettledInit == Init => SettledInv /\ LiveInv
<1> SUFFICES ASSUME Init PROVE SettledInv /\ LiveInv
  OBVIOUS
<1>1. Quiet /\ UndoInv /\ RewriteInv /\ CommandInv /\ TlsInv /\ DryInv
  BY CommandInit, RestInit, TlsInit DEF Init, DryInv
<1>2. Whole(V!NoVhost) /\ V!Served(V!NoVhost) = NoFile
  BY DEF Whole, Over, OneLayout, V!NoVhost, V!Dangling, V!Served, V!Enabled
<1>3. UndisturbedInv /\ BeginInv
  BY DEF Init, UndisturbedInv, BeginInv
<1>4. LaidInv /\ LiveInv
  BY <1>2, SentinelAssumption
  DEF Init, LaidInv, LiveInv, Loaded, Untouched, Rewriting
<1>5. QED
  BY <1>1, <1>3, <1>4 DEF SettledInv

LEMMA SettledStep ==
  ASSUME Undisturbed, TypeOK, VersionsKept, TypeOK', SettledInv, [Next]_vars
  PROVE  SettledInv'
<1> USE DEF SettledInv
<1>1. (Quiet /\ UndoInv /\ CommandInv /\ RewriteInv /\ DryInv)'
  BY QuietStep, UndoStep, CommandStep, RewriteKept, DryNext DEF CommandInv, Undisturbed
<1>2. CASE Next
  <2>1. TlsInv'
    BY <1>1, <1>2, TlsStep DEF TestedBeforeKilled, Undisturbed
  <2>2. UndisturbedInv' /\ BeginInv'
    BY <1>2, UndisturbedStep, BeginStep
  <2>3. LaidInv'
    BY <1>1, <1>2, <2>2, LaidStep
  <2>4. QED
    BY <1>1, <2>1, <2>2, <2>3
<1>3. CASE UNCHANGED vars
  <2>1. TlsInv'
    BY <1>3 DEF vars, disk, args, TlsInv, Loaded, Certified, Plain
  <2>2. UndisturbedInv' /\ BeginInv'
    BY <1>3 DEF vars, disk, args, UndisturbedInv, BeginInv, Whole, Over, OneLayout,
       V!Dangling, V!Enabled, LaidOut, Laid, Render
  <2>3. LaidInv'
    BY <1>3 DEF vars, disk, args, LaidInv, Whole, Over, OneLayout, V!Dangling, V!Served,
       V!Enabled, LaidOut, Laid, Render, Loaded, Rewritten
  <2>4. QED
    BY <1>1, <2>1, <2>2, <2>3
<1>4. QED
  BY <1>2, <1>3

LEMMA SettledLiveStep ==
  ASSUME Undisturbed, ~OtherReloads, TypeOK, SettledInv, SettledInv', LiveInv, [Next]_vars
  PROVE  LiveInv'
<1>1. CASE Next
  BY <1>1, LiveStep DEF SettledInv
<1>2. CASE UNCHANGED vars
  BY <1>2 DEF vars, disk, args, LiveInv, V!Served, V!Enabled
<1>3. QED
  BY <1>1, <1>2

\* The three invariants of settled projects hold together.
LEMMA SettledVhosts ==
  ASSUME Undisturbed
  PROVE  Spec => [](VhostMatchesState /\ DisabledMatchesFiles /\ NoDanglingLink)
<1> DEFINE Typed == TypeOK /\ VersionsKept
           Goal == VhostMatchesState /\ DisabledMatchesFiles /\ NoDanglingLink
<1>1. Typed /\ SettledInv /\ [Next]_vars /\ Typed' => SettledInv'
  BY SettledStep
<1>2. Typed /\ SettledInv => Goal
  <2> SUFFICES ASSUME Typed, SettledInv, Idle PROVE Goal
    BY DEF VhostMatchesState, DisabledMatchesFiles, NoDanglingLink
  <2>1. NoDanglingLink
    BY DEF SettledInv, LaidInv, Whole, NoDanglingLink
  <2>2. ASSUME Loaded, saved.vhost
        PROVE  /\ saved.off <=> ~V!Enabled(files)
               /\ Render(saved) = IF V!Enabled(files) THEN files.active
                                  ELSE IF Layout = "sites" THEN files.active ELSE files.off
    <3>1. Laid(saved, files) /\ files \in V!Files /\ saved \in State
      BY <2>2 DEF SettledInv, LaidInv, LaidOut, Idle, TypeOK, DiskTyped, Loaded
    <3>2. V!Enabled(files) <=> ~saved.off
      BY <3>1, LaidServed
    <3>3. QED
      BY <3>1, <3>2 DEF Laid, State
  <2>3. QED
    BY <2>1, <2>2 DEF VhostMatchesState, DisabledMatchesFiles
<1>3. QED
  BY <1>1, <1>2, SettledInit, TypedInvariant, PTL DEF Spec

\* In every execution of undisturbed commands, when none is running, the vhost holds
\* exactly what the recorded settings render to, whatever was rewritten and rolled back.
THEOREM VhostsMatch ==
  ASSUME Undisturbed
  PROVE  Spec => []VhostMatchesState
<1> QED BY SettledVhosts, PTL

\* In every execution of undisturbed commands, when none is running, a project is
\* recorded as disabled exactly when its vhost is off on disk: a vhost enabled for a
\* test (rewriteProjectVhost, Enable) is off again if the test or what follows failed.
THEOREM DisabledMatches ==
  ASSUME Undisturbed
  PROVE  Spec => []DisabledMatchesFiles
<1> QED BY SettledVhosts, PTL

\* In every execution of undisturbed commands, when none is running, no link in
\* sites-enabled points at a vhost file that is gone.
THEOREM NothingDangles ==
  ASSUME Undisturbed
  PROVE  Spec => []NoDanglingLink
<1> QED BY SettledVhosts, PTL

\* In every execution of undisturbed commands, when nobody else reloads nginx, it runs
\* exactly the vhost that is enabled on disk whenever no command is running.
THEOREM LiveIsSettled ==
  ASSUME Undisturbed, ~OtherReloads
  PROVE  Spec => []LiveMatchesFiles
<1> DEFINE Typed == TypeOK /\ VersionsKept
           Inv == SettledInv /\ LiveInv
<1>1. Typed /\ Inv /\ [Next]_vars /\ Typed' => Inv'
  BY SettledStep, SettledLiveStep
<1>2. Inv => LiveMatchesFiles
  BY DEF SettledInv, LiveInv, LiveMatchesFiles, Idle, Rewriting
<1>3. QED
  BY <1>1, <1>2, SettledInit, TypedInvariant, PTL DEF Spec
=============================================================================
