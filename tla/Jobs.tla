-------------------------------- MODULE Jobs --------------------------------
(***************************************************************************)
(* Cron jobs (internal/services/cron) and supervisor programs              *)
(* (internal/services/daemon).                                             *)
(*                                                                         *)
(* A job and a program are a file each, written whole.  The line cron      *)
(* reads and the definition abstrax reads are two parts of the job's file. *)
(* A command is one action, as in Accounts; cron run goes on next to other *)
(* commands, since it waits for the job it started.                        *)
(***************************************************************************)
EXTENDS Naturals, FiniteSets, Accounts

CONSTANTS
  Ids, Names,     \* cron jobs and daemons
  Defs,           \* versions of a definition
  NoFile, Torn,   \* no file, or a file without contents
  NoDef,          \* a definition without a command
  Escapes         \* a job may leave its process group

ASSUME JobsAssumption ==
  /\ NoFile # Torn /\ NoDef \notin Defs /\ Escapes \in BOOLEAN
  /\ NoFile \notin [prog : [user : Users \cup {None}, def : Defs], up : BOOLEAN]

VARIABLES
  jobs,       \* files in cron.d
  confs,      \* supervisor configuration files
  progs,      \* the programs supervisord has loaded
  installed,  \* supervisorctl is on PATH
  run         \* the job that cron run started

cronVars == <<jobs>>
daemonVars == <<confs, progs, installed>>

NoRun == [pc |-> "idle", user |-> None, timed |-> FALSE, procs |-> {}]

JobsInit ==
  /\ jobs = [i \in Ids |-> NoFile]
  /\ confs = [n \in Names |-> NoFile] /\ progs = [n \in Names |-> NoFile]
  /\ installed \in BOOLEAN
  /\ run = NoRun

-----------------------------------------------------------------------------
(* Cron jobs. *)

\* Mutant of Job: the line has no user column, as in a user's crontab.
JobWithoutUser(u, d, enabled) ==
  [user |-> u, def |-> d, enabled |-> enabled, line |-> [user |-> None, def |-> d]]
\* writeJob: the meta lines and the line for cron say the same.
Job(u, d, enabled) ==
  [user |-> u, def |-> d, enabled |-> enabled, line |-> [user |-> u, def |-> d]]
IsJob(f) == f \notin {NoFile, Torn}
Put(i, f) == jobs' = [jobs EXCEPT ![i] = f]
Tears(i) == Stops("write") /\ Put(i, Torn)

CronAdd(i, u, d, enabled, ok) ==
  \/ ok  /\ jobs[i] = NoFile /\ Put(i, Job(u, d, enabled))
  \/ ~ok /\ jobs[i] = NoFile /\ Tears(i)
  \/ ~ok /\ jobs[i] # NoFile /\ UNCHANGED jobs

CronRemove(i, ok) ==
  /\ ok = (jobs[i] # NoFile)
  /\ Put(i, NoFile)

\* What readJob makes of a file: an empty one is an enabled job of nobody.
ReadJob(i) == IF jobs[i] = Torn THEN Job(None, NoDef, TRUE) ELSE jobs[i]

\* Modify sets the flags that are given (u or d, if any); a job needs a user.
CronModify(i, u, d, ok) ==
  IF jobs[i] = NoFile THEN ~ok /\ UNCHANGED jobs
  ELSE LET old == ReadJob(i)
           new == Job(IF u # None THEN u ELSE old.user,
                      IF d # NoDef THEN d ELSE old.def, old.enabled)
       IN  \/ ok  /\ new.user # None /\ Put(i, new)
           \/ ~ok /\ new.user # None /\ Tears(i)
           \/ ~ok /\ new.user = None /\ UNCHANGED jobs

\* setEnabled comments the line for cron out, or back in.
CronSetEnabled(i, enabled, ok) ==
  IF jobs[i] = NoFile THEN ~ok /\ UNCHANGED jobs
  ELSE \/ /\ ok /\ ReadJob(i).enabled # enabled
          /\ Put(i, IF jobs[i] = Torn THEN Torn ELSE [jobs[i] EXCEPT !.enabled = enabled])
       \/ ~ok /\ ReadJob(i).enabled # enabled /\ Tears(i)
       \/ ~ok /\ ReadJob(i).enabled = enabled /\ UNCHANGED jobs

-----------------------------------------------------------------------------
(* cron run. *)

\* runuser, which fails at once for a user that is not there.
RunArgv(u) == IF u \in Users /\ acc[u].on THEN {"leader"} ELSE {}
CronRun(i, timed, ok) ==
  /\ run.pc = "idle"
  /\ IF jobs[i] = NoFile THEN ~ok /\ UNCHANGED run
     ELSE /\ ok
          /\ LET u == ReadJob(i).user
             IN  run' = [pc |-> "running", user |-> u, timed |-> timed,
                         procs |-> RunArgv(u)]

\* What a job does: it starts processes and they end.  All of them hold the
\* pipe that abstrax reads; a daemon leaves the group.
JobForks ==
  /\ "leader" \in run.procs
  /\ \E p \in {"child"} \cup (IF Escapes THEN {"daemon"} ELSE {}) :
       p \notin run.procs /\ run' = [run EXCEPT !.procs = @ \cup {p}]
ProcessEnds ==
  \E p \in run.procs : run' = [run EXCEPT !.procs = @ \ {p}]

\* Mutant of KillGroup: the job is killed, and not its children.
KillLeader(procs) == procs \ {"leader"}
\* killGroup: SIGKILL to the process group.
KillGroup(procs) == procs \ {"leader", "child"}

RunTimesOut ==
  /\ run.pc = "running" /\ run.timed
  /\ run' = [run EXCEPT !.pc = "killed", !.procs = KillGroup(@)]

\* cmd.Wait returns when the job has ended and nobody holds the pipe.
RunReturns ==
  /\ run.pc # "idle" /\ run.procs = {}
  /\ run' = NoRun

-----------------------------------------------------------------------------
(* Supervisor programs. *)

Program(u, d) == [user |-> u, def |-> d]
\* readConf: a file without a program is none.
Conf(f) == IF f = Torn THEN NoFile ELSE f

\* Mutant of RereadUpdate: only the file of this command is looked at.
UpdateOne(loaded, files, ok) ==
  /\ ok
  /\ progs' = [n \in Names |-> IF files[n] = confs[n] THEN loaded[n]
                               ELSE IF Conf(files[n]) = NoFile THEN NoFile
                               ELSE [prog |-> files[n], up |-> TRUE]]
\* supervisorctl reread and update: changed programs restart, programs
\* without a file go.
RereadUpdate(loaded, files, ok) ==
  \/ ok  /\ progs' = [n \in Names |->
              IF Conf(files[n]) = NoFile THEN NoFile
              ELSE IF loaded[n] # NoFile /\ loaded[n].prog = files[n] THEN loaded[n]
              ELSE [prog |-> files[n], up |-> TRUE]]
  \/ ~ok /\ Stops("supervisorctl") /\ progs' = loaded

WriteConf(n, p) == confs' = [confs EXCEPT ![n] = p]

DaemonInstall(ok) ==
  /\ \/ ok /\ installed' = TRUE
     \/ ~ok /\ ~installed /\ Stops("package") /\ UNCHANGED installed
  /\ UNCHANGED <<confs, progs>>

\* Supervisor is installed on request.
DaemonAdd(n, p, install, ok) ==
  /\ \/ installed' = (installed \/ install)
     \/ install /\ Stops("package") /\ UNCHANGED installed
  /\ \/ installed' /\ confs[n] = NoFile /\ WriteConf(n, p) /\ RereadUpdate(progs, confs', ok)
     \/ ~ok /\ installed' /\ confs[n] = NoFile /\ Stops("write") /\ WriteConf(n, Torn)
        /\ UNCHANGED progs
     \/ ~ok /\ (~installed' \/ confs[n] # NoFile) /\ UNCHANGED <<confs, progs>>

Merged(n, setUser, u, d) == Program(IF setUser THEN u ELSE confs[n].user, d)
\* Modify needs a file that names a program.
DaemonModify(n, setUser, u, d, ok) ==
  /\ UNCHANGED installed
  /\ IF installed /\ Conf(confs[n]) # NoFile
     THEN \/ /\ WriteConf(n, Merged(n, setUser, u, d))
             /\ RereadUpdate(progs, confs', ok)
          \/ ~ok /\ Stops("write") /\ WriteConf(n, Torn) /\ UNCHANGED progs
     ELSE ~ok /\ UNCHANGED <<confs, progs>>

\* Remove stops the program first, unless told not to; --force goes on when
\* that fails.
DaemonRemove(n, stop, force, ok) ==
  /\ UNCHANGED installed
  /\ \/ /\ installed /\ confs[n] # NoFile
        /\ stop /\ ~force => progs[n] # NoFile
        /\ WriteConf(n, NoFile)
        /\ RereadUpdate(IF stop /\ progs[n] # NoFile
                        THEN [progs EXCEPT ![n].up = FALSE] ELSE progs, confs', ok)
     \/ /\ ~ok /\ (~installed \/ confs[n] = NoFile \/ (stop /\ ~force))
        /\ UNCHANGED <<confs, progs>>

\* Start, Stop and Restart; the program need not be one of abstrax's.
DaemonControl(n, action, ok) ==
  /\ UNCHANGED <<confs, installed>>
  /\ ok = (installed /\ progs[n] # NoFile)
  /\ progs' = IF ok THEN [progs EXCEPT ![n].up = (action # "stop")] ELSE progs

-----------------------------------------------------------------------------
(* What user remove asks: who still uses the account. *)

DaemonUsage(u) == {n \in Names : Conf(confs[n]) # NoFile /\ confs[n].user = u}
\* A line that is commented out is not seen.
CronUsage(u) ==
  {i \in Ids : IsJob(jobs[i]) /\ jobs[i].enabled /\ jobs[i].line.user = u}
ProcessUsage(u) ==
  \/ run.user = u /\ run.procs # {}
  \/ \E n \in Names : progs[n] # NoFile /\ progs[n].up /\ progs[n].prog.user = u
  \/ \E s \in Seats : Here(s, u)
StillUsedBy(u) == DaemonUsage(u) # {} \/ CronUsage(u) # {} \/ ProcessUsage(u)
=============================================================================
