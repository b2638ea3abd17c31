-------------------------------- MODULE Host --------------------------------
(***************************************************************************)
(* The commands on accounts, keys, sessions, cron jobs, daemons, updates,  *)
(* settings and cache servers of one machine.  user remove reads the files *)
(* of keys, jobs and daemons.                                              *)
(***************************************************************************)
EXTENDS Upkeep

CONSTANTS
  Scopes,      \* sets of commands that are run together
  MaxCommands  \* bound on their number

AllCommands ==
  {"userAdd", "userRemove", "grantSudo", "revokeSudo", "setGroups", "lock",
   "unlock", "logout", "keyAdd", "keyRemove", "cronAdd", "cronRemove",
   "cronModify", "cronEnable", "cronDisable", "cronRun", "daemonInstall",
   "daemonAdd", "daemonModify", "daemonRemove", "daemonControl",
   "autoUpdates", "package", "config", "configReset", "cacheInstall",
   "cacheRemove", "cacheControl", "reboot"}

ASSUME HostAssumption == Scopes \subseteq SUBSET AllCommands /\ MaxCommands \in Nat

VARIABLES
  scope, \* the commands an administrator of this machine runs
  last,  \* the command that ran last, its user or setting, flag, and how it ended
  ran    \* commands so far

vars == <<accountVars, file, sessionVars, cronVars, daemonVars, run, upkeepVars, scope, last, ran>>

\* What no command of a scope reads starts in one of its states.
StartsAsNeeded ==
  /\ "autoUpdates" \in scope \/ (~updates.rhel /\ ~updates.pkg)
  /\ "config" \in scope \/ settings = NoFile
  /\ "daemonAdd" \in scope \/ "userRemove" \in scope \/ ~installed
  /\ "userAdd" \in scope \/ "userRemove" \in scope \/ acc = [u \in Users |-> NoAccount]
Init ==
  /\ AccountsInit /\ JobsInit /\ UpkeepInit /\ scope \in Scopes /\ StartsAsNeeded
  /\ last = [op |-> "none", user |-> None, flag |-> FALSE, ok |-> TRUE] /\ ran = 0

Runs(op, u, flag, ok) ==
  /\ op \in scope /\ ran < MaxCommands
  /\ ran' = ran + 1 /\ UNCHANGED scope
  /\ last' = [op |-> op, user |-> u, flag |-> flag, ok |-> ok]
Cmd(op, u, flag, ok) == Runs(op, u, flag, ok) /\ UNCHANGED upkeepVars

NoAccounts == UNCHANGED accountVars
NoJobs == UNCHANGED <<cronVars, daemonVars, run>>

-----------------------------------------------------------------------------
(* cli/user.go *)
OnAccount(op, u, flag, ok) ==
  Cmd(op, u, flag, ok) /\ NoJobs /\ UNCHANGED <<file, sessionVars>>

UserAddCmd == \E u \in Users, sudo, ok \in BOOLEAN :
  Add(u, sudo, ok) /\ OnAccount("userAdd", u, sudo, ok)
GrantSudoCmd == \E u \in Users, ok \in BOOLEAN :
  GrantSudo(u, ok) /\ OnAccount("grantSudo", u, FALSE, ok)
RevokeSudoCmd == \E u \in Users, ok \in BOOLEAN :
  RevokeSudo(u, ok) /\ OnAccount("revokeSudo", u, FALSE, ok)
SetGroupsCmd == \E u \in Users, sudo, ok \in BOOLEAN :
  SetGroups(u, sudo, ok) /\ OnAccount("setGroups", u, sudo, ok)
LockCmd == \E u \in Users, pwOnly, ok \in BOOLEAN :
  Lock(u, pwOnly, ok) /\ OnAccount("lock", u, pwOnly, ok)
UnlockCmd == \E u \in Users, ok \in BOOLEAN :
  Unlock(u, ok) /\ OnAccount("unlock", u, FALSE, ok)

\* --if-unused refuses; --kill-processes ends what pkill reaches.
UserRemoveCmd == \E u \in Users, ifUnused, kill, deleteHome, ok \in BOOLEAN :
  /\ Cmd("userRemove", u, ifUnused, ok)
  /\ IF acc[u].on /\ ifUnused /\ StillUsedBy(u)
     THEN ~ok /\ NoAccounts /\ UNCHANGED <<file, sess, run>>
     ELSE /\ Delete(u, deleteHome, ok)
          /\ IF kill /\ acc[u].on
             THEN /\ run' = [run EXCEPT !.procs = IF run.user = u THEN {} ELSE @]
                  /\ sess' = [s \in Seats |-> IF Here(s, u) THEN Free ELSE sess[s]]
             ELSE UNCHANGED <<run, sess>>
  /\ UNCHANGED <<logins, out, cronVars, daemonVars>>

LogoutCmd == \E u \in Users, how \in {"loginctl", "who"}, which \in Seats \cup {"all"} :
  /\ LogoutLists(u, how, which)
  /\ Cmd("logout", u, which = "all", TRUE) /\ NoAccounts /\ NoJobs /\ UNCHANGED file

\* cli/sshkey.go
OnKeys(op, u, flag, ok) ==
  Cmd(op, u, flag, ok) /\ NoAccounts /\ NoJobs /\ UNCHANGED sessionVars

KeyAddCmd == \E u \in Users, id \in KeyIds, k \in Keys, force, ok \in BOOLEAN :
  KeyAdd(u, id, k, force, ok) /\ OnKeys("keyAdd", u, force, ok)
KeyRemoveCmd ==
  \E u \in Users, id \in KeyIds \cup {Unmanaged}, fp \in Keys \cup {None}, force, ok \in BOOLEAN :
    KeyRemove(u, id, fp, force, ok) /\ OnKeys("keyRemove", u, id = Unmanaged, ok)

-----------------------------------------------------------------------------
(* cli/cron.go *)
OnCron(op, u, ok) ==
  /\ Cmd(op, u, FALSE, ok) /\ NoAccounts
  /\ UNCHANGED <<file, sessionVars, daemonVars, run>>

CronAddCmd == \E i \in Ids, u \in Users, d \in Defs, enabled, ok \in BOOLEAN :
  CronAdd(i, u, d, enabled, ok) /\ OnCron("cronAdd", u, ok)
CronRemoveCmd == \E i \in Ids, ok \in BOOLEAN :
  CronRemove(i, ok) /\ OnCron("cronRemove", None, ok)
CronModifyCmd ==
  \E i \in Ids, u \in Users \cup {None}, d \in Defs \cup {NoDef}, ok \in BOOLEAN :
    CronModify(i, u, d, ok) /\ OnCron("cronModify", None, ok)
CronEnableCmd == \E i \in Ids, ok \in BOOLEAN :
  CronSetEnabled(i, TRUE, ok) /\ OnCron("cronEnable", None, ok)
CronDisableCmd == \E i \in Ids, ok \in BOOLEAN :
  CronSetEnabled(i, FALSE, ok) /\ OnCron("cronDisable", None, ok)
CronRunCmd == \E i \in Ids, timed, ok \in BOOLEAN :
  /\ CronRun(i, timed, ok) /\ Cmd("cronRun", None, timed, ok)
  /\ NoAccounts /\ UNCHANGED <<file, sessionVars, cronVars, daemonVars>>

-----------------------------------------------------------------------------
(* cli/daemon.go *)
OnDaemon(op, ok) ==
  /\ Cmd(op, None, FALSE, ok) /\ NoAccounts
  /\ UNCHANGED <<file, sessionVars, cronVars, run>>

DaemonInstallCmd == \E ok \in BOOLEAN : DaemonInstall(ok) /\ OnDaemon("daemonInstall", ok)
DaemonAddCmd ==
  \E n \in Names, u \in Users \cup {None}, d \in Defs, install, ok \in BOOLEAN :
    DaemonAdd(n, Program(u, d), install, ok) /\ OnDaemon("daemonAdd", ok)
DaemonModifyCmd ==
  \E n \in Names, setUser, ok \in BOOLEAN, d \in Defs :
    \E u \in IF setUser THEN Users \cup {None} ELSE {None} :
      DaemonModify(n, setUser, u, d, ok) /\ OnDaemon("daemonModify", ok)
DaemonRemoveCmd == \E n \in Names, stop, force, ok \in BOOLEAN :
  DaemonRemove(n, stop, force, ok) /\ OnDaemon("daemonRemove", ok)
DaemonControlCmd == \E n \in Names, action \in {"start", "stop"}, ok \in BOOLEAN :
  DaemonControl(n, action, ok) /\ OnDaemon("daemonControl", ok)

-----------------------------------------------------------------------------
(* cli/package_auto_updates.go, cli/package.go, cli/config.go, cli/cache.go *)
(* and cli/server.go                                                        *)
Else == NoAccounts /\ NoJobs /\ UNCHANGED <<file, sessionVars>>

AutoUpdatesCmd == \E enable, ok \in BOOLEAN :
  /\ AutoUpdates(enable, ok) /\ Runs("autoUpdates", None, enable, ok)
  /\ Else /\ UNCHANGED <<settings, driver, rebootDue>>
PackageCmd == \E install, ok \in BOOLEAN :
  /\ PackageChange(install, ok) /\ Runs("package", None, install, ok)
  /\ Else /\ UNCHANGED <<settings, driver, rebootDue>>

OnSettings(k, all, ok) ==
  /\ Runs(IF all THEN "configReset" ELSE "config", k, all, ok)
  /\ Else /\ UNCHANGED <<updates, driver, rebootDue>>
ConfigSetCmd == \E k \in {"php", "roots"}, vs \in SUBSET Values, ok \in BOOLEAN :
  ConfigSet(k, vs, ok) /\ OnSettings(k, FALSE, ok)
ConfigAddCmd == \E k \in {"php", "roots"}, v \in Values, ok \in BOOLEAN :
  ConfigAdd(k, v, ok) /\ OnSettings(k, FALSE, ok)
ConfigRemoveCmd == \E k \in {"php", "roots"}, v \in Values, ok \in BOOLEAN :
  ConfigRemove(k, v, ok) /\ OnSettings(k, FALSE, ok)
ConfigResetCmd == \E k \in {"php", "roots", "all"}, ok \in BOOLEAN :
  ConfigReset(k, ok) /\ OnSettings(k, k = "all", ok)

OnCache(op, flag, ok) ==
  Runs(op, None, flag, ok) /\ Else /\ UNCHANGED <<updates, settings, rebootDue>>
CacheInstallCmd == \E v \in Values \cup {None}, bind, start, ok \in BOOLEAN :
  CacheInstall(v, bind, start, ok) /\ OnCache("cacheInstall", start, ok)
CacheRemoveCmd == \E purge, ok \in BOOLEAN :
  CacheRemove(purge, ok) /\ OnCache("cacheRemove", purge, ok)
CacheControlCmd == \E action \in {"start", "stop", "restart"}, ok \in BOOLEAN :
  CacheControl(action, ok) /\ OnCache("cacheControl", FALSE, ok)

RebootCmd == \E ok \in BOOLEAN :
  /\ Reboot(ok) /\ Runs("reboot", None, FALSE, ok)
  /\ Else /\ UNCHANGED <<updates, settings, driver>>
Booting == Boots /\ Else /\ UNCHANGED <<scope, last, ran>>

-----------------------------------------------------------------------------
(* What happens without a command of abstrax. *)
Elsewhere == UNCHANGED <<upkeepVars, scope, last, ran>>

EditExpiry ==
  /\ {"lock", "unlock"} \cap scope # {}
  /\ \E u \in Users, d \in Dates : SetExpiry(u, d)
  /\ Elsewhere /\ UNCHANGED <<file, sessionVars>> /\ NoJobs
EditKeys ==
  /\ {"keyAdd", "keyRemove"} \cap scope # {}
  /\ \E u \in Users, k \in Keys :
       /\ Len(file[u]) < MaxKeys
       /\ file' = [file EXCEPT ![u] = Append(@, Entry(Unmanaged, k))]
  /\ Elsewhere /\ NoAccounts /\ UNCHANGED sessionVars /\ NoJobs
Sessions ==
  /\ "logout" \in scope
  /\ \/ \E u \in Users, s \in Seats : LogsIn(u, s)
     \/ \E s \in Seats : LogsOut(s)
     \/ LogoutReadsProcesses \/ LogoutEnds
  /\ Elsewhere /\ NoAccounts /\ UNCHANGED file /\ NoJobs
RunStep(action) ==
  action /\ Elsewhere /\ NoAccounts /\ UNCHANGED <<file, sessionVars, cronVars, daemonVars>>
TimesOut == RunStep(RunTimesOut)
Returns  == RunStep(RunReturns)
JobRuns  == RunStep(JobForks \/ ProcessEnds)

Next ==
  \/ UserAddCmd \/ UserRemoveCmd \/ GrantSudoCmd \/ RevokeSudoCmd \/ SetGroupsCmd
  \/ LockCmd \/ UnlockCmd \/ LogoutCmd \/ KeyAddCmd \/ KeyRemoveCmd
  \/ CronAddCmd \/ CronRemoveCmd \/ CronModifyCmd \/ CronEnableCmd \/ CronDisableCmd
  \/ CronRunCmd \/ DaemonInstallCmd \/ DaemonAddCmd \/ DaemonModifyCmd
  \/ DaemonRemoveCmd \/ DaemonControlCmd
  \/ AutoUpdatesCmd \/ PackageCmd \/ ConfigSetCmd \/ ConfigAddCmd \/ ConfigRemoveCmd
  \/ ConfigResetCmd \/ CacheInstallCmd \/ CacheRemoveCmd \/ CacheControlCmd
  \/ RebootCmd \/ Booting
  \/ EditExpiry \/ EditKeys \/ Sessions \/ TimesOut \/ Returns \/ JobRuns

\* A timer that is due fires, and Wait returns once it can (runLimited).
Fairness == WF_vars(TimesOut) /\ WF_vars(Returns)
Spec == Init /\ [][Next]_vars /\ Fairness

-----------------------------------------------------------------------------
(***************************************************************************)
(* Properties.                                                             *)
(***************************************************************************)
TypeOK ==
  /\ acc \in [Users -> [on : BOOLEAN, locked : BOOLEAN,
                        expire : Dates \cup {None, Blocked}, sudo : BOOLEAN]]
  /\ dropIn \subseteq Users
  /\ locks \in [torn : BOOLEAN,
       of : [Users -> {None} \cup [pwOnly : BOOLEAN, expiry : Dates \cup {None}]]]
  /\ \A u \in Users : Len(file[u]) <= MaxKeys
  /\ \A i \in Ids : IsJob(jobs[i]) =>
       jobs[i].user \in Users /\ jobs[i].line = [user |-> jobs[i].user, def |-> jobs[i].def]
  /\ \A n \in Names : Conf(confs[n]) # NoFile =>
       confs[n] \in [user : Users \cup {None}, def : Defs]
  /\ run.pc \in {"idle", "running", "killed"}
  /\ run.procs \subseteq {"leader", "child", "daemon"}
  /\ updates.conf \in {NoFile, Torn, "on", "off"} /\ updates.drop \in {NoFile, Torn, "on"}
  /\ settings \in {NoFile, Torn} \cup [SettingKeys -> SUBSET Values]
  /\ {driver.conf, driver.live} \subseteq Values \cup {None, Torn}
  /\ scope \in Scopes /\ logins \in 0..MaxLogins /\ ran \in 0..MaxCommands

\* A passwordless sudo rule without its account, which the next account of that
\* name would find, is left only by a user remove that was killed before it got
\* to the file.  No command that reports success leaves one, and no failing one
\* writes one.  (Remove deletes the drop-in last, and does not say if it cannot)
RuleGoesWithAccount ==
  [][\A u \in dropIn' : acc'[u].on \/ (u \in dropIn /\ ~acc[u].on)
       \/ (ran' # ran /\ last'.op = "userRemove" /\ last'.user = u /\ ~last'.ok)]_vars

\* Unlock gives an account the expiry date it had before it was locked in full,
\* however often it was so locked in between and whatever failed.  (Lock, Unlock)
\* README.md says it without exception: "user unlock restores the expiry from
\* before the lock".  The date is lost, though, if the account is locked once
\* more with --password-only, and an account of the same name as one that was
\* removed while it was locked gets the date of that one ("lost", see Hold).
UnlockRestores ==
  [][\A u \in Users :
       last'.op = "unlock" /\ last'.user = u /\ ran' # ran
       /\ held[u] \notin {"none", "lost"} /\ held'[u] = "none"
       => acc'[u].expire = held[u]]_vars

\* A logout ends login sessions of its own user and no others, although people
\* log in and out while it runs; the user manager stays.  (Logout, sshdPIDs)
LogoutSparesOthers ==
  [][out.step = "end" /\ out' = NoLogout =>
       \A s \in Seats : sess'[s] # sess[s] =>
         Here(s, out.user) /\ IsLogin(out.how, s)]_vars

\* After a daemon command that reports success supervisord runs what all the
\* files say, also the files that failed commands left.  (rereadUpdate)
ProgramsMatchFiles ==
  [][last'.op \in {"daemonAdd", "daemonModify", "daemonRemove"} /\ last'.ok /\ ran' # ran =>
       \A n \in Names :
         IF Conf(confs'[n]) = NoFile THEN progs'[n] = NoFile
         ELSE progs'[n] # NoFile /\ progs'[n].prog = confs'[n]]_vars

\* A cron run with a timeout comes to an end, whatever its job does, unless a
\* process of the job has left the process group: that one is not killed, it holds
\* the pipe, and abstrax waits for as long as it lives, although README.md says
\* "If the job exceeds the limit, Abstrax kills the process group and exits 124."
RunEnds ==
  (run.pc # "idle" /\ run.timed) ~> (run.pc = "idle" \/ "daemon" \in run.procs)

\* Once automatic updates are reported as on, what systemd runs is abstrax's
\* own configuration ("Only security updates are applied"), once as off,
\* nothing; and the status says the same.  (dnfEnable, dnfDisable, aptDisable)
UpdatesAsReported ==
  updates.told # "nothing" =>
    /\ StatusEnabled = (updates.told = "on")
    /\ updates.told = "on" =>
         /\ updates.pkg /\ updates.conf = "on"
         /\ updates.rhel => updates.timer /\ updates.unit = "ours"

\* A config command changes one setting; the others stay, stored or not, and
\* a file that does not parse goes only when all settings go.  (Set, Reset)
OtherSettingsStay ==
  [][ran' # ran /\ last'.op = "config" =>
       IF settings = Torn THEN settings' = Torn
       ELSE settings' = Torn \/ \A k \in SettingKeys \ {last'.user} :
              Effective(settings')[k] = Effective(settings)[k]]_vars

\* A cache server that runs with what its file says goes on doing so, through
\* installs, removals, restarts and reboots, until an install reports an error:
\* that is when the file was written and the server not restarted.  (Install)
InStep == driver.running => driver.live = driver.conf
CacheKeepsUp ==
  [][InStep => InStep' \/ (ran' # ran /\ last'.op = "cacheInstall" /\ ~last'.ok)]_vars

\* A key that ssh-key remove reports as removed is gone.  (cli/sshkey.go:
\* "Remove even unmanaged keys")
RemovedKeyIsGone ==
  [][last'.op = "keyRemove" /\ last'.ok /\ ran' # ran =>
       Len(file'[last'.user]) < Len(file[last'.user])]_vars
=============================================================================
