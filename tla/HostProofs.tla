----------------------------- MODULE HostProofs -----------------------------
(***************************************************************************)
(* Proofs about Host, for any number of users, jobs, programs, sessions    *)
(* and commands, and for every set of faults: all of its safety            *)
(* properties.                                                             *)
(*                                                                         *)
(* Host's commands share no file with each other but accounts, so each     *)
(* part has an inductive invariant of its own (a frame lemma per group of  *)
(* commands says that the others leave it alone):                          *)
(*   AccountsTyped, HeldInRecord   accounts, sudo rules, expiry dates      *)
(*   UpdatesSound                  what is reported about updates          *)
(*   SessionsSound                 sessions, and what a logout picked      *)
(*   KeysTyped, JobsTyped, RunTyped, ConfsTyped, UpkeepTyped, CountTyped   *)
(* HostTyped is all of the types together; what a command leaves behind    *)
(* when it succeeds follows from it.                                       *)
(***************************************************************************)
EXTENDS Host, ListsProofs, TLAPS

Account == [on : BOOLEAN, locked : BOOLEAN, expire : Dates \cup {None, Blocked}, sudo : BOOLEAN]
LockRecords == {None} \cup [pwOnly : BOOLEAN, expiry : Dates \cup {None}]

AccountsTyped ==
  /\ acc \in [Users -> Account] /\ dropIn \subseteq Users
  /\ locks \in [torn : BOOLEAN, of : [Users -> LockRecords]]
  /\ DOMAIN held = Users

\* The date an account had before it was locked in full is in its record, and no
\* later full lock has overwritten it.
HeldInRecord ==
  \A u \in Users : held[u] \notin {"none", "lost"} =>
                     FullRecord(u) /\ Record(u).expiry = held[u]

-----------------------------------------------------------------------------
(* Who touches what.  The actions of Next fall into groups, by the files   *)
(* they have to do with.                                                   *)
AccountCmds == UserAddCmd \/ SetGroupsCmd \/ LockCmd \/ GrantSudoCmd \/ RevokeSudoCmd \/ UnlockCmd
KeyCmds     == KeyAddCmd \/ KeyRemoveCmd
CronCmds    == CronAddCmd \/ CronRemoveCmd \/ CronModifyCmd \/ CronEnableCmd \/ CronDisableCmd
DaemonCmds  == \/ DaemonInstallCmd \/ DaemonAddCmd \/ DaemonModifyCmd \/ DaemonRemoveCmd
               \/ DaemonControlCmd
UpdateCmds  == AutoUpdatesCmd \/ PackageCmd
ConfigCmds  == ConfigSetCmd \/ ConfigAddCmd \/ ConfigRemoveCmd \/ ConfigResetCmd
CacheCmds   == CacheInstallCmd \/ CacheRemoveCmd \/ CacheControlCmd
RunSteps    == TimesOut \/ Returns \/ JobRuns

jobVars == <<cronVars, daemonVars>>

\* What each group of commands leaves alone.
LEMMA AccountFrame == AccountCmds => UNCHANGED <<file, sessionVars, jobVars, run, upkeepVars>>
BY DEF AccountCmds, UserAddCmd, SetGroupsCmd, LockCmd, GrantSudoCmd, RevokeSudoCmd, UnlockCmd,
       OnAccount, Cmd, NoJobs, jobVars

LEMMA UserRemoveFrame == UserRemoveCmd => UNCHANGED <<logins, out, jobVars, upkeepVars>>
BY DEF UserRemoveCmd, Cmd, jobVars

LEMMA LogoutFrame == LogoutCmd => UNCHANGED <<accountVars, file, jobVars, run, upkeepVars>>
BY DEF LogoutCmd, Cmd, NoAccounts, NoJobs, jobVars

LEMMA KeyFrame == KeyCmds => UNCHANGED <<accountVars, sessionVars, jobVars, run, upkeepVars>>
BY DEF KeyCmds, KeyAddCmd, KeyRemoveCmd, OnKeys, Cmd, NoAccounts, NoJobs, jobVars

LEMMA CronFrame == CronCmds => UNCHANGED <<accountVars, file, sessionVars, daemonVars, run, upkeepVars>>
BY DEF CronCmds, CronAddCmd, CronRemoveCmd, CronModifyCmd, CronEnableCmd, CronDisableCmd, OnCron,
       Cmd, NoAccounts

LEMMA CronRunFrame == CronRunCmd => UNCHANGED <<accountVars, file, sessionVars, jobVars, upkeepVars>>
BY DEF CronRunCmd, Cmd, NoAccounts, jobVars

LEMMA DaemonFrame == DaemonCmds => UNCHANGED <<accountVars, file, sessionVars, cronVars, run, upkeepVars>>
BY DEF DaemonCmds, DaemonInstallCmd, DaemonAddCmd, DaemonModifyCmd, DaemonRemoveCmd,
       DaemonControlCmd, OnDaemon, Cmd, NoAccounts

elsewhere == <<accountVars, file, sessionVars, jobVars, run>>
LEMMA UpkeepFrames ==
  /\ UpdateCmds => UNCHANGED <<elsewhere, settings, driver>>
  /\ ConfigCmds => UNCHANGED <<elsewhere, updates, driver>>
  /\ CacheCmds => UNCHANGED <<elsewhere, updates, settings>>
  /\ RebootCmd => UNCHANGED <<elsewhere, updates, settings, driver>>
  /\ Booting => UNCHANGED <<elsewhere, settings>>
<1> USE DEF elsewhere, Else, NoAccounts, NoJobs, jobVars
<1>1. UpdateCmds => UNCHANGED <<elsewhere, settings, driver>>
  BY DEF UpdateCmds, AutoUpdatesCmd, PackageCmd
<1>2. ConfigCmds => UNCHANGED <<elsewhere, updates, driver>>
  BY DEF ConfigCmds, ConfigSetCmd, ConfigAddCmd, ConfigRemoveCmd, ConfigResetCmd, OnSettings
<1>3. CacheCmds => UNCHANGED <<elsewhere, updates, settings>>
  BY DEF CacheCmds, CacheInstallCmd, CacheRemoveCmd, CacheControlCmd, OnCache
<1>4. RebootCmd => UNCHANGED <<elsewhere, updates, settings, driver>>
  BY DEF RebootCmd
<1>5. Booting => UNCHANGED <<elsewhere, settings>>
  BY DEF Booting, Boots
<1> QED BY <1>1, <1>2, <1>3, <1>4, <1>5

LEMMA OtherFrames ==
  /\ EditExpiry => UNCHANGED <<file, sessionVars, jobVars, run, upkeepVars>>
  /\ EditKeys => UNCHANGED <<accountVars, sessionVars, jobVars, run, upkeepVars>>
  /\ Sessions => UNCHANGED <<accountVars, file, jobVars, run, upkeepVars>>
  /\ RunSteps => UNCHANGED <<accountVars, file, sessionVars, jobVars, upkeepVars>>
<1> USE DEF Elsewhere, NoAccounts, NoJobs, jobVars
<1>1. EditExpiry => UNCHANGED <<file, sessionVars, jobVars, run, upkeepVars>>
  BY DEF EditExpiry
<1>2. EditKeys => UNCHANGED <<accountVars, sessionVars, jobVars, run, upkeepVars>>
  BY DEF EditKeys
<1>3. Sessions => UNCHANGED <<accountVars, file, jobVars, run, upkeepVars>>
  BY DEF Sessions
<1>4. RunSteps => UNCHANGED <<accountVars, file, sessionVars, jobVars, upkeepVars>>
  BY DEF RunSteps, TimesOut, Returns, JobRuns, RunStep
<1> QED BY <1>1, <1>2, <1>3, <1>4

\* Every step is one of a group.
LEMMA Groups ==
  ASSUME [Next]_vars
  PROVE  \/ AccountCmds \/ UserRemoveCmd \/ LogoutCmd \/ KeyCmds \/ CronCmds \/ CronRunCmd
         \/ DaemonCmds \/ UpdateCmds \/ ConfigCmds \/ CacheCmds \/ RebootCmd \/ Booting
         \/ EditExpiry \/ EditKeys \/ Sessions \/ RunSteps
         \/ UNCHANGED <<elsewhere, upkeepVars, scope, last, ran>>
BY DEF Next, AccountCmds, KeyCmds, CronCmds, DaemonCmds, UpdateCmds, ConfigCmds, CacheCmds, RunSteps,
       vars, elsewhere, jobVars

\* A step that counts is a command.
LEMMA CountedSteps ==
  ASSUME [Next]_vars, ran' # ran
  PROVE  \/ AccountCmds \/ UserRemoveCmd \/ LogoutCmd \/ KeyCmds \/ CronCmds \/ CronRunCmd
         \/ DaemonCmds \/ UpdateCmds \/ ConfigCmds \/ CacheCmds \/ RebootCmd
<1>1. ~(Booting \/ EditExpiry \/ EditKeys \/ Sessions \/ RunSteps)
  BY DEF Booting, EditExpiry, EditKeys, Sessions, RunSteps, TimesOut, Returns, JobRuns, RunStep, Elsewhere
<1> QED BY <1>1, Groups

\* Each command is noted under its name.  (Of the settings, only a reset of all
\* of them has a name of its own.)
LEMMA AccountNames ==
  /\ UserAddCmd => last'.op = "userAdd"
  /\ SetGroupsCmd => last'.op = "setGroups"
  /\ LockCmd => last'.op = "lock"
  /\ UnlockCmd => last'.op = "unlock"
  /\ GrantSudoCmd => last'.op = "grantSudo"
  /\ RevokeSudoCmd => last'.op = "revokeSudo"
BY DEF UserAddCmd, SetGroupsCmd, LockCmd, GrantSudoCmd, RevokeSudoCmd, UnlockCmd, OnAccount, Cmd, Runs

LEMMA OneCommandNames ==
  /\ UserRemoveCmd => last'.op = "userRemove"
  /\ LogoutCmd => last'.op = "logout"
  /\ KeyCmds => last'.op \in {"keyAdd", "keyRemove"}
  /\ CronRunCmd => last'.op = "cronRun"
  /\ RebootCmd => last'.op = "reboot"
BY DEF UserRemoveCmd, LogoutCmd, KeyCmds, KeyAddCmd, KeyRemoveCmd, OnKeys, CronRunCmd, RebootCmd, Cmd, Runs

LEMMA CronNames == CronCmds =>
  last'.op \in {"cronAdd", "cronRemove", "cronModify", "cronEnable", "cronDisable"}
<1>1. \A op, u, ok : OnCron(op, u, ok) => last'.op = op
  BY DEF OnCron, Cmd, Runs
<1>2. CronAddCmd => last'.op = "cronAdd"
  BY <1>1, Zenon DEF CronAddCmd
<1>3. CronRemoveCmd => last'.op = "cronRemove"
  BY <1>1, Zenon DEF CronRemoveCmd
<1>4. CronModifyCmd => last'.op = "cronModify"
  BY <1>1, Zenon DEF CronModifyCmd
<1>5. CronEnableCmd => last'.op = "cronEnable"
  BY <1>1, Zenon DEF CronEnableCmd
<1>6. CronDisableCmd => last'.op = "cronDisable"
  BY <1>1, Zenon DEF CronDisableCmd
<1> QED BY <1>2, <1>3, <1>4, <1>5, <1>6 DEF CronCmds

LEMMA DaemonNames ==
  /\ DaemonInstallCmd => last'.op = "daemonInstall"
  /\ DaemonAddCmd => last'.op = "daemonAdd"
  /\ DaemonModifyCmd => last'.op = "daemonModify"
  /\ DaemonRemoveCmd => last'.op = "daemonRemove"
  /\ DaemonControlCmd => last'.op = "daemonControl"
BY DEF DaemonInstallCmd, DaemonAddCmd, DaemonModifyCmd, DaemonRemoveCmd, DaemonControlCmd, OnDaemon,
       Cmd, Runs

LEMMA UpkeepNames ==
  /\ UpdateCmds => last'.op \in {"autoUpdates", "package"}
  /\ ConfigCmds => last'.op \in {"config", "configReset"}
  /\ CacheInstallCmd => last'.op = "cacheInstall"
  /\ CacheRemoveCmd => last'.op = "cacheRemove"
  /\ CacheControlCmd => last'.op = "cacheControl"
BY DEF UpdateCmds, AutoUpdatesCmd, PackageCmd, ConfigCmds, ConfigSetCmd, ConfigAddCmd,
       ConfigRemoveCmd, ConfigResetCmd, OnSettings, CacheInstallCmd, CacheRemoveCmd, CacheControlCmd,
       OnCache, Runs

LEMMA CommandOf ==
  ASSUME [Next]_vars, ran' # ran
  PROVE  /\ last'.op = "unlock" => UnlockCmd
         /\ last'.op = "userRemove" => UserRemoveCmd
         /\ last'.op = "daemonAdd" => DaemonAddCmd
         /\ last'.op = "daemonModify" => DaemonModifyCmd
         /\ last'.op = "daemonRemove" => DaemonRemoveCmd
         /\ last'.op = "config" => ConfigCmds
         /\ last'.op = "cacheInstall" => CacheInstallCmd
BY CountedSteps, AccountNames, OneCommandNames, CronNames, DaemonNames, UpkeepNames
   DEF AccountCmds, DaemonCmds, CacheCmds

-----------------------------------------------------------------------------
(* Accounts, drop-ins and locks. *)

\* The step is a user remove that ends like this.
Removes(u, ok) ==
  ran' = ran + 1 /\ last'.op = "userRemove" /\ last'.user = u /\ last'.ok = ok

\* Few actions touch them.
LEMMA AccountSteps ==
  ASSUME [Next]_vars
  PROVE  \/ UNCHANGED accountVars
         \/ \E u \in Users, flag, ok \in BOOLEAN :
              \/ Add(u, flag, ok) \/ SetGroups(u, flag, ok) \/ Lock(u, flag, ok)
              \/ GrantSudo(u, ok) \/ RevokeSudo(u, ok) \/ Unlock(u, ok)
              \/ Delete(u, flag, ok) /\ Removes(u, ok)
         \/ \E u \in Users, d \in Dates : SetExpiry(u, d)
<1>1. CASE UserAddCmd \/ SetGroupsCmd \/ LockCmd
  BY <1>1 DEF UserAddCmd, SetGroupsCmd, LockCmd
<1>2. CASE GrantSudoCmd \/ RevokeSudoCmd \/ UnlockCmd
  BY <1>2 DEF GrantSudoCmd, RevokeSudoCmd, UnlockCmd
<1>3. CASE UserRemoveCmd
  <2>1. PICK u \in Users, ifUnused \in BOOLEAN, kill \in BOOLEAN, deleteHome \in BOOLEAN, ok \in BOOLEAN :
          /\ Cmd("userRemove", u, ifUnused, ok)
          /\ NoAccounts \/ Delete(u, deleteHome, ok)
    BY <1>3 DEF UserRemoveCmd
  <2>2. Removes(u, ok)
    BY <2>1 DEF Cmd, Runs, Removes
  <2> QED BY <2>1, <2>2 DEF NoAccounts
<1>4. CASE EditExpiry
  BY <1>4 DEF EditExpiry
<1> QED BY <1>1, <1>2, <1>3, <1>4, Groups, LogoutFrame, KeyFrame, CronFrame, CronRunFrame, DaemonFrame,
           UpkeepFrames, OtherFrames DEF AccountCmds, elsewhere

\* A command that locks writes a record of the right type.
LEMMA LockRecordType ==
  ASSUME AccountsTyped, NEW u \in Users, NEW seen, NEW pwOnly \in BOOLEAN
  PROVE  LockRecord(u, seen, pwOnly) \in LockRecords \ {None}
<1>1. FullRecord(u) => Record(u).expiry \in Dates \cup {None}
  BY DEF AccountsTyped, FullRecord, Record, LockRecords
<1> QED BY <1>1, AccountsAssumption DEF LockRecord, LockRecords

\* What a command may make of an account.
LEMMA NewAccount ==
  ASSUME AccountsTyped, NEW u \in Users, NEW a \in Account
  PROVE  [acc EXCEPT ![u] = a] \in [Users -> Account]
BY DEF AccountsTyped

LEMMA FreshAccounts == NoAccount \in Account /\ \A b \in BOOLEAN : Fresh(b) \in Account
BY DEF Account, Fresh, NoAccount

LEMMA NewSudo ==
  ASSUME AccountsTyped, NEW u \in Users, NEW b \in BOOLEAN
  PROVE  [acc EXCEPT ![u].sudo = b] \in [Users -> Account]
<1>1. [acc[u] EXCEPT !.sudo = b] \in Account
  BY DEF AccountsTyped, Account
<1> QED BY <1>1, NewAccount

LEMMA NewExpiry ==
  ASSUME AccountsTyped, NEW u \in Users, NEW b \in BOOLEAN, NEW e \in Dates \cup {None, Blocked}
  PROVE  [acc EXCEPT ![u].locked = b, ![u].expire = e] \in [Users -> Account]
<1> DEFINE once == [acc[u] EXCEPT !.locked = b]
           twice == [once EXCEPT !.expire = e]
<1>1. acc \in [Users -> Account] /\ acc[u] \in Account
  BY DEF AccountsTyped
<1>2. twice \in Account
  BY <1>1 DEF Account
<1>3. [acc EXCEPT ![u].locked = b] = [acc EXCEPT ![u] = once]
  OBVIOUS
<1>4. [acc EXCEPT ![u] = once][u] = once
  BY <1>1
<1>5. [acc EXCEPT ![u].locked = b, ![u].expire = e] = [acc EXCEPT ![u] = twice]
  BY <1>1, <1>3, <1>4
<1> HIDE DEF twice
<1> QED BY <1>2, <1>5, NewAccount

\* What a command may make of user-locks.json.
LEMMA LockFileChanges ==
  ASSUME AccountsTyped, NEW u \in Users, NEW r \in LockRecords,
         \/ SaveLocks([locks.of EXCEPT ![u] = r]) \/ TearLocks \/ UNCHANGED locks
  PROVE  locks' \in [torn : BOOLEAN, of : [Users -> LockRecords]]
<1>1. locks \in [torn : BOOLEAN, of : [Users -> LockRecords]]
  BY DEF AccountsTyped
<1>2. [locks.of EXCEPT ![u] = r] \in [Users -> LockRecords]
  BY <1>1
<1>3. CASE SaveLocks([locks.of EXCEPT ![u] = r])
  BY <1>1, <1>2, <1>3 DEF SaveLocks
<1>4. CASE TearLocks
  BY <1>1, <1>4 DEF TearLocks
<1> QED BY <1>1, <1>3, <1>4

LEMMA TypesStay ==
  ASSUME AccountsTyped, [Next]_vars
  PROVE  AccountsTyped'
<1>1. CASE UNCHANGED accountVars
  BY <1>1 DEF accountVars, AccountsTyped
<1>2. ASSUME NEW u \in Users, NEW flag \in BOOLEAN, NEW ok \in BOOLEAN, Add(u, flag, ok)
      PROVE  AccountsTyped'
  <2>1. acc' = acc \/ \E b \in BOOLEAN : acc' = [acc EXCEPT ![u] = Fresh(b)]
    BY <1>2 DEF Add
  <2>2. acc' \in [Users -> Account]
    BY <2>1, NewAccount, FreshAccounts DEF AccountsTyped
  <2>3. dropIn' \subseteq dropIn \cup {u} /\ UNCHANGED <<locks, held>>
    BY <1>2 DEF Add, WriteDropIn
  <2> QED BY <2>2, <2>3 DEF AccountsTyped
<1>3. ASSUME NEW u \in Users, NEW flag \in BOOLEAN, NEW ok \in BOOLEAN, SetGroups(u, flag, ok)
      PROVE  AccountsTyped'
  <2>1. acc' \in [Users -> Account]
    BY <1>3, NewSudo DEF SetGroups, AccountsTyped
  <2> QED BY <2>1, <1>3 DEF SetGroups, AccountsTyped
<1>4. ASSUME NEW u \in Users, NEW flag \in BOOLEAN, NEW ok \in BOOLEAN, Lock(u, flag, ok)
      PROVE  AccountsTyped'
  <2> DEFINE expire == IF flag THEN acc[u].expire ELSE Blocked
  <2>1. PICK seen \in ShadowExpire(u) :
          /\ \/ SaveLocks([locks.of EXCEPT ![u] = LockRecord(u, seen, flag)])
             \/ TearLocks \/ UNCHANGED locks
          /\ \/ UNCHANGED acc
             \/ acc' = [acc EXCEPT ![u].locked = TRUE, ![u].expire = IF flag THEN @ ELSE Blocked]
          /\ UNCHANGED dropIn /\ DOMAIN held' = DOMAIN held
    BY <1>4 DEF Lock
  <2>2. LockRecord(u, seen, flag) \in LockRecords
    BY LockRecordType
  <2>3. locks' \in [torn : BOOLEAN, of : [Users -> LockRecords]]
    BY <2>1, <2>2, LockFileChanges
  <2>4. expire \in Dates \cup {None, Blocked}
    BY DEF AccountsTyped, Account
  <2>5. [acc EXCEPT ![u].locked = TRUE, ![u].expire = IF flag THEN @ ELSE Blocked]
          = [acc EXCEPT ![u].locked = TRUE, ![u].expire = expire]
    BY DEF AccountsTyped, Account
  <2>6. [acc EXCEPT ![u].locked = TRUE, ![u].expire = expire] \in [Users -> Account]
    BY <2>4, NewExpiry
  <2>7. acc' \in [Users -> Account]
    BY <2>1, <2>5, <2>6 DEF AccountsTyped
  <2> QED BY <2>1, <2>3, <2>7 DEF AccountsTyped
<1>5. ASSUME NEW u \in Users, NEW ok \in BOOLEAN, GrantSudo(u, ok) \/ RevokeSudo(u, ok)
      PROVE  AccountsTyped'
  <2>1. acc' = acc \/ \E b \in BOOLEAN : acc' = [acc EXCEPT ![u].sudo = b]
    BY <1>5 DEF GrantSudo, RevokeSudo
  <2>2. acc' \in [Users -> Account]
    BY <2>1, NewSudo DEF AccountsTyped
  <2>3. dropIn' \subseteq dropIn \cup {u} /\ UNCHANGED <<locks, held>>
    BY <1>5 DEF GrantSudo, RevokeSudo, WriteDropIn, RemoveDropIn
  <2> QED BY <2>2, <2>3 DEF AccountsTyped
<1>6. ASSUME NEW u \in Users, NEW ok \in BOOLEAN, Unlock(u, ok)
      PROVE  AccountsTyped'
  <2> DEFINE expire == IF FullRecord(u) THEN Record(u).expiry
                       ELSE IF Record(u) = None THEN None ELSE acc[u].expire
  <2>1. expire \in Dates \cup {None, Blocked}
    BY DEF AccountsTyped, FullRecord, Record, LockRecords, Account
  <2>2. /\ \/ SaveLocks([locks.of EXCEPT ![u] = None]) \/ TearLocks \/ UNCHANGED locks
        /\ acc' = [acc EXCEPT ![u].locked = FALSE, ![u].expire = expire] \/ UNCHANGED acc
        /\ UNCHANGED dropIn /\ DOMAIN held' = DOMAIN held
    BY <1>6 DEF Unlock
  <2>3. locks' \in [torn : BOOLEAN, of : [Users -> LockRecords]]
    BY <2>2, LockFileChanges DEF LockRecords
  <2>4. [acc EXCEPT ![u].locked = FALSE, ![u].expire = expire] \in [Users -> Account]
    BY <2>1, NewExpiry
  <2>5. acc' \in [Users -> Account]
    BY <2>2, <2>4 DEF AccountsTyped
  <2> QED BY <2>2, <2>3, <2>5 DEF AccountsTyped
<1>7. ASSUME NEW u \in Users, NEW flag \in BOOLEAN, NEW ok \in BOOLEAN, Delete(u, flag, ok)
      PROVE  AccountsTyped'
  <2>1. acc' = acc \/ acc' = [acc EXCEPT ![u] = NoAccount]
    BY <1>7 DEF Delete
  <2>2. acc' \in [Users -> Account]
    BY <2>1, NewAccount, FreshAccounts DEF AccountsTyped
  <2>3. dropIn' \subseteq dropIn /\ UNCHANGED locks /\ DOMAIN held' = DOMAIN held
    BY <1>7 DEF Delete, Deleted, RemoveDropIn
  <2> QED BY <2>2, <2>3 DEF AccountsTyped
<1>8. ASSUME NEW u \in Users, NEW d \in Dates, SetExpiry(u, d)
      PROVE  AccountsTyped'
  <2>1. acc' = [acc EXCEPT ![u].expire = d]
    BY <1>8 DEF SetExpiry
  <2>2. [acc[u] EXCEPT !.expire = d] \in Account
    BY DEF AccountsTyped, Account
  <2>3. acc' \in [Users -> Account]
    BY <2>1, <2>2, NewAccount DEF AccountsTyped
  <2> QED BY <2>3, <1>8 DEF SetExpiry, AccountsTyped
<1> QED BY <1>1, <1>2, <1>3, <1>4, <1>5, <1>6, <1>7, <1>8, AccountSteps

LEMMA AccountsStartTyped ==
  ASSUME Init
  PROVE  AccountsTyped
<1>0. AccountsInit
  BY DEF Init
<1>1. acc \in [Users -> Account]
  BY <1>0, FreshAccounts DEF AccountsInit
<1>2. locks \in [torn : BOOLEAN, of : [Users -> LockRecords]]
  BY <1>0 DEF AccountsInit, LockRecords
<1> QED BY <1>0, <1>1, <1>2 DEF AccountsInit, AccountsTyped

LEMMA AlwaysTyped == Spec => []AccountsTyped
BY AccountsStartTyped, TypesStay, PTL DEF Spec

-----------------------------------------------------------------------------
(* How many commands ran. *)
CountTyped == scope \in Scopes /\ ran \in 0..MaxCommands

\* Commands are counted up to their bound.
LEMMA CountStays ==
  ASSUME CountTyped, [Next]_vars
  PROVE  CountTyped'
<1>0. MaxCommands \in Nat
  BY HostAssumption
<1>1. CASE UNCHANGED <<scope, ran>>
  BY <1>1 DEF CountTyped
<1>2. ASSUME NEW op, NEW u, NEW flag, NEW ok, Runs(op, u, flag, ok) PROVE CountTyped'
  BY <1>0, <1>2 DEF Runs, CountTyped
<1>3. CASE AccountCmds
  BY <1>2, <1>3, Zenon DEF AccountCmds, UserAddCmd, SetGroupsCmd, LockCmd, GrantSudoCmd, RevokeSudoCmd,
        UnlockCmd, OnAccount, Cmd
<1>4. CASE UserRemoveCmd \/ LogoutCmd \/ KeyCmds
  BY <1>2, <1>4, Zenon DEF UserRemoveCmd, LogoutCmd, KeyCmds, KeyAddCmd, KeyRemoveCmd, OnKeys, Cmd
<1>5. CASE CronCmds \/ CronRunCmd
  BY <1>2, <1>5, Zenon DEF CronCmds, CronAddCmd, CronRemoveCmd, CronModifyCmd, CronEnableCmd,
        CronDisableCmd, CronRunCmd, OnCron, Cmd
<1>6. CASE DaemonCmds
  BY <1>2, <1>6, Zenon DEF DaemonCmds, DaemonInstallCmd, DaemonAddCmd, DaemonModifyCmd, DaemonRemoveCmd,
        DaemonControlCmd, OnDaemon, Cmd
<1>7. CASE UpdateCmds \/ ConfigCmds
  BY <1>2, <1>7, Zenon DEF UpdateCmds, AutoUpdatesCmd, PackageCmd, ConfigCmds, ConfigSetCmd,
        ConfigAddCmd, ConfigRemoveCmd, ConfigResetCmd, OnSettings
<1>8. CASE CacheCmds \/ RebootCmd
  BY <1>2, <1>8, Zenon DEF CacheCmds, CacheInstallCmd, CacheRemoveCmd, CacheControlCmd, OnCache, RebootCmd
<1>9. CASE Booting \/ EditExpiry \/ EditKeys \/ Sessions \/ RunSteps
  <2>1. UNCHANGED <<scope, ran>>
    BY <1>9 DEF Booting, EditExpiry, EditKeys, Sessions, RunSteps, TimesOut, Returns, JobRuns, RunStep,
                Elsewhere
  <2> QED BY <2>1, <1>1
<1> QED BY <1>1, <1>3, <1>4, <1>5, <1>6, <1>7, <1>8, <1>9, Groups

LEMMA AlwaysCounts == Spec => []CountTyped
<1>1. Init => CountTyped
  BY HostAssumption DEF Init, CountTyped
<1> QED BY <1>1, CountStays, PTL DEF Spec

-----------------------------------------------------------------------------
\* The hypothesis of the first theorem: the file of a drop-in can be removed.
\* Remove does not mind if it cannot.
RulesCanGo == "unlink" \notin StopsAt

\* A passwordless sudo rule is left behind, for the next account of that name, only
\* by a user remove that is killed before it removes the file, if the file can be
\* removed: whatever else fails, for whichever users.
THEOREM NoRuleIsLeftBehind ==
  ASSUME RulesCanGo
  PROVE  Spec => RuleGoesWithAccount
<1> DEFINE Left(u) == u \in dropIn /\ ~acc[u].on
           Goes == \A u \in dropIn' : acc'[u].on \/ (u \in dropIn /\ ~acc[u].on)
                     \/ (ran' # ran /\ last'.op = "userRemove" /\ last'.user = u /\ ~last'.ok)
<1>1. ASSUME AccountsTyped, ran \in Nat, [Next]_vars PROVE Goes
  <2>0. ASSUME \A v \in Users : acc'[v].on = acc[v].on,
               \A v \in dropIn' : v \in dropIn \/ acc[v].on,
               dropIn' \subseteq Users
        PROVE  Goes
    BY <2>0
  <2>1. CASE UNCHANGED accountVars
    BY <1>1, <2>0, <2>1 DEF accountVars, AccountsTyped
  <2>2. ASSUME NEW u \in Users, NEW flag \in BOOLEAN, NEW ok \in BOOLEAN, Add(u, flag, ok)
        PROVE  Goes
    <3>1. \/ acc' = acc /\ dropIn' = dropIn
          \/ /\ dropIn' \subseteq dropIn \cup {u}
             /\ \E b \in BOOLEAN : acc' = [acc EXCEPT ![u] = Fresh(b)]
      BY <2>2 DEF Add, WriteDropIn
    <3>2. \A b \in BOOLEAN : Fresh(b).on
      BY DEF Fresh
    <3> QED BY <3>1, <3>2, <1>1 DEF AccountsTyped
  <2>3. ASSUME NEW u \in Users, NEW ok \in BOOLEAN, GrantSudo(u, ok) \/ RevokeSudo(u, ok)
        PROVE  Goes
    <3>1. /\ dropIn' \subseteq dropIn \cup {u}
          /\ ~acc[u].on => dropIn' \subseteq dropIn
          /\ acc' = acc \/ \E b \in BOOLEAN : acc' = [acc EXCEPT ![u].sudo = b]
      BY <2>3 DEF GrantSudo, RevokeSudo, WriteDropIn, RemoveDropIn
    <3> QED BY <2>0, <3>1, <1>1 DEF AccountsTyped, Account
  <2>4. ASSUME NEW u \in Users, NEW flag \in BOOLEAN, NEW ok \in BOOLEAN, SetGroups(u, flag, ok)
        PROVE  Goes
    BY <2>0, <2>4, <1>1 DEF SetGroups, AccountsTyped, Account
  <2>5. ASSUME NEW u \in Users, NEW flag \in BOOLEAN, NEW ok \in BOOLEAN,
               Lock(u, flag, ok) \/ Unlock(u, ok)
        PROVE  Goes
    <3>1. dropIn' = dropIn
      BY <2>5 DEF Lock, Unlock
    <3>2. acc' = acc \/ \E b, e : acc' = [acc EXCEPT ![u].locked = b, ![u].expire = e]
      <4>1. CASE Lock(u, flag, ok)
        BY <4>1 DEF Lock
      <4>2. CASE Unlock(u, ok)
        BY <4>2 DEF Unlock
      <4> QED BY <2>5, <4>1, <4>2
    <3>3. ASSUME NEW b, NEW e, acc' = [acc EXCEPT ![u].locked = b, ![u].expire = e]
          PROVE  \A v \in Users : acc'[v].on = acc[v].on
      BY <3>3, <1>1 DEF AccountsTyped, Account
    <3>4. \A v \in Users : acc'[v].on = acc[v].on
      BY <3>2, <3>3
    <3> QED BY <2>0, <3>1, <3>4, <1>1 DEF AccountsTyped
  <2>6. ASSUME NEW u \in Users, NEW flag \in BOOLEAN, NEW ok \in BOOLEAN,
               Delete(u, flag, ok) /\ Removes(u, ok)
        PROVE  Goes
    <3>1. \/ acc' = acc /\ dropIn' = dropIn
          \/ acc' = [acc EXCEPT ![u] = NoAccount] /\ dropIn' = dropIn \ {u}
          \/ acc' = [acc EXCEPT ![u] = NoAccount] /\ dropIn' = dropIn /\ ~ok
      BY <2>6 DEF Delete, Deleted, RemoveDropIn, Stops, RulesCanGo
    <3>2. ~ok => ran' # ran /\ last'.op = "userRemove" /\ last'.user = u /\ ~last'.ok
      BY <1>1, <2>6 DEF Removes
    <3> QED BY <3>1, <3>2, <1>1 DEF AccountsTyped
  <2>7. ASSUME NEW u \in Users, NEW d \in Dates, SetExpiry(u, d)
        PROVE  Goes
    BY <2>0, <2>7, <1>1 DEF SetExpiry, AccountsTyped, Account
  <2> QED BY <2>1, <2>2, <2>3, <2>4, <2>5, <2>6, <2>7, <1>1, AccountSteps
<1>2. CountTyped => ran \in Nat
  BY HostAssumption DEF CountTyped
<1> QED BY <1>1, <1>2, AlwaysTyped, AlwaysCounts, PTL DEF Spec, RuleGoesWithAccount

-----------------------------------------------------------------------------
\* The hypothesis of the next theorem: getent answers.  If it does not, Lock
\* cannot tell an account without a date from one whose date it did not see.
DatesAreSeen == "getent" \notin StopsAt

\* Lock carries the date over from record to record.
LEMMA LockKeepsDate ==
  ASSUME DatesAreSeen, AccountsTyped, HeldInRecord,
         NEW u \in Users, NEW pwOnly \in BOOLEAN, NEW ok \in BOOLEAN, Lock(u, pwOnly, ok)
  PROVE  HeldInRecord'
<1> DEFINE seen == acc[u].expire
           saved == [locks.of EXCEPT ![u] = LockRecord(u, seen, pwOnly)]
<1>1. ShadowExpire(u) = {seen}
  BY DEF ShadowExpire, DatesAreSeen, Stops
<1>2. seen \in Dates \cup {None, Blocked} /\ Record(u) \in LockRecords
  BY DEF AccountsTyped, Account, Record
<1>3. /\ locks.of \in [Users -> LockRecords] /\ DOMAIN held = Users
      /\ locks \in [torn : BOOLEAN, of : [Users -> LockRecords]]
  BY DEF AccountsTyped
<1>4. CASE locks'.of = saved /\ held' = [held EXCEPT ![u] = Hold(u, pwOnly)]
  <2>1. saved[u] = LockRecord(u, seen, pwOnly) /\ \A v \in Users \ {u} : saved[v] = locks.of[v]
    BY <1>3
  <2>2. LockRecord(u, seen, pwOnly) # None
    BY LockRecordType
  <2> QED
    BY <1>2, <1>3, <1>4, <2>1, <2>2, AccountsAssumption
    DEF Hold, Stale, LockRecord, HeldInRecord, FullRecord, Record, LockRecords
<1>5. CASE /\ locks'.of = saved \/ locks'.of = locks.of
           /\ held' = [held EXCEPT ![u] = IF seen = Blocked THEN Hold(u, pwOnly) ELSE "none"]
  <2>1. saved[u] = LockRecord(u, seen, pwOnly) /\ \A v \in Users \ {u} : saved[v] = locks.of[v]
    BY <1>3
  <2>2. LockRecord(u, seen, pwOnly) # None
    BY LockRecordType
  <2> QED
    BY <1>2, <1>3, <1>5, <2>1, <2>2, AccountsAssumption
    DEF Hold, Stale, LockRecord, HeldInRecord, FullRecord, Record, LockRecords
<1>6. CASE UNCHANGED <<locks, held>>
  BY <1>6 DEF HeldInRecord, FullRecord, Record
<1>7. SaveLocks(saved) => locks'.of = saved
  BY <1>3 DEF SaveLocks
<1>8. TearLocks => locks'.of = locks.of
  BY <1>3 DEF TearLocks
<1> QED BY <1>1, <1>4, <1>5, <1>6, <1>7, <1>8 DEF Lock

\* Whatever the other commands do to accounts, the dates stay in the records.
LEMMA DatesStay ==
  ASSUME DatesAreSeen, AccountsTyped, HeldInRecord, [Next]_vars
  PROVE  HeldInRecord'
<1> USE DEF HeldInRecord, FullRecord, Record
<1>1. CASE UNCHANGED accountVars
  BY <1>1 DEF accountVars
<1>2. ASSUME NEW u \in Users, NEW flag \in BOOLEAN, NEW ok \in BOOLEAN,
             Add(u, flag, ok) \/ SetGroups(u, flag, ok) \/ GrantSudo(u, ok) \/ RevokeSudo(u, ok)
      PROVE  HeldInRecord'
  BY <1>2 DEF Add, SetGroups, GrantSudo, RevokeSudo
<1>3. ASSUME NEW u \in Users, NEW flag \in BOOLEAN, NEW ok \in BOOLEAN, Lock(u, flag, ok)
      PROVE  HeldInRecord'
  BY <1>3, LockKeepsDate
<1>4. ASSUME NEW u \in Users, NEW ok \in BOOLEAN, Unlock(u, ok)
      PROVE  HeldInRecord'
  <2>1. \/ /\ held' = [held EXCEPT ![u] = "none"]
           /\ locks'.of \in {locks.of, [locks.of EXCEPT ![u] = None]}
        \/ UNCHANGED <<locks, held>>
    BY <1>4 DEF Unlock, SaveLocks, TearLocks, AccountsTyped
  <2> QED BY <2>1 DEF AccountsTyped
<1>5. ASSUME NEW u \in Users, NEW flag \in BOOLEAN, NEW ok \in BOOLEAN, Delete(u, flag, ok)
      PROVE  HeldInRecord'
  <2>1. locks' = locks /\ (held' = held \/ held' = [held EXCEPT ![u] = "none"])
    BY <1>5 DEF Delete
  <2> QED BY <2>1 DEF AccountsTyped
<1>6. ASSUME NEW u \in Users, NEW d \in Dates, SetExpiry(u, d)
      PROVE  HeldInRecord'
  BY <1>6 DEF SetExpiry
<1> QED BY <1>1, <1>2, <1>3, <1>4, <1>5, <1>6, AccountSteps

\* Unlock gives back the date from before the first full lock, however often the
\* account was locked in full since and whatever failed, as long as getent answers.
\* It need not if the account was locked with --password-only in between, or took
\* over the record of an account that was removed: held is "lost" then.
THEOREM UnlockGivesDateBack ==
  ASSUME DatesAreSeen
  PROVE  Spec => UnlockRestores
<1> DEFINE Restores == \A u \in Users :
             last'.op = "unlock" /\ last'.user = u /\ ran' # ran
             /\ held[u] \notin {"none", "lost"} /\ held'[u] = "none"
             => acc'[u].expire = held[u]
<1>1. Init => HeldInRecord
  BY DEF Init, AccountsInit, HeldInRecord
<1>2. ASSUME AccountsTyped, HeldInRecord, [Next]_vars PROVE Restores
  <2> SUFFICES ASSUME NEW u \in Users, last'.op = "unlock", last'.user = u, ran' # ran,
                      held[u] \notin {"none", "lost"}, held'[u] = "none"
               PROVE  acc'[u].expire = held[u]
    OBVIOUS
  <2>1. PICK ok \in BOOLEAN : Unlock(u, ok)
    BY <1>2, CommandOf DEF UnlockCmd, OnAccount, Cmd, Runs
  <2>2. FullRecord(u) /\ Record(u).expiry = held[u]
    BY <1>2 DEF HeldInRecord
  <2>3. acc' = [acc EXCEPT ![u].locked = FALSE, ![u].expire = Record(u).expiry]
    BY <2>1, <2>2 DEF Unlock
  <2> QED BY <1>2, <2>2, <2>3 DEF AccountsTyped, Account
<1> QED BY <1>1, <1>2, AlwaysTyped, DatesStay, PTL DEF Spec, UnlockRestores

-----------------------------------------------------------------------------
\* What reports about updates rest on: the configuration on disk, what systemd
\* has read, and the timer.
UpdatesSound ==
  /\ updates \in [rhel : BOOLEAN, pkg : BOOLEAN, conf : {NoFile, Torn, "on", "off"},
                  drop : {NoFile, Torn, "on"}, unit : {"stock", "ours"}, timer : BOOLEAN,
                  told : {"nothing", "on", "off"}]
  /\ updates.drop = "on" => updates.unit = "ours"
  /\ updates.told = "on" =>
       /\ updates.pkg /\ updates.conf = "on"
       /\ updates.rhel => updates.timer /\ updates.drop = "on"
  /\ updates.told = "off" =>
       IF updates.rhel THEN ~updates.timer ELSE updates.conf = "off" \/ ~updates.pkg

\* Two commands touch the updates, and so does a boot.
LEMMA UpdateSteps ==
  ASSUME [Next]_vars
  PROVE  \/ UNCHANGED updates \/ Boots
         \/ \E enable, ok \in BOOLEAN : AutoUpdates(enable, ok) \/ PackageChange(enable, ok)
<1>1. CASE UpdateCmds
  BY <1>1 DEF UpdateCmds, AutoUpdatesCmd, PackageCmd
<1>2. CASE Booting
  BY <1>2 DEF Booting
<1> QED BY <1>1, <1>2, Groups, AccountFrame, UserRemoveFrame, LogoutFrame, KeyFrame, CronFrame,
           CronRunFrame, DaemonFrame, UpkeepFrames, OtherFrames DEF upkeepVars

\* The hypothesis of the last theorem: systemctl daemon-reload does not fail.
\* Where it does, the next enable finds its files unchanged and does not ask
\* for it again.
UnitsAreRead == "reload" \notin StopsAt

LEMMA UpdatesStaySound ==
  ASSUME UnitsAreRead, UpdatesSound, [Next]_vars
  PROVE  UpdatesSound'
<1> USE DEF UpdatesSound, LoadUnit
<1>1. CASE UNCHANGED updates \/ Boots
  BY <1>1 DEF Boots
<1>2. ASSUME NEW ok \in BOOLEAN, updates.rhel, DnfEnable(ok)
      PROVE  UpdatesSound'
  <2> DEFINE unit == IF updates.pkg THEN updates.unit ELSE LoadUnit(updates.drop)
             written == [WithPackage EXCEPT !.conf = "on", !.drop = "on"]
             loaded == [written EXCEPT !.unit = "ours"]
  <2>1. WithPackage = [updates EXCEPT !.pkg = TRUE, !.unit = unit]
    BY DEF WithPackage
  <2>2. written = [updates EXCEPT !.pkg = TRUE, !.unit = unit, !.conf = "on", !.drop = "on"]
    BY <2>1
  <2>3. Reloaded(updates, written) = loaded
    BY <2>2 DEF Reloaded, Rewritten
  <2>4. \/ updates' = [loaded EXCEPT !.timer = TRUE, !.told = "on"]
        \/ updates' = updates
        \/ updates.conf # "on" /\ updates' = [WithPackage EXCEPT !.conf = Torn]
        \/ updates.drop # "on" /\ updates' = [WithPackage EXCEPT !.conf = "on", !.drop = Torn]
        \/ updates' = loaded
    <3> HIDE DEF LoadUnit
    <3>1. CASE ok
      BY <1>2, <2>3, <3>1 DEF DnfEnable
    <3>2. CASE ~ok
      BY <1>2, <2>3, <3>2 DEF DnfEnable, Tearing, UnitsAreRead, Stops
    <3> QED BY <3>1, <3>2
  <2>5. CASE updates' = [loaded EXCEPT !.timer = TRUE, !.told = "on"]
    BY <2>2, <2>5
  <2>6. CASE updates' = loaded
    BY <1>2, <2>2, <2>6
  <2>7. CASE updates.conf # "on" /\ updates' = [WithPackage EXCEPT !.conf = Torn]
    BY <2>1, <2>7, <1>2
  <2>8. CASE updates.drop # "on" /\ updates' = [WithPackage EXCEPT !.conf = "on", !.drop = Torn]
    BY <2>1, <2>8, <1>2, UpkeepAssumption
  <2> QED BY <1>1, <2>4, <2>5, <2>6, <2>7, <2>8
<1>3. ASSUME NEW ok \in BOOLEAN, updates.rhel, DnfDisable(ok)
      PROVE  UpdatesSound'
  <2> DEFINE stopped == [updates EXCEPT !.timer = FALSE]
             removed == [stopped EXCEPT !.conf = NoFile, !.drop = NoFile]
  <2>1. removed = [updates EXCEPT !.timer = FALSE, !.conf = NoFile, !.drop = NoFile]
    OBVIOUS
  <2>2. \/ updates' = [removed EXCEPT !.told = "off"]
        \/ updates' = [[removed EXCEPT !.unit = "stock"] EXCEPT !.told = "off"]
        \/ updates' = [updates EXCEPT !.told = "nothing"]
        \/ updates' = [stopped EXCEPT !.drop = NoFile, !.told = "nothing"]
    <3>1. Reloaded(updates, removed) \in {removed, [removed EXCEPT !.unit = "stock"]}
      BY UpkeepAssumption DEF Reloaded
    <3> QED BY <1>3, <3>1 DEF DnfDisable, UnitsAreRead, Stops
  <2>3. CASE updates' = [removed EXCEPT !.told = "off"]
    BY <1>3, <2>1, <2>3, UpkeepAssumption
  <2>4. CASE updates' = [[removed EXCEPT !.unit = "stock"] EXCEPT !.told = "off"]
    BY <1>3, <2>1, <2>4, UpkeepAssumption
  <2>5. CASE updates' = [updates EXCEPT !.told = "nothing"]
    BY <2>5
  <2>6. CASE updates' = [stopped EXCEPT !.drop = NoFile, !.told = "nothing"]
    BY <2>6, UpkeepAssumption
  <2> QED BY <2>2, <2>3, <2>4, <2>5, <2>6
<1> DEFINE unit == IF updates.pkg THEN updates.unit ELSE LoadUnit(updates.drop)
<1>4. WithPackage = [updates EXCEPT !.pkg = TRUE, !.unit = unit]
  BY DEF WithPackage
<1>5. ASSUME NEW ok \in BOOLEAN, ~updates.rhel, AptEnable(ok)
      PROVE  UpdatesSound'
  <2>1. CASE updates' = [WithPackage EXCEPT !.conf = "on", !.told = "on"]
    BY <1>4, <1>5, <2>1
  <2>2. CASE updates' = [WithPackage EXCEPT !.conf = Torn, !.told = "nothing"]
    BY <1>4, <1>5, <2>2
  <2> QED BY <1>1, <1>5, <2>1, <2>2 DEF AptEnable
<1>6. ASSUME NEW ok \in BOOLEAN, ~updates.rhel, AptDisable(ok)
      PROVE  UpdatesSound'
  <2>1. CASE updates' = [updates EXCEPT !.conf = "off", !.told = "off"]
    BY <1>6, <2>1
  <2>2. CASE ~updates.pkg /\ updates' = [updates EXCEPT !.conf = NoFile, !.told = "off"]
    BY <1>6, <2>2
  <2>3. CASE updates' = [updates EXCEPT !.conf = Torn, !.told = "nothing"]
    BY <1>6, <2>3
  <2> QED BY <1>6, <2>1, <2>2, <2>3 DEF AptDisable
<1>7. ASSUME NEW enable \in BOOLEAN, NEW ok \in BOOLEAN, PackageChange(enable, ok)
      PROVE  UpdatesSound'
  <2>1. CASE updates' = [WithPackage EXCEPT !.told = "nothing"]
    BY <1>4, <2>1
  <2>2. CASE updates' = [[updates EXCEPT !.pkg = FALSE, !.timer = FALSE] EXCEPT !.told = "nothing"]
    BY <2>2
  <2> QED BY <1>1, <1>7, <2>1, <2>2 DEF PackageChange
<1> QED BY <1>1, <1>2, <1>3, <1>5, <1>6, <1>7, UpdateSteps DEF AutoUpdates

\* What was reported about automatic updates holds, and the status agrees: on
\* either family of distributions, whatever failed except a daemon-reload.
THEOREM ReportsAboutUpdatesHold ==
  ASSUME UnitsAreRead
  PROVE  Spec => []UpdatesAsReported
<1>1. Init => UpdatesSound
  BY UpkeepAssumption DEF Init, UpkeepInit, UpdatesSound
<1>2. UpdatesSound => UpdatesAsReported
  BY UpkeepAssumption DEF UpdatesSound, UpdatesAsReported, StatusEnabled, Managed
<1> QED BY <1>1, <1>2, UpdatesStaySound, PTL DEF Spec

-----------------------------------------------------------------------------
(* Types: authorized_keys. *)
KeyEntry == [id : KeyIds \cup {Unmanaged}, key : Keys]
KeysTyped ==
  /\ file \in [Users -> Seq(KeyEntry)]
  /\ \A u \in Users : Len(file[u]) <= MaxKeys

\* A file may be replaced by any other that is not too long.
LEMMA NewKeyFile ==
  ASSUME KeysTyped, NEW u \in Users, NEW s \in Seq(KeyEntry), Len(s) <= MaxKeys,
         file' = [file EXCEPT ![u] = s]
  PROVE  KeysTyped'
BY DEF KeysTyped

\* An entry is appended where there is room.
LEMMA AppendKey ==
  ASSUME KeysTyped, NEW u \in Users, NEW e \in KeyEntry, Len(file[u]) < MaxKeys,
         file' = [file EXCEPT ![u] = Append(@, e)]
  PROVE  KeysTyped'
<1>1. file[u] \in Seq(KeyEntry) /\ MaxKeys \in Nat
  BY AccountsAssumption DEF KeysTyped
<1>2. Append(file[u], e) \in Seq(KeyEntry) /\ Len(Append(file[u], e)) <= MaxKeys
  BY <1>1
<1>3. file' = [file EXCEPT ![u] = Append(file[u], e)]
  OBVIOUS
<1> QED BY <1>2, <1>3, NewKeyFile

\* Entries are added and dropped one command at a time, so a file stays within
\* its bound.  (Add, Remove, a user that goes)
LEMMA KeysStay ==
  ASSUME KeysTyped, [Next]_vars
  PROVE  KeysTyped'
<1>1. CASE UNCHANGED file
  BY <1>1 DEF KeysTyped
<1>2. CASE KeyAddCmd
  <2>1. PICK u \in Users, id \in KeyIds, k \in Keys, force \in BOOLEAN, ok \in BOOLEAN :
          KeyAdd(u, id, k, force, ok)
    BY <1>2 DEF KeyAddCmd
  <2>2. Entry(id, k) \in KeyEntry
    BY DEF Entry, KeyEntry
  <2>3. /\ Len(file[u]) < MaxKeys
        /\ UNCHANGED file \/ file' = [file EXCEPT ![u] = Append(@, Entry(id, k))]
    BY <2>1 DEF KeyAdd
  <2> QED BY <1>1, <2>2, <2>3, AppendKey
<1>3. CASE KeyRemoveCmd
  <2>1. PICK u \in Users, id \in KeyIds \cup {Unmanaged}, fp \in Keys \cup {None},
             force \in BOOLEAN, ok \in BOOLEAN : KeyRemove(u, id, fp, force, ok)
    BY <1>3 DEF KeyRemoveCmd
  <2> DEFINE kept == RewriteWithout(file[u], id)
  <2>2. UNCHANGED file \/ file' = [file EXCEPT ![u] = kept]
    BY <2>1 DEF KeyRemove
  <2>3. file[u] \in Seq(KeyEntry) /\ Len(file[u]) <= MaxKeys /\ Len(file[u]) \in Nat /\ MaxKeys \in Nat
    BY AccountsAssumption DEF KeysTyped
  <2>4. kept \in Seq(KeyEntry) /\ Len(kept) <= Len(file[u])
    BY <2>3, KeptShape DEF RewriteWithout
  <2>5. Len(kept) \in Nat
    BY <2>4
  <2> HIDE DEF kept
  <2>6. Len(kept) <= MaxKeys
    BY <2>3, <2>4, <2>5
  <2> QED BY <1>1, <2>2, <2>4, <2>6, NewKeyFile
<1>4. CASE UserRemoveCmd
  <2>1. PICK u \in Users, deleteHome \in BOOLEAN :
          UNCHANGED file \/ file' = [file EXCEPT ![u] = IF deleteHome THEN <<>> ELSE @]
    BY <1>4 DEF UserRemoveCmd, Delete
  <2>2. UNCHANGED file \/ file' = [file EXCEPT ![u] = <<>>]
    BY <2>1 DEF KeysTyped
  <2>3. <<>> \in Seq(KeyEntry) /\ Len(<<>>) <= MaxKeys
    BY AccountsAssumption
  <2> QED BY <1>1, <2>2, <2>3, NewKeyFile
<1>5. CASE EditKeys
  <2>1. PICK u \in Users, k \in Keys :
          /\ Len(file[u]) < MaxKeys
          /\ file' = [file EXCEPT ![u] = Append(@, Entry(Unmanaged, k))]
    BY <1>5 DEF EditKeys
  <2>2. Entry(Unmanaged, k) \in KeyEntry
    BY DEF Entry, KeyEntry
  <2> QED BY <2>1, <2>2, AppendKey
<1> QED BY <1>1, <1>2, <1>3, <1>4, <1>5, Groups, AccountFrame, LogoutFrame, CronFrame, CronRunFrame,
           DaemonFrame, UpkeepFrames, OtherFrames DEF KeyCmds, elsewhere

-----------------------------------------------------------------------------
(* Types: cron jobs and the job that runs. *)
JobFile ==
  {f \in [user : Users, def : Defs \cup {NoDef}, enabled : BOOLEAN,
          line : [user : Users, def : Defs \cup {NoDef}]] :
     f.line = [user |-> f.user, def |-> f.def]}
JobsTyped == jobs \in [Ids -> {NoFile, Torn} \cup JobFile]
RunTyped ==
  run \in [pc : {"idle", "running", "killed"}, user : Users \cup {None}, timed : BOOLEAN,
           procs : SUBSET {"leader", "child", "daemon"}]

\* A job that is written has the line its definition makes.
LEMMA NewJob ==
  ASSUME NEW u \in Users, NEW d \in Defs \cup {NoDef}, NEW e \in BOOLEAN
  PROVE  Job(u, d, e) \in JobFile
BY DEF Job, JobFile

LEMMA PutJob ==
  ASSUME JobsTyped, NEW i \in Ids, NEW f \in {NoFile, Torn} \cup JobFile, Put(i, f)
  PROVE  JobsTyped'
BY DEF JobsTyped, Put

\* Whatever a cron command writes, and wherever it stops, a file that parses
\* holds a job.
LEMMA JobsStay ==
  ASSUME JobsTyped, [Next]_vars
  PROVE  JobsTyped'
<1>1. CASE UNCHANGED jobs
  BY <1>1 DEF JobsTyped
<1>2. CASE CronAddCmd
  <2>1. PICK i \in Ids, u \in Users, d \in Defs, enabled \in BOOLEAN, ok \in BOOLEAN :
          CronAdd(i, u, d, enabled, ok)
    BY <1>2 DEF CronAddCmd
  <2>2. Put(i, Job(u, d, enabled)) \/ Put(i, Torn) \/ UNCHANGED jobs
    BY <2>1 DEF CronAdd, Tears
  <2>3. Job(u, d, enabled) \in JobFile
    BY NewJob
  <2> QED BY <1>1, <2>2, <2>3, PutJob
<1>3. CASE CronRemoveCmd
  BY <1>3, PutJob DEF CronRemoveCmd, CronRemove
<1>4. CASE CronModifyCmd
  <2>1. PICK i \in Ids, u \in Users \cup {None}, d \in Defs \cup {NoDef}, ok \in BOOLEAN :
          CronModify(i, u, d, ok)
    BY <1>4 DEF CronModifyCmd
  <2> DEFINE old == ReadJob(i)
             user == IF u # None THEN u ELSE old.user
             def == IF d # NoDef THEN d ELSE old.def
             new == Job(user, def, old.enabled)
  <2>2. UNCHANGED jobs \/ Put(i, Torn) \/ (jobs[i] # NoFile /\ new.user # None /\ Put(i, new))
    BY <2>1 DEF CronModify, Tears
  <2>3. new.user = user
    BY DEF Job
  <2>4. CASE jobs[i] # NoFile /\ user # None
    <3>1. /\ old.user \in Users \cup {None} /\ old.def \in Defs \cup {NoDef} /\ old.enabled \in BOOLEAN
      <4>1. CASE jobs[i] = Torn
        BY <4>1 DEF ReadJob, Job
      <4>2. CASE jobs[i] # Torn
        BY <4>2, <2>4 DEF ReadJob, JobsTyped, JobFile
      <4> QED BY <4>1, <4>2
    <3>2. user \in Users /\ def \in Defs \cup {NoDef}
      BY <3>1, <2>4
    <3> HIDE DEF user, def, old
    <3>3. new \in JobFile
      BY <3>1, <3>2, NewJob
    <3> QED BY <3>3, <1>1, <2>2, PutJob
  <2> QED BY <1>1, <2>2, <2>3, <2>4, PutJob
<1>5. ASSUME NEW i \in Ids, NEW enabled \in BOOLEAN, NEW ok \in BOOLEAN, CronSetEnabled(i, enabled, ok)
      PROVE  JobsTyped'
  <2> DEFINE new == [jobs[i] EXCEPT !.enabled = enabled]
  <2>1. \/ UNCHANGED jobs \/ Put(i, Torn)
        \/ jobs[i] \notin {NoFile, Torn} /\ Put(i, new)
    BY <1>5 DEF CronSetEnabled, Tears
  <2>2. jobs[i] \notin {NoFile, Torn} => new \in JobFile
    BY DEF JobsTyped, JobFile
  <2> QED BY <1>1, <2>1, <2>2, PutJob
<1>6. CASE CronCmds
  <2>1. CronEnableCmd \/ CronDisableCmd =>
          \E i \in Ids, enabled, ok \in BOOLEAN : CronSetEnabled(i, enabled, ok)
    BY DEF CronEnableCmd, CronDisableCmd
  <2> QED BY <1>2, <1>3, <1>4, <1>5, <1>6, <2>1 DEF CronCmds
<1> QED BY <1>1, <1>6, Groups, AccountFrame, UserRemoveFrame, LogoutFrame, KeyFrame, CronRunFrame,
           DaemonFrame, UpkeepFrames, OtherFrames DEF elsewhere, jobVars, cronVars

LEMMA RunStays ==
  ASSUME JobsTyped, RunTyped, [Next]_vars
  PROVE  RunTyped'
<1> USE DEF RunTyped
<1>1. CASE UNCHANGED run
  BY <1>1
<1>2. CASE UserRemoveCmd
  BY <1>2 DEF UserRemoveCmd
<1>3. CASE CronRunCmd
  <2>1. PICK i \in Ids, timed \in BOOLEAN, ok \in BOOLEAN : CronRun(i, timed, ok)
    BY <1>3 DEF CronRunCmd
  <2>2. jobs[i] # NoFile => ReadJob(i).user \in Users \cup {None}
    BY DEF ReadJob, Job, JobsTyped, JobFile
  <2>3. RunArgv(ReadJob(i).user) \in SUBSET {"leader", "child", "daemon"}
    BY DEF RunArgv
  <2> QED BY <2>1, <2>2, <2>3 DEF CronRun
<1>4. CASE RunSteps
  <2>1. RunTimesOut \/ RunReturns \/ JobForks \/ ProcessEnds
    BY <1>4 DEF RunSteps, TimesOut, Returns, JobRuns, RunStep
  <2>2. CASE RunTimesOut
    BY <2>2 DEF RunTimesOut, KillGroup
  <2>3. CASE RunReturns
    BY <2>3 DEF RunReturns, NoRun
  <2>4. CASE JobForks
    BY <2>4 DEF JobForks
  <2>5. CASE ProcessEnds
    BY <2>5 DEF ProcessEnds
  <2> QED BY <2>1, <2>2, <2>3, <2>4, <2>5
<1> QED BY <1>1, <1>2, <1>3, <1>4, Groups, AccountFrame, LogoutFrame, KeyFrame, CronFrame,
           DaemonFrame, UpkeepFrames, OtherFrames DEF elsewhere

-----------------------------------------------------------------------------
(* Types: supervisor programs. *)
ProgramOf == [user : Users \cup {None}, def : Defs]
ConfsTyped == confs \in [Names -> {NoFile, Torn} \cup ProgramOf]

LEMMA PutConf ==
  ASSUME ConfsTyped, NEW n \in Names, NEW f \in {NoFile, Torn} \cup ProgramOf, WriteConf(n, f)
  PROVE  ConfsTyped'
BY DEF ConfsTyped, WriteConf

LEMMA ConfsStay ==
  ASSUME ConfsTyped, [Next]_vars
  PROVE  ConfsTyped'
<1>1. CASE UNCHANGED confs
  BY <1>1 DEF ConfsTyped
<1>2. CASE DaemonAddCmd
  <2>1. PICK n \in Names, u \in Users \cup {None}, d \in Defs, install \in BOOLEAN, ok \in BOOLEAN :
          DaemonAdd(n, Program(u, d), install, ok)
    BY <1>2 DEF DaemonAddCmd
  <2>2. WriteConf(n, Program(u, d)) \/ WriteConf(n, Torn) \/ UNCHANGED confs
    BY <2>1 DEF DaemonAdd
  <2>3. Program(u, d) \in ProgramOf
    BY DEF Program, ProgramOf
  <2> QED BY <1>1, <2>2, <2>3, PutConf
<1>3. CASE DaemonModifyCmd
  <2>1. PICK n \in Names, setUser \in BOOLEAN, ok \in BOOLEAN, d \in Defs,
             u \in Users \cup {None} : DaemonModify(n, setUser, u, d, ok)
    BY <1>3 DEF DaemonModifyCmd
  <2>2. \/ Conf(confs[n]) # NoFile /\ WriteConf(n, Merged(n, setUser, u, d))
        \/ WriteConf(n, Torn) \/ UNCHANGED confs
    BY <2>1 DEF DaemonModify
  <2>3. Conf(confs[n]) # NoFile => Merged(n, setUser, u, d) \in ProgramOf
    BY DEF Merged, Program, ProgramOf, Conf, ConfsTyped
  <2> QED BY <1>1, <2>2, <2>3, PutConf
<1>4. CASE DaemonRemoveCmd
  <2>1. PICK n \in Names : WriteConf(n, NoFile) \/ UNCHANGED confs
    BY <1>4 DEF DaemonRemoveCmd, DaemonRemove
  <2> QED BY <1>1, <2>1, PutConf
<1>5. CASE DaemonInstallCmd \/ DaemonControlCmd
  <2>1. UNCHANGED confs
    BY <1>5 DEF DaemonInstallCmd, DaemonControlCmd, DaemonInstall, DaemonControl
  <2> QED BY <2>1, <1>1
<1> QED BY <1>1, <1>2, <1>3, <1>4, <1>5, Groups, AccountFrame, UserRemoveFrame, LogoutFrame, KeyFrame,
           CronFrame, CronRunFrame, UpkeepFrames, OtherFrames
        DEF DaemonCmds, elsewhere, jobVars, daemonVars

-----------------------------------------------------------------------------
(* Types: updates, settings, cache servers. *)
UpdatesOf == [rhel : BOOLEAN, pkg : BOOLEAN, conf : {NoFile, Torn, "on", "off"},
              drop : {NoFile, Torn, "on"}, unit : {"stock", "ours"}, timer : BOOLEAN,
              told : {"nothing", "on", "off"}]
SettingsOf == [SettingKeys -> SUBSET Values]
DriverOf == [pkg : BOOLEAN, enabled : BOOLEAN, running : BOOLEAN,
             conf : Values \cup {None, Torn}, live : Values \cup {None, Torn}]
UpkeepTyped ==
  /\ updates \in UpdatesOf
  /\ settings \in {NoFile, Torn} \cup SettingsOf
  /\ driver \in DriverOf

\* What a command may write into one field.
LEMMA UpdateFields ==
  ASSUME NEW r \in UpdatesOf
  PROVE  /\ \A b \in BOOLEAN : [r EXCEPT !.pkg = b] \in UpdatesOf /\ [r EXCEPT !.timer = b] \in UpdatesOf
         /\ \A c \in {NoFile, Torn, "on", "off"} : [r EXCEPT !.conf = c] \in UpdatesOf
         /\ \A c \in {NoFile, Torn, "on"} : [r EXCEPT !.drop = c] \in UpdatesOf
         /\ \A c \in {"stock", "ours"} : [r EXCEPT !.unit = c] \in UpdatesOf
         /\ \A c \in {"nothing", "on", "off"} : [r EXCEPT !.told = c] \in UpdatesOf
BY DEF UpdatesOf

LEMMA UpdateTypes ==
  ASSUME updates \in UpdatesOf, [Next]_vars
  PROVE  updates' \in UpdatesOf
<1> USE DEF LoadUnit
<1>1. WithPackage \in UpdatesOf
  BY DEF WithPackage, UpdatesOf
<1>2. \A r \in UpdatesOf : Reloaded(updates, r) \in UpdatesOf
  BY UpdateFields DEF Reloaded
<1>3. ASSUME NEW ok \in BOOLEAN, DnfEnable(ok)
      PROVE  updates' \in UpdatesOf
  <2> DEFINE written == [WithPackage EXCEPT !.conf = "on", !.drop = "on"]
             loaded  == Reloaded(updates, written)
  <2>1. written \in UpdatesOf
    BY <1>1 DEF UpdatesOf
  <2>2. loaded \in UpdatesOf
    BY <1>2, <2>1
  <2>3. \/ updates' = [loaded EXCEPT !.timer = TRUE, !.told = "on"]
        \/ updates' \in {updates, written, loaded}
        \/ updates' = [WithPackage EXCEPT !.conf = Torn]
        \/ updates' = [WithPackage EXCEPT !.conf = "on", !.drop = Torn]
    BY <1>3 DEF DnfEnable
  <2> DEFINE timed == [loaded EXCEPT !.timer = TRUE]
             set   == [WithPackage EXCEPT !.conf = "on"]
  <2>4. timed \in UpdatesOf /\ set \in UpdatesOf
    BY <1>1, <2>2, UpdateFields
  <2>5. [timed EXCEPT !.told = "on"] \in UpdatesOf /\ [set EXCEPT !.drop = Torn] \in UpdatesOf
        /\ [WithPackage EXCEPT !.conf = Torn] \in UpdatesOf
    BY <1>1, <2>4, UpdateFields
  <2> HIDE DEF written, loaded
  <2> QED BY <2>1, <2>2, <2>3, <2>5
<1>4. ASSUME NEW ok \in BOOLEAN, DnfDisable(ok)
      PROVE  updates' \in UpdatesOf
  <2> DEFINE stopped == [updates EXCEPT !.timer = FALSE]
             removed == [stopped EXCEPT !.conf = NoFile, !.drop = NoFile]
             loaded  == IF updates.pkg THEN Reloaded(updates, removed) ELSE removed
  <2>1. stopped \in UpdatesOf
    BY DEF UpdatesOf
  <2>2. removed \in UpdatesOf
    BY <2>1 DEF UpdatesOf
  <2>3. loaded \in UpdatesOf
    BY <1>2, <2>2
  <2>4. \/ updates' = [loaded EXCEPT !.told = "off"]
        \/ updates' = [updates EXCEPT !.told = "nothing"]
        \/ updates' = [stopped EXCEPT !.drop = NoFile, !.told = "nothing"]
        \/ updates' = [removed EXCEPT !.told = "nothing"]
    BY <1>4 DEF DnfDisable
  <2> HIDE DEF stopped, removed, loaded
  <2> QED BY <2>1, <2>2, <2>3, <2>4 DEF UpdatesOf
<1>5. ASSUME NEW ok \in BOOLEAN, AptEnable(ok)
      PROVE  updates' \in UpdatesOf
  BY <1>1, <1>5 DEF AptEnable, UpdatesOf
<1>6. ASSUME NEW ok \in BOOLEAN, AptDisable(ok)
      PROVE  updates' \in UpdatesOf
  BY <1>6 DEF AptDisable, UpdatesOf
<1>7. ASSUME NEW enable \in BOOLEAN, NEW ok \in BOOLEAN, PackageChange(enable, ok)
      PROVE  updates' \in UpdatesOf
  BY <1>1, <1>7 DEF PackageChange, UpdatesOf
<1>8. CASE UpdateCmds
  BY <1>3, <1>4, <1>5, <1>6, <1>7, <1>8 DEF UpdateCmds, AutoUpdatesCmd, PackageCmd, AutoUpdates
<1>9. CASE Booting
  BY <1>9, UpdateFields DEF Booting, Boots
<1> QED BY <1>8, <1>9, Groups, AccountFrame, UserRemoveFrame, LogoutFrame, KeyFrame, CronFrame,
           CronRunFrame, DaemonFrame, UpkeepFrames, OtherFrames DEF upkeepVars

\* What add and remove start from.
LEMMA EffectiveType ==
  ASSUME settings \in {NoFile, Torn} \cup SettingsOf, settings # Torn
  PROVE  \A k \in SettingKeys : Effective(settings)[k] \in SUBSET Values
BY UpkeepAssumption DEF Effective, NoSettings, SettingsOf, SettingKeys

\* Each config command leaves the settings, tears them, or stores a value.
LEMMA SettingTypes ==
  ASSUME settings \in {NoFile, Torn} \cup SettingsOf, [Next]_vars
  PROVE  settings' \in {NoFile, Torn} \cup SettingsOf
<1>1. settings # Torn => Load \in SettingsOf
  BY DEF Load, NoSettings, SettingsOf
<1>2. settings # Torn => \A k \in SettingKeys : Effective(settings)[k] \in SUBSET Values
  BY EffectiveType
<1>3. ASSUME NEW k \in SettingKeys, NEW vs \in SUBSET Values, NEW ok \in BOOLEAN, ConfigSet(k, vs, ok)
      PROVE  settings' \in {NoFile, Torn} \cup SettingsOf
  BY <1>1, <1>3 DEF ConfigSet, Refuse, Save, SettingsOf
<1>4. CASE ConfigSetCmd
  BY <1>3, <1>4 DEF ConfigSetCmd, SettingKeys
<1>5. CASE ConfigAddCmd
  <2>1. PICK k \in {"php", "roots"}, v \in Values, ok \in BOOLEAN : ConfigAdd(k, v, ok)
    BY <1>5 DEF ConfigAddCmd
  <2>2. k \in SettingKeys
    BY DEF SettingKeys
  <2> DEFINE vs == Effective(settings)[k] \cup {v}
  <2>3. UNCHANGED settings \/ (settings # Torn /\ ConfigSet(k, vs, ok))
    BY <2>1 DEF ConfigAdd, Refuse
  <2>4. settings # Torn => vs \in SUBSET Values
    BY <1>2, <2>2
  <2> QED BY <2>2, <2>3, <2>4, <1>3
<1>6. CASE ConfigRemoveCmd
  <2>1. PICK k \in {"php", "roots"}, v \in Values, ok \in BOOLEAN : ConfigRemove(k, v, ok)
    BY <1>6 DEF ConfigRemoveCmd
  <2>2. k \in SettingKeys
    BY DEF SettingKeys
  <2> DEFINE vs == Effective(settings)[k] \ {v}
  <2>3. UNCHANGED settings \/ (settings # Torn /\ ConfigSet(k, vs, ok))
    BY <2>1 DEF ConfigRemove, Refuse
  <2>4. settings # Torn => vs \in SUBSET Values
    BY <1>2, <2>2
  <2> QED BY <2>2, <2>3, <2>4, <1>3
<1>7. CASE ConfigResetCmd
  <2>1. PICK k \in {"php", "roots", "all"}, ok \in BOOLEAN : ConfigReset(k, ok)
    BY <1>7 DEF ConfigResetCmd
  <2>2. \/ settings' \in {NoFile, Torn, settings}
        \/ settings # Torn /\ settings' = [Load EXCEPT ![k] = {}]
    BY <2>1 DEF ConfigReset, Refuse, Save
  <2> QED BY <1>1, <2>2 DEF SettingsOf
<1> QED BY <1>4, <1>5, <1>6, <1>7, Groups, AccountFrame, UserRemoveFrame, LogoutFrame, KeyFrame,
           CronFrame, CronRunFrame, DaemonFrame, UpkeepFrames, OtherFrames DEF ConfigCmds, upkeepVars

LEMMA RestartedType ==
  ASSUME NEW d \in DriverOf
  PROVE  /\ Restarted(d) \in DriverOf /\ Started(d) \in DriverOf
         /\ \A v \in Values \cup {None, Torn} : [d EXCEPT !.conf = v] \in DriverOf
         /\ \A v \in Values \cup {None} : Written(d, v) \in DriverOf
BY DEF Restarted, Started, Written, DriverOf

LEMMA DriverTypes ==
  ASSUME driver \in DriverOf, [Next]_vars
  PROVE  driver' \in DriverOf
<1>1. CASE CacheInstallCmd
  <2>1. PICK v \in Values \cup {None}, bind, start, ok \in BOOLEAN : CacheInstall(v, bind, start, ok)
    BY <1>1 DEF CacheInstallCmd
  <2> DEFINE there   == [driver EXCEPT !.pkg = TRUE]
             started == IF start THEN Started([there EXCEPT !.enabled = TRUE]) ELSE there
  <2>2. there \in DriverOf
    BY DEF DriverOf
  <2>3. [there EXCEPT !.enabled = TRUE] \in DriverOf
    BY <2>2 DEF DriverOf
  <2>4. started \in DriverOf
    BY <2>2, <2>3, RestartedType
  <2>5. \/ driver' = Restarted(Written(started, v))
        \/ driver' \in {driver, there, started, [started EXCEPT !.conf = Torn], Written(started, v)}
    BY <2>1 DEF CacheInstall, Configured
  <2> HIDE DEF there, started
  <2> QED BY <2>2, <2>4, <2>5, RestartedType
<1>2. CASE CacheRemoveCmd
  BY <1>2 DEF CacheRemoveCmd, CacheRemove, DriverOf
<1>3. CASE CacheControlCmd
  <2>1. \/ driver' \in {driver, Started(driver), Restarted(driver)}
        \/ driver' = [driver EXCEPT !.running = FALSE]
    BY <1>3 DEF CacheControlCmd, CacheControl
  <2>2. [driver EXCEPT !.running = FALSE] \in DriverOf
    BY DEF DriverOf
  <2> QED BY <2>1, <2>2, RestartedType
<1>4. CASE Booting
  BY <1>4, RestartedType DEF Booting, Boots, DriverOf
<1> QED BY <1>1, <1>2, <1>3, <1>4, Groups, AccountFrame, UserRemoveFrame, LogoutFrame, KeyFrame,
           CronFrame, CronRunFrame, DaemonFrame, UpkeepFrames, OtherFrames DEF CacheCmds, upkeepVars

LEMMA UpkeepStays ==
  ASSUME UpkeepTyped, [Next]_vars
  PROVE  UpkeepTyped'
BY UpdateTypes, SettingTypes, DriverTypes DEF UpkeepTyped

-----------------------------------------------------------------------------
(* Sessions.  Ids only grow, so that a session that came later is never    *)
(* taken for one that a logout picked.                                     *)
SessionsTyped ==
  /\ logins \in Nat /\ logins <= MaxLogins
  /\ DOMAIN sess = Seats
  /\ \A s \in Seats :
       sess[s] = Free \/ (sess[s].user \in Users /\ sess[s].id \in Nat /\ sess[s].id \in 1..logins)

\* What a logout means to end: logins, seen earlier, and its user's if they
\* are still there.
PickedSound ==
  /\ DOMAIN out = {"step", "user", "how", "picked"}
  /\ out.step # "none" => out.user \in Users
  /\ \A p \in out.picked :
       /\ p.seat \in Seats /\ IsLogin(out.how, p.seat)
       /\ p.id \in Nat /\ p.id \in 1..logins
       /\ sess[p.seat].id = p.id => Here(p.seat, out.user)

SessionsSound == SessionsTyped /\ PickedSound

\* Few actions touch sessions.
LEMMA SessionSteps ==
  ASSUME [Next]_vars
  PROVE  \/ UNCHANGED sessionVars
         \/ \E u \in Users : sess' = [s \in Seats |-> IF Here(s, u) THEN Free ELSE sess[s]]
                             /\ UNCHANGED <<logins, out>>
         \/ \E u \in Users, how \in {"loginctl", "who"}, which \in Seats \cup {"all"} :
              LogoutLists(u, how, which)
         \/ \E u \in Users, s \in Seats : LogsIn(u, s)
         \/ \E s \in Seats : LogsOut(s)
         \/ LogoutReadsProcesses \/ LogoutEnds
<1>1. CASE UserRemoveCmd
  BY <1>1 DEF UserRemoveCmd, sessionVars
<1>2. CASE LogoutCmd
  BY <1>2 DEF LogoutCmd
<1>3. CASE Sessions
  BY <1>3 DEF Sessions
<1> QED BY <1>1, <1>2, <1>3, Groups, AccountFrame, KeyFrame, CronFrame, CronRunFrame, DaemonFrame,
           UpkeepFrames, OtherFrames DEF elsewhere

\* Sessions that end leave the others as they are.
LEMMA SomeEnd ==
  ASSUME SessionsSound, NEW Ended, logins' = logins, out'.step # "none" => out'.user \in Users,
         DOMAIN out' = DOMAIN out, out'.picked = {} \/ out' = out,
         sess' = [s \in Seats |-> IF s \in Ended THEN Free ELSE sess[s]]
  PROVE  SessionsSound'
<1>1. \A s \in Seats : sess'[s] = Free \/ sess'[s] = sess[s]
  OBVIOUS
<1>2. SessionsTyped'
  BY <1>1 DEF SessionsSound, SessionsTyped
<1>3. CASE out'.picked = {}
  BY <1>2, <1>3 DEF SessionsSound, PickedSound
<1>4. CASE out' = out
  <2>1. ASSUME NEW p \in out.picked, sess'[p.seat].id = p.id PROVE sess'[p.seat].user = out.user
    <3>1. p.seat \in Seats /\ p.id \in Nat /\ p.id \in 1..logins
      BY DEF SessionsSound, PickedSound
    <3>2. p.id # 0
      BY <3>1 DEF SessionsSound, SessionsTyped
    <3>3. sess'[p.seat] = sess[p.seat]
      BY <1>1, <2>1, <3>1, <3>2 DEF Free
    <3> QED BY <2>1, <3>3 DEF SessionsSound, PickedSound, Here
  <2>2. \A p \in out'.picked :
          /\ p.seat \in Seats /\ IsLogin(out'.how, p.seat)
          /\ p.id \in Nat /\ p.id \in 1..logins'
          /\ sess'[p.seat].id = p.id => sess'[p.seat].user = out'.user
    BY <1>4, <2>1 DEF SessionsSound, PickedSound
  <2> QED BY <1>2, <1>4, <2>2 DEF SessionsSound, PickedSound, Here, IsLogin
<1> QED BY <1>3, <1>4

\* The sessions a logout lists, or reads from the processes, are of its user.
LEMMA Picks ==
  ASSUME SessionsSound, UNCHANGED <<sess, logins>>, out'.user \in Users,
         DOMAIN out' = {"step", "user", "how", "picked"}, NEW S \in SUBSET Seats,
         \A s \in S : Here(s, out'.user) /\ IsLogin(out'.how, s),
         out'.picked = {[seat |-> s, id |-> sess[s].id] : s \in S}
  PROVE  SessionsSound'
<1>1. ASSUME NEW p \in out'.picked
      PROVE  /\ p.seat \in Seats /\ IsLogin(out'.how, p.seat)
             /\ p.id \in Nat /\ p.id \in 1..logins
             /\ sess[p.seat].user = out'.user
  <2>1. PICK s \in S : p = [seat |-> s, id |-> sess[s].id]
    BY <1>1
  <2>2. sess[s] # Free
    BY AccountsAssumption DEF Here, Free
  <2> QED BY <2>1, <2>2 DEF SessionsSound, SessionsTyped, Here
<1> QED BY <1>1 DEF SessionsSound, SessionsTyped, PickedSound, Here, IsLogin

\* Logins and logouts between the steps of a logout do no harm.
LEMMA SessionsStaySound ==
  ASSUME SessionsSound, [Next]_vars
  PROVE  SessionsSound'
<1>1. CASE UNCHANGED sessionVars
  BY <1>1 DEF sessionVars, SessionsSound, SessionsTyped, PickedSound, Here
<1>2. ASSUME NEW u \in Users, UNCHANGED <<logins, out>>,
             sess' = [s \in Seats |-> IF Here(s, u) THEN Free ELSE sess[s]]
      PROVE  SessionsSound'
  <2>1. sess' = [s \in Seats |-> IF s \in {x \in Seats : Here(x, u)} THEN Free ELSE sess[s]]
    BY <1>2
  <2> QED BY <1>2, <2>1, SomeEnd DEF SessionsSound, PickedSound
<1>3. ASSUME NEW u \in Users, NEW how \in {"loginctl", "who"}, NEW which \in Seats \cup {"all"},
             LogoutLists(u, how, which)
      PROVE  SessionsSound'
  <2> DEFINE S == Selected(how, u, which)
  <2>1. S \in SUBSET Seats /\ \A s \in S : Here(s, u) /\ IsLogin(how, s)
    BY DEF Selected, Listed
  <2>2. /\ DOMAIN out' = {"step", "user", "how", "picked"} /\ out'.user = u /\ out'.how = how
        /\ UNCHANGED <<sess, logins>>
        /\ out'.picked = {[seat |-> s, id |-> sess[s].id] : s \in S}
    BY <1>3 DEF LogoutLists
  <2> QED BY <2>1, <2>2, Picks
<1>4. ASSUME NEW u \in Users, NEW s \in Seats, LogsIn(u, s)
      PROVE  SessionsSound'
  <2>1. /\ sess' = [sess EXCEPT ![s] = [user |-> u, id |-> logins + 1]]
        /\ logins' = logins + 1 /\ out' = out /\ logins < MaxLogins
    BY <1>4 DEF LogsIn
  <2>2. SessionsTyped'
    BY <2>1, AccountsAssumption DEF SessionsSound, SessionsTyped
  <2>3. ASSUME NEW p \in out.picked
        PROVE  /\ p.seat \in Seats /\ IsLogin(out.how, p.seat)
               /\ p.id \in Nat /\ p.id \in 1..logins'
               /\ sess'[p.seat].id = p.id => sess'[p.seat].user = out.user
    <3>1. /\ p.seat \in Seats /\ IsLogin(out.how, p.seat) /\ p.id \in Nat /\ p.id \in 1..logins
          /\ sess[p.seat].id = p.id => sess[p.seat].user = out.user
      BY DEF SessionsSound, PickedSound, Here
    <3>2. logins \in Nat /\ p.id # logins + 1 /\ p.id \in 1..logins'
      BY <2>1, <3>1 DEF SessionsSound, SessionsTyped
    <3> QED BY <2>1, <3>1, <3>2 DEF SessionsSound, SessionsTyped
  <2> QED BY <2>1, <2>2, <2>3 DEF SessionsSound, PickedSound, Here, IsLogin
<1>5. ASSUME NEW s \in Seats, LogsOut(s)
      PROVE  SessionsSound'
  <2>1. sess' = [x \in Seats |-> IF x \in {s} THEN Free ELSE sess[x]]
    BY <1>5 DEF LogsOut, SessionsSound, SessionsTyped
  <2> QED BY <1>5, <2>1, SomeEnd DEF LogsOut, SessionsSound, PickedSound
<1>6. CASE LogoutReadsProcesses
  <2> DEFINE seats == {p.seat : p \in out.picked}
             S == {s \in seats : Here(s, out.user)}
  <2>1. out.user \in Users /\ S \in SUBSET Seats /\ \A s \in S : IsLogin(out.how, s)
    BY <1>6 DEF LogoutReadsProcesses, SessionsSound, PickedSound
  <2>2. SshdPids(out.user, seats) = {[seat |-> s, id |-> sess[s].id] : s \in S}
    BY DEF SshdPids
  <2>3. /\ UNCHANGED <<sess, logins>>
        /\ \/ out' = [out EXCEPT !.step = "end", !.picked = SshdPids(out.user, seats)]
           \/ out' = NoLogout
    BY <1>6 DEF LogoutReadsProcesses
  <2>4. CASE out' = [out EXCEPT !.step = "end", !.picked = SshdPids(out.user, seats)]
    <3>1. /\ DOMAIN out' = {"step", "user", "how", "picked"} /\ out'.user = out.user /\ out'.how = out.how
          /\ out'.picked = SshdPids(out.user, seats)
      BY <2>4 DEF SessionsSound, PickedSound
    <3> QED BY <2>1, <2>2, <2>3, <3>1, Picks
  <2>5. CASE out' = NoLogout
    BY <2>3, <2>5 DEF NoLogout, SessionsSound, SessionsTyped, PickedSound
  <2> QED BY <2>3, <2>4, <2>5
<1>7. CASE LogoutEnds
  <2> DEFINE Ended == {s \in Seats : \E p \in out.picked : p.seat = s /\ p.id = sess[s].id}
  <2>1. sess' = [s \in Seats |-> IF s \in Ended THEN Free ELSE sess[s]]
    BY <1>7 DEF LogoutEnds
  <2>2. out' = NoLogout /\ logins' = logins
    BY <1>7 DEF LogoutEnds
  <2>3. /\ DOMAIN out' = DOMAIN out /\ out'.step = "none" /\ out'.picked = {}
    BY <2>2 DEF NoLogout, SessionsSound, PickedSound
  <2> QED BY <2>1, <2>2, <2>3, SomeEnd
<1> QED BY <1>1, <1>2, <1>3, <1>4, <1>5, <1>6, <1>7, SessionSteps

LEMMA SessionsStartSound ==
  ASSUME Init
  PROVE  SessionsSound
<1> SUFFICES ASSUME sess = [s \in Seats |-> Free], logins = 0, out = NoLogout PROVE SessionsSound
  BY DEF Init, AccountsInit
<1>1. SessionsTyped
  BY AccountsAssumption DEF SessionsTyped
<1>2. PickedSound
  BY DEF PickedSound, NoLogout
<1> QED BY <1>1, <1>2 DEF SessionsSound

LEMMA AlwaysSoundSessions == Spec => []SessionsSound
BY SessionsStartSound, SessionsStaySound, PTL DEF Spec

\* A logout ends login sessions of its own user and no others, whoever logs in
\* and out between its steps, with any number of users.
THEOREM LogoutIsSelective == Spec => LogoutSparesOthers
<1> DEFINE Spares == out.step = "end" /\ out' = NoLogout =>
             \A s \in Seats : sess'[s] # sess[s] => Here(s, out.user) /\ IsLogin(out.how, s)
<1>1. ASSUME SessionsSound, [Next]_vars PROVE Spares
  <2> SUFFICES ASSUME out.step = "end", out' = NoLogout, NEW s \in Seats, sess'[s] # sess[s]
               PROVE  Here(s, out.user) /\ IsLogin(out.how, s)
    OBVIOUS
  <2>0. NoLogout.step = "none"
    BY DEF NoLogout
  <2>1. out' # out
    BY <2>0
  <2>2. LogoutEnds
    BY <1>1, <2>1, SessionSteps DEF sessionVars, LogoutLists, LogsIn, LogsOut, LogoutReadsProcesses, NoLogout
  <2>3. \E p \in out.picked : p.seat = s /\ p.id = sess[s].id
    BY <2>2 DEF LogoutEnds
  <2> QED BY <1>1, <2>3 DEF SessionsSound, PickedSound
<1> QED BY <1>1, AlwaysSoundSessions, PTL DEF Spec, LogoutSparesOthers

-----------------------------------------------------------------------------
(* All types together, and what follows from them. *)
HostTyped ==
  /\ AccountsTyped /\ KeysTyped /\ JobsTyped /\ RunTyped /\ ConfsTyped /\ UpkeepTyped
  /\ SessionsSound /\ CountTyped

LEMMA HostStaysTyped ==
  ASSUME HostTyped, [Next]_vars
  PROVE  HostTyped'
BY TypesStay, KeysStay, JobsStay, RunStays, ConfsStay, UpkeepStays, SessionsStaySound, CountStays
   DEF HostTyped

LEMMA StartsTyped ==
  ASSUME Init
  PROVE  HostTyped
<1>1. AccountsTyped
  BY AccountsStartTyped
<1>2. KeysTyped
  <2>1. file = [u \in Users |-> <<>>] /\ MaxKeys \in Nat
    BY AccountsAssumption DEF Init, AccountsInit
  <2> QED BY <2>1 DEF KeysTyped
<1>3. JobsTyped /\ RunTyped /\ ConfsTyped
  BY DEF Init, JobsInit, JobsTyped, RunTyped, ConfsTyped, NoRun
<1>4. UpkeepTyped
  <2>1. UpkeepInit
    BY DEF Init
  <2>2. updates \in UpdatesOf
    BY <2>1 DEF UpkeepInit, UpdatesOf
  <2>3. settings \in {NoFile, Torn} \cup SettingsOf
    <3>1. NoSettings \in SettingsOf
      BY DEF NoSettings, SettingsOf
    <3>2. \A v \in Values : [NoSettings EXCEPT !.plugins = {v}] \in SettingsOf
      BY <3>1 DEF SettingsOf
    <3> QED BY <2>1, <3>2 DEF UpkeepInit
  <2>4. driver \in DriverOf
    BY <2>1 DEF UpkeepInit, DriverOf
  <2> QED BY <2>2, <2>3, <2>4 DEF UpkeepTyped
<1>5. SessionsSound
  BY SessionsStartSound
<1>6. CountTyped
  BY HostAssumption DEF Init, CountTyped
<1> QED BY <1>1, <1>2, <1>3, <1>4, <1>5, <1>6 DEF HostTyped

LEMMA AlwaysHostTyped == Spec => []HostTyped
BY StartsTyped, HostStaysTyped, PTL DEF Spec

\* Accounts, keys, jobs, programs, updates, settings, cache servers, sessions
\* and counters keep their types: a job's line says what its definition says,
\* and no file of keys outgrows its bound.
THEOREM TypeCorrect == Spec => []TypeOK
<1>1. ASSUME HostTyped PROVE TypeOK
  <2>1. /\ acc \in [Users -> Account] /\ dropIn \subseteq Users
        /\ locks \in [torn : BOOLEAN, of : [Users -> LockRecords]]
    BY <1>1 DEF HostTyped, AccountsTyped
  <2>2. \A u \in Users : Len(file[u]) <= MaxKeys
    BY <1>1 DEF HostTyped, KeysTyped
  <2>3. \A i \in Ids : IsJob(jobs[i]) =>
          jobs[i].user \in Users /\ jobs[i].line = [user |-> jobs[i].user, def |-> jobs[i].def]
    BY <1>1 DEF HostTyped, JobsTyped, JobFile, IsJob
  <2>4. \A n \in Names : Conf(confs[n]) # NoFile => confs[n] \in ProgramOf
    BY <1>1 DEF HostTyped, ConfsTyped, Conf
  <2>5. run.pc \in {"idle", "running", "killed"} /\ run.procs \subseteq {"leader", "child", "daemon"}
    BY <1>1 DEF HostTyped, RunTyped
  <2>6. /\ updates.conf \in {NoFile, Torn, "on", "off"} /\ updates.drop \in {NoFile, Torn, "on"}
        /\ settings \in {NoFile, Torn} \cup SettingsOf
        /\ {driver.conf, driver.live} \subseteq Values \cup {None, Torn}
    BY <1>1 DEF HostTyped, UpkeepTyped, UpdatesOf, DriverOf
  <2>7. scope \in Scopes /\ logins \in 0..MaxLogins /\ ran \in 0..MaxCommands
    BY <1>1, AccountsAssumption DEF HostTyped, SessionsSound, SessionsTyped, CountTyped
  <2> QED BY <2>1, <2>2, <2>3, <2>4, <2>5, <2>6, <2>7
          DEF TypeOK, Account, LockRecords, ProgramOf, SettingsOf
<1> QED BY <1>1, AlwaysHostTyped, PTL

\* After a daemon command that reports success supervisord runs what all the
\* files say, whatever earlier commands left in them.
THEOREM ProgramsFollowFiles == Spec => ProgramsMatchFiles
<1> DEFINE Match ==
       \A n \in Names :
         IF Conf(confs'[n]) = NoFile THEN progs'[n] = NoFile
         ELSE progs'[n] # NoFile /\ progs'[n].prog = confs'[n]
           Matches == last'.op \in {"daemonAdd", "daemonModify", "daemonRemove"} /\ last'.ok /\ ran' # ran
                      => Match
<1>1. ASSUME ConfsTyped', NEW loaded, RereadUpdate(loaded, confs', TRUE) PROVE Match
  <2>1. ASSUME NEW n \in Names, Conf(confs'[n]) # NoFile
        PROVE  /\ [prog |-> confs'[n], up |-> TRUE] # NoFile
               /\ [prog |-> confs'[n], up |-> TRUE].prog = confs'[n]
    <3>1. confs'[n] \in ProgramOf
      BY <1>1, <2>1 DEF ConfsTyped, Conf
    <3>2. [prog |-> confs'[n], up |-> TRUE] \in [prog : ProgramOf, up : BOOLEAN]
      BY <3>1
    <3> QED BY <3>2, JobsAssumption DEF ProgramOf
  <2> QED BY <1>1, <2>1 DEF RereadUpdate
<1>2. ASSUME ConfsTyped', [Next]_vars PROVE Matches
  <2> SUFFICES ASSUME last'.op \in {"daemonAdd", "daemonModify", "daemonRemove"}, last'.ok, ran' # ran
      PROVE  \E loaded : RereadUpdate(loaded, confs', TRUE)
    BY <1>1, <1>2
  <2>0. ASSUME NEW op, NEW ok \in BOOLEAN, OnDaemon(op, ok) PROVE ok = TRUE
    BY <2>0 DEF OnDaemon, Cmd, Runs
  <2>1. CASE DaemonAddCmd
    <3>1. PICK n \in Names, u \in Users \cup {None}, d \in Defs, install \in BOOLEAN, ok \in BOOLEAN :
            DaemonAdd(n, Program(u, d), install, ok) /\ ok = TRUE
      BY <2>0, <2>1 DEF DaemonAddCmd
    <3> QED BY <3>1 DEF DaemonAdd
  <2>2. CASE DaemonModifyCmd
    <3>1. PICK n \in Names, setUser \in BOOLEAN, u \in Users \cup {None}, d \in Defs, ok \in BOOLEAN :
            DaemonModify(n, setUser, u, d, ok) /\ ok = TRUE
      BY <2>0, <2>2 DEF DaemonModifyCmd
    <3> QED BY <3>1 DEF DaemonModify
  <2>3. CASE DaemonRemoveCmd
    <3>1. PICK n \in Names, stop, force, ok \in BOOLEAN : DaemonRemove(n, stop, force, ok) /\ ok = TRUE
      BY <2>0, <2>3 DEF DaemonRemoveCmd
    <3> QED BY <3>1 DEF DaemonRemove
  <2> QED BY <1>2, <2>1, <2>2, <2>3, CommandOf
<1>3. HostTyped => ConfsTyped
  BY DEF HostTyped
<1> QED BY <1>2, <1>3, AlwaysHostTyped, PTL DEF Spec, ProgramsMatchFiles

\* What a cache server runs with and what its file says come apart in no step but
\* an install that reports an error, whatever ran before and whatever fails.
THEOREM CachesKeepUp == Spec => CacheKeepsUp
<1> DEFINE Up == InStep => InStep' \/ (ran' # ran /\ last'.op = "cacheInstall" /\ ~last'.ok)
           Stays(d) == d.running => d.live = d.conf
<1>1. ASSUME NEW d \in DriverOf
      PROVE  /\ Restarted(d) \in DriverOf /\ Stays(Restarted(d))
             /\ Stays(d) => Stays(Started(d))
             /\ Stays([d EXCEPT !.running = FALSE])
  BY RestartedType DEF Restarted, Started, DriverOf
<1>2. ASSUME UpkeepTyped, ran \in Nat, [Next]_vars PROVE Up
  <2> SUFFICES ASSUME Stays(driver)
               PROVE  Stays(driver') \/ (ran' # ran /\ last'.op = "cacheInstall" /\ ~last'.ok)
    BY DEF InStep
  <2>0. driver \in DriverOf
    BY <1>2 DEF UpkeepTyped
  <2>1. CASE CacheInstallCmd
    <3>1. PICK v \in Values \cup {None}, bind \in BOOLEAN, start \in BOOLEAN, ok \in BOOLEAN :
            CacheInstall(v, bind, start, ok) /\ OnCache("cacheInstall", start, ok)
      BY <2>1 DEF CacheInstallCmd
    <3>2. ran' = ran + 1 /\ last'.op = "cacheInstall" /\ last'.ok = ok
      BY <3>1 DEF OnCache, Runs
    <3> DEFINE there   == [driver EXCEPT !.pkg = TRUE]
               enabled == [there EXCEPT !.enabled = TRUE]
               started == IF start THEN Started(enabled) ELSE there
    <3>3. there \in DriverOf /\ Stays(there) /\ enabled \in DriverOf /\ Stays(enabled)
      BY <2>0 DEF DriverOf
    <3> HIDE DEF there, enabled
    <3>4. started \in DriverOf /\ Stays(started)
      BY <3>3, <1>1, RestartedType
    <3>5. Stays(Configured(started, v))
      BY <3>4, <1>1, RestartedType DEF Configured
    <3>6. ok => driver' \in {Configured(started, v), started}
      BY <3>1 DEF CacheInstall, ServiceFails, there, enabled
    <3> HIDE DEF started
    <3> QED BY <1>2, <3>2, <3>4, <3>5, <3>6
  <2>2. CASE CacheRemoveCmd
    BY <2>0, <2>2 DEF CacheRemoveCmd, CacheRemove, DriverOf
  <2>3. CASE CacheControlCmd
    <3>1. \/ driver' \in {driver, Started(driver), Restarted(driver)}
          \/ driver' = [driver EXCEPT !.running = FALSE]
      BY <2>3 DEF CacheControlCmd, CacheControl
    <3> QED BY <2>0, <3>1, <1>1
  <2>4. CASE Booting
    <3>1. driver' \in {Restarted(driver), [driver EXCEPT !.running = FALSE]}
      BY <2>4 DEF Booting, Boots
    <3> QED BY <2>0, <3>1, <1>1
  <2>5. CASE UNCHANGED driver
    BY <2>5
  <2> QED BY <1>2, <2>1, <2>2, <2>3, <2>4, <2>5, Groups, AccountFrame, UserRemoveFrame, LogoutFrame,
             KeyFrame, CronFrame, CronRunFrame, DaemonFrame, UpkeepFrames, OtherFrames
          DEF CacheCmds, upkeepVars
<1>3. HostTyped => UpkeepTyped /\ ran \in Nat
  BY HostAssumption DEF HostTyped, CountTyped
<1> HIDE DEF Stays
<1> QED BY <1>2, <1>3, AlwaysHostTyped, PTL DEF Spec, CacheKeepsUp

\* A config command changes one setting and leaves the effective value of all
\* others alone; a file that does not parse stays as it is.
THEOREM OthersKeepTheirValue == Spec => OtherSettingsStay
<1> DEFINE Same(k) == \A x \in SettingKeys \ {k} : Effective(settings')[x] = Effective(settings)[x]
           Stay == ran' # ran /\ last'.op = "config" =>
                     IF settings = Torn THEN settings' = Torn
                     ELSE settings' = Torn \/ \A k \in SettingKeys \ {last'.user} :
                            Effective(settings')[k] = Effective(settings)[k]
<1>1. ASSUME UpkeepTyped, settings # Torn, NEW k \in SettingKeys, NEW vs \in SUBSET Values,
             settings' = [Load EXCEPT ![k] = vs]
      PROVE  Same(k)
  <2>1. Load \in SettingsOf /\ settings' \in SettingsOf /\ settings' # NoFile
    BY <1>1, UpkeepAssumption DEF UpkeepTyped, Load, NoSettings, SettingsOf
  <2>2. \A x \in SettingKeys \ {k} : settings'[x] = Load[x]
    BY <1>1, <2>1 DEF SettingsOf
  <2>3. Effective(settings') = [settings' EXCEPT !.php = IF @ = {} THEN DefaultExtensions ELSE @]
    BY <2>1 DEF Effective
  <2>4. Effective(settings) = [Load EXCEPT !.php = IF @ = {} THEN DefaultExtensions ELSE @]
    BY DEF Effective, Load, NoSettings, SettingKeys
  <2> QED BY <2>1, <2>2, <2>3, <2>4 DEF SettingsOf, SettingKeys
<1>2. HostTyped => UpkeepTyped
  BY DEF HostTyped
<1>3. ASSUME UpkeepTyped, [Next]_vars PROVE Stay
  <2> DEFINE Good(k) == IF settings = Torn THEN settings' = Torn ELSE settings' = Torn \/ Same(k)
  <2> SUFFICES ASSUME ran' # ran, last'.op = "config" PROVE Good(last'.user)
    OBVIOUS
  <2>1. ASSUME UNCHANGED settings, NEW k PROVE Good(k)
    BY <2>1 DEF Effective
  <2>2. ASSUME NEW k \in SettingKeys, NEW vs \in SUBSET Values, NEW ok \in BOOLEAN, ConfigSet(k, vs, ok)
        PROVE  Good(k)
    <3>1. \/ UNCHANGED settings
          \/ settings # Torn /\ (settings' = Torn \/ settings' = [Load EXCEPT ![k] = vs])
      BY <2>2 DEF ConfigSet, Refuse, Save
    <3> HIDE DEF Same
    <3> QED BY <1>1, <1>3, <2>1, <3>1
  <2>3. \A k, ok : OnSettings(k, FALSE, ok) => last'.user = k
    BY DEF OnSettings, Runs
  <2>4. settings # Torn => \A k \in SettingKeys : Effective(settings)[k] \in SUBSET Values
    BY <1>3, EffectiveType DEF UpkeepTyped
  <2>5. {"php", "roots"} \subseteq SettingKeys
    BY DEF SettingKeys
  <2>6. CASE ConfigSetCmd
    <3>1. PICK k \in {"php", "roots"}, vs \in SUBSET Values, ok \in BOOLEAN :
            ConfigSet(k, vs, ok) /\ OnSettings(k, FALSE, ok)
      BY <2>6 DEF ConfigSetCmd
    <3> HIDE DEF Good
    <3> QED BY <3>1, <2>2, <2>3, <2>5
  <2>7. CASE ConfigAddCmd
    <3>1. PICK k \in {"php", "roots"}, v \in Values, ok \in BOOLEAN :
            ConfigAdd(k, v, ok) /\ OnSettings(k, FALSE, ok)
      BY <2>7 DEF ConfigAddCmd
    <3> DEFINE vs == Effective(settings)[k] \cup {v}
    <3>2. UNCHANGED settings \/ (settings # Torn /\ ConfigSet(k, vs, ok))
      BY <3>1 DEF ConfigAdd, Refuse
    <3>3. settings # Torn => vs \in SUBSET Values
      BY <2>4, <2>5
    <3> HIDE DEF Good, vs
    <3> QED BY <3>1, <3>2, <3>3, <2>1, <2>2, <2>3, <2>5
  <2>8. CASE ConfigRemoveCmd
    <3>1. PICK k \in {"php", "roots"}, v \in Values, ok \in BOOLEAN :
            ConfigRemove(k, v, ok) /\ OnSettings(k, FALSE, ok)
      BY <2>8 DEF ConfigRemoveCmd
    <3> DEFINE vs == Effective(settings)[k] \ {v}
    <3>2. UNCHANGED settings \/ (settings # Torn /\ ConfigSet(k, vs, ok))
      BY <3>1 DEF ConfigRemove, Refuse
    <3>3. settings # Torn => vs \in SUBSET Values
      BY <2>4, <2>5
    <3> HIDE DEF Good, vs
    <3> QED BY <3>1, <3>2, <3>3, <2>1, <2>2, <2>3, <2>5
  <2>9. CASE ConfigResetCmd
    <3>1. PICK k \in {"php", "roots", "all"}, ok \in BOOLEAN :
            ConfigReset(k, ok) /\ OnSettings(k, k = "all", ok)
      BY <2>9 DEF ConfigResetCmd
    <3>2. k \in {"php", "roots"} /\ last'.user = k
      BY <3>1 DEF OnSettings, Runs
    <3> DEFINE stored == [Load EXCEPT ![k] = {}]
    <3>3. \/ UNCHANGED settings
          \/ settings # Torn /\ (settings' = Torn \/ settings' = stored)
          \/ settings # Torn /\ stored = NoSettings /\ settings' = NoFile
      BY <3>1, <3>2 DEF ConfigReset, EmptyStored, Refuse, Save
    <3>4. CASE settings # Torn /\ stored = NoSettings /\ settings' = NoFile
      <4>1. Load \in SettingsOf
        BY <1>3, <3>4 DEF UpkeepTyped, Load, NoSettings, SettingsOf
      <4>2. \A x \in SettingKeys \ {k} : Load[x] = {}
        BY <3>4, <4>1 DEF SettingsOf, NoSettings
      <4>3. Effective(settings) = [Load EXCEPT !.php = IF @ = {} THEN DefaultExtensions ELSE @]
        BY DEF Effective, Load, NoSettings, SettingKeys
      <4>4. Same(k)
        BY <3>4, <4>1, <4>2, <4>3 DEF Effective, NoSettings, SettingsOf, SettingKeys
      <4> QED BY <3>2, <3>4, <4>4
    <3> HIDE DEF Same
    <3> QED BY <1>1, <1>3, <2>1, <2>5, <3>2, <3>3, <3>4
  <2>10. ConfigCmds
    <3> HIDE DEF Good
    <3> QED BY <1>3, CommandOf
  <2> HIDE DEF Good
  <2> QED BY <2>6, <2>7, <2>8, <2>9, <2>10 DEF ConfigCmds
<1> QED BY <1>2, <1>3, AlwaysHostTyped, PTL DEF Spec, OtherSettingsStay
=============================================================================
