------------------------------- MODULE Upkeep -------------------------------
(***************************************************************************)
(* Automatic updates (internal/services/pkgmanager), abstrax's settings    *)
(* (internal/services/config), cache servers (internal/services/cache) and *)
(* the reboot (internal/services/serverinfo).                              *)
(*                                                                         *)
(* Each keeps files that something else reads when it starts or is told    *)
(* to: systemd its units, a server its configuration.  What was read last  *)
(* is state of its own.  A command is one action, as in Accounts.          *)
(***************************************************************************)
EXTENDS Jobs

CONSTANTS
  Values,            \* values of a setting, ports of a server
  DefaultExtensions  \* the PHP extensions without a setting

SettingKeys == {"php", "roots", "plugins"}
ASSUME UpkeepAssumption ==
  /\ DefaultExtensions \in (SUBSET Values) \ {{}}
  /\ {NoFile, Torn} \cap {"on", "off"} = {}
  /\ NoFile \notin [SettingKeys -> SUBSET Values]

VARIABLES
  updates,   \* the update backend, its files, its unit and its timer
  settings,  \* config.json
  driver,    \* a cache server
  rebootDue  \* a reboot was asked for

upkeepVars == <<updates, settings, driver, rebootDue>>

NoSettings == [k \in SettingKeys |-> {}]

UpkeepInit ==
  /\ updates \in [rhel : BOOLEAN, pkg : BOOLEAN, conf : {NoFile}, drop : {NoFile},
                  unit : {"stock"}, timer : {FALSE}, told : {"nothing"}]
  /\ settings \in {NoFile} \cup {[NoSettings EXCEPT !.plugins = {v}] : v \in Values}
  /\ driver = [pkg |-> FALSE, enabled |-> FALSE, running |-> FALSE, conf |-> None, live |-> None]
  /\ rebootDue = FALSE

-----------------------------------------------------------------------------
(* Automatic updates.  conf and drop are abstrax's files, unit is what     *)
(* systemd has read, told what the last command that succeeded reported.   *)

\* A drop-in that is cut off leaves the service as it was shipped.
LoadUnit(drop) == IF drop = "on" THEN "ours" ELSE "stock"
\* The package manager makes systemd read its units.
WithPackage ==
  IF updates.pkg THEN updates
  ELSE [updates EXCEPT !.pkg = TRUE, !.unit = LoadUnit(updates.drop)]

\* Mutant of Rewritten: only the configuration counts.
RewrittenConf(old, new) == old.conf # new.conf
\* writeIfChanged, removeFile: systemd is told only when something changed.
Rewritten(old, new) == old.conf # new.conf \/ old.drop # new.drop
Reloaded(old, new) ==
  IF Rewritten(old, new) THEN [new EXCEPT !.unit = LoadUnit(new.drop)] ELSE new

\* A command that stops in the middle of a file leaves it cut off.
Tearing(conf) == updates.conf # conf /\ Stops("write")

DnfEnable(ok) ==
  LET written == [WithPackage EXCEPT !.conf = "on", !.drop = "on"]
      loaded  == Reloaded(updates, written)
  IN  \/ ok /\ updates' = [loaded EXCEPT !.timer = TRUE, !.told = "on"]
      \/ ~ok /\ Stops("package") /\ ~updates.pkg /\ UNCHANGED updates
      \/ ~ok /\ Tearing("on") /\ updates' = [WithPackage EXCEPT !.conf = Torn]
      \/ /\ ~ok /\ Stops("write") /\ updates.drop # "on"
         /\ updates' = [WithPackage EXCEPT !.conf = "on", !.drop = Torn]
      \/ ~ok /\ Stops("reload") /\ Rewritten(updates, written) /\ updates' = written
      \/ ~ok /\ Stops("timer") /\ updates' = loaded

DnfDisable(ok) ==
  LET stopped == [updates EXCEPT !.timer = FALSE]
      removed == [stopped EXCEPT !.conf = NoFile, !.drop = NoFile]
      loaded  == IF updates.pkg THEN Reloaded(updates, removed) ELSE removed
  IN  \/ ok /\ updates' = [loaded EXCEPT !.told = "off"]
      \/ ~ok /\ Stops("timer") /\ updates.pkg /\ updates.timer
            /\ updates' = [updates EXCEPT !.told = "nothing"]
      \/ ~ok /\ Stops("delete") /\ updates' = [stopped EXCEPT !.drop = NoFile, !.told = "nothing"]
      \/ ~ok /\ Stops("reload") /\ updates.pkg /\ Rewritten(updates, removed)
            /\ updates' = [removed EXCEPT !.told = "nothing"]

AptEnable(ok) ==
  \/ ok  /\ updates' = [WithPackage EXCEPT !.conf = "on", !.told = "on"]
  \/ ~ok /\ Stops("package") /\ ~updates.pkg /\ UNCHANGED updates
  \/ ~ok /\ Tearing("on") /\ updates' = [WithPackage EXCEPT !.conf = Torn, !.told = "nothing"]
\* Where nothing was installed or configured, there is nothing to turn off.
AptDisable(ok) ==
  LET nothing == updates.conf = NoFile /\ ~updates.pkg
  IN  \/ ok  /\ updates' = [updates EXCEPT !.conf = IF nothing THEN NoFile ELSE "off", !.told = "off"]
      \/ ~ok /\ ~nothing /\ Tearing("off")
             /\ updates' = [updates EXCEPT !.conf = Torn, !.told = "nothing"]

AutoUpdates(enable, ok) ==
  IF updates.rhel THEN IF enable THEN DnfEnable(ok) ELSE DnfDisable(ok)
  ELSE IF enable THEN AptEnable(ok) ELSE AptDisable(ok)

\* package install and remove of the backend.  Debian's package turns updates
\* on, dnf's does not; removing it stops the timer.
PackageChange(install, ok) ==
  \/ ok /\ updates' = [IF install THEN WithPackage ELSE [updates EXCEPT !.pkg = FALSE, !.timer = FALSE]
                       EXCEPT !.told = "nothing"]
  \/ ~ok /\ Stops("package") /\ UNCHANGED updates

\* Status, dnfStatus, aptStatus: the files are read, and not what systemd runs.
Managed == updates.conf # NoFile /\ (updates.rhel => updates.drop # NoFile)
StatusEnabled ==
  /\ updates.pkg
  /\ IF updates.rhel THEN updates.timer /\ (Managed => updates.conf = "on")
     ELSE updates.conf # "off"

-----------------------------------------------------------------------------
(* Settings.  An empty set stands for a setting that is not stored.        *)

Load == IF settings = NoFile THEN NoSettings ELSE settings
Effective(s) ==
  IF s = NoFile THEN [NoSettings EXCEPT !.php = DefaultExtensions]
  ELSE [s EXCEPT !.php = IF @ = {} THEN DefaultExtensions ELSE @]

Save(stored, ok) ==
  \/ ok  /\ settings' = stored
  \/ ~ok /\ Stops("write") /\ settings' = Torn
Refuse(ok) == ~ok /\ UNCHANGED settings

ConfigSet(k, vs, ok) ==
  IF settings = Torn \/ vs = {} THEN Refuse(ok) ELSE Save([Load EXCEPT ![k] = vs], ok)
\* Add starts from the effective value, and panics where there are no
\* approved roots at all.
ConfigAdd(k, v, ok) ==
  IF settings = Torn THEN Refuse(ok)
  ELSE IF k = "roots" /\ Load.roots = {} THEN Refuse(ok)
  ELSE ConfigSet(k, Effective(settings)[k] \cup {v}, ok)
ConfigRemove(k, v, ok) ==
  IF settings = Torn THEN Refuse(ok)
  ELSE IF v \notin Effective(settings)[k] THEN Refuse(ok)
  ELSE ConfigSet(k, Effective(settings)[k] \ {v}, ok)

\* Mutant of EmptyStored: plugin settings are not looked at.
EmptyOfLists(stored) == stored.php = {} /\ stored.roots = {}
EmptyStored(stored) == stored = NoSettings
ConfigReset(k, ok) ==
  IF k = "all" THEN ok /\ settings' = NoFile
  ELSE IF settings = Torn THEN Refuse(ok)
  ELSE LET stored == [Load EXCEPT ![k] = {}]
       IN  IF EmptyStored(stored) THEN ok /\ settings' = NoFile ELSE Save(stored, ok)

-----------------------------------------------------------------------------
(* Cache servers. *)

ServiceFails(ok) == ~ok /\ Stops("service")
Restarted(d) == [d EXCEPT !.running = TRUE, !.live = d.conf]
\* A server that runs already does not read its configuration again.
Started(d) == IF d.running THEN d ELSE Restarted(d)

\* applyDriverConfig: a flag that is not given leaves its line alone.
Written(d, v) == IF v = None THEN d ELSE [d EXCEPT !.conf = v]
\* Mutant of Configured: the server is started, which does nothing if it runs.
ConfiguredGently(d, v) == Started(Written(d, v))
\* applyDriverConfig and the restart after it, also with --start=false.
Configured(d, v) == Restarted(Written(d, v))

\* v is what --port or --memory says, None if neither is given; --bind has a
\* default, and only if that is turned off too are file and server left alone.
CacheInstall(v, bind, start, ok) ==
  LET there   == [driver EXCEPT !.pkg = TRUE]
      started == IF start THEN Started([there EXCEPT !.enabled = TRUE]) ELSE there
      touches == v # None \/ bind
  IN  \/ ok /\ driver' = IF touches THEN Configured(started, v) ELSE started
      \/ ~ok /\ Stops("package") /\ UNCHANGED driver
      \/ ServiceFails(ok) /\ start /\ driver' = there
      \/ ~ok /\ touches /\ Stops("write") /\ driver' = [started EXCEPT !.conf = Torn]
      \/ ServiceFails(ok) /\ touches /\ driver' = Written(started, v)
CacheRemove(purge, ok) ==
  \/ ok /\ driver' = [driver EXCEPT !.pkg = FALSE, !.running = FALSE, !.enabled = FALSE,
                      !.conf = IF purge THEN None ELSE @]
  \/ ~ok /\ Stops("package") /\ UNCHANGED driver
CacheControl(action, ok) ==
  \/ /\ ok /\ driver.pkg
     /\ driver' = CASE action = "start"   -> Started(driver)
                    [] action = "stop"    -> [driver EXCEPT !.running = FALSE]
                    [] action = "restart" -> Restarted(driver)
  \/ ~ok /\ (driver.pkg => Stops("service")) /\ UNCHANGED driver

-----------------------------------------------------------------------------
(* server reboot: a line in the journal, the answer, then the reboot, now  *)
(* or after a delay.  Everything is read from its files again.             *)
Reboot(ok) ==
  \/ ok /\ rebootDue' = TRUE
  \/ ~ok /\ Stops("service") /\ UNCHANGED rebootDue
Boots ==
  /\ rebootDue /\ rebootDue' = FALSE
  /\ updates' = [updates EXCEPT !.unit = LoadUnit(updates.drop)]
  /\ driver' = IF driver.enabled THEN Restarted(driver) ELSE [driver EXCEPT !.running = FALSE]
  /\ UNCHANGED settings
=============================================================================
