# Specifications of abstrax

abstrax is a command line for one Linux server. It sets up projects (a
directory, an nginx virtual host, PHP-FPM pools, a certificate), and it drives
the firewall, sshd, MySQL, system accounts, cron, supervisor, packages, its own
plugins and its own updates. There is no daemon: every command is a process
that reads some files, runs some programs, writes some files and exits.

What is hard in it follows from that shape.

* **Several files and one truth.** A project is a state file, a vhost file with
  a link or a `.disabled` copy, a pool file for each PHP version, a certificate
  and nginx's running configuration. Each command rewrites some of them, in an
  order somebody chose, and undoes some of them when a later step fails.
* **Any step may fail and any process may die.** Files are rewritten in place
  (`os.WriteFile` truncates first); nothing is journalled.
* **Several commands, one convention.** `--dry-run`, "a disabled vhost stays
  disabled" and "the pool belongs to the recorded version" are kept by each
  command on its own, or not kept.
* **Other programs act too.** certbot's deploy hook and commands on other
  projects reload nginx at moments no command here chose; people log in and out
  while a logout looks for their sessions; a cron job goes on after its timeout.
* **What was read last is state too.** nginx, sshd, mysqld, systemd, supervisord
  and a cache server run with what a file said when they last looked, and the
  commands have to tell them.

## 1. Inventory

Paths are under `src/internal/`. "Status" is the state of this directory.

| Component | State it keeps | Operations | Hard behaviour | What makes it correct | Status |
|---|---|---|---|---|---|
| `services/project` | `<stateDir>/<name>.json`; vhost files; `pool.d/abstrax-<name>.conf` per version; directories | Add, Remove, Modify, SetRuntime, AddRedirect/ModifyRedirect/RemoveRedirect, AddVhost, RemoveVhost, Enable, Disable, Reload, AdoptSSL | partial failure, crash, rollback, `--dry-run` | the files agree with the state; no PHP request goes to a removed pool; a failed runtime change leaves nothing | modelled (`VhostFiles`, `Project`), except directories, ownership, logs, Reload, AdoptSSL |
| `services/ssl` | the certificate (certbot's), `State.SSL` | Add, Remove, Renew, Status | a certificate deleted while a vhost uses it; a deploy hook that reloads nginx in the middle | nginx never points at a missing certificate | Add and Remove modelled in `Project` |
| `services/firewall` | the rules of ufw or firewalld, active or not, default policies, `before.rules` | Enable, Disable, Allow, Deny, AllowIP, DenyIP, RuleRemove, RemovePort, RemoveService, SetDefaults, SetPing | a check on simulated rules, then a change; the order of ufw rules | the administrator's SSH session is never cut off without `--force` | modelled (`SshGuard`, `SshAccess`), inbound TCP only, without ping and installation |
| `services/sshcfg` | managed drop-in, legacy file, `sshd_config`, socket drop-in, SELinux port label | Set (a directive), SetPort | sshd keeps the first value it reads; validation after the write; restore | a rejected configuration is not left behind; the firewall lets the new port in before sshd moves | SetPort modelled in `SshAccess`; other directives as one action |
| `services/mysql` | accounts by host, grants, databases, `mysql.json`, the remote drop-in, the server's mode and address | Install, ResetRootPassword, SetConfig, DatabaseAdd/Remove, UserAdd/Remove/Password, Grant, Revoke, EnableRemote, DisableRemote | several accounts per user name; a server without passwords during a reset; a restart that fails after the drop-in has changed | the two local accounts stay alike; a saved password opens the server; a reset that ends stops the open server it started; the address in use is the one the files say | modelled in `Mysql`, without reports and the contents of privileges |
| `services/user` | passwd, shadow and group entries, sudoers drop-ins, `user-locks.json`, sessions | Add, Remove, GrantSudo, RevokeSudo, SetGroups, Lock, Unlock, Logout | a lock repeated or failed; a terminal that changes hands during a logout; who still uses an account | unlock gives back what lock found; a logout ends its own user's logins only; a sudo rule goes with the account | modelled in `Accounts` |
| `services/sshkey` | `authorized_keys` | Add, Remove, with markers | keys looked up one way and removed another | a key reported as removed is gone | modelled in `Accounts` |
| `services/cron` | one file in `cron.d` per job | Add, Modify, Remove, Enable, Disable, Run | a torn file; the timeout of a run | the line cron reads is the job abstrax shows; a run with a timeout ends | modelled in `Jobs` |
| `services/daemon` | supervisor configuration files, the programs supervisord runs | Install, Add, Modify, Remove, Start, Stop | supervisorctl fails after the file has changed | after a success supervisord runs what the files say | modelled in `Jobs` |
| `services/pkgmanager` | packages; the files, unit and timer of automatic updates | Enable, Disable, Status of automatic updates; install and remove of their package | systemd is told only when a file changed | what is reported as on is on, with abstrax's configuration | automatic updates modelled in `Upkeep`; other packages are `apt`/`dnf` and keep no state of abstrax |
| `services/config` | `config.json` | Set, Add, Remove, Reset | a torn file; defaults against stored values | a command changes its own setting only | modelled in `Upkeep` |
| `services/cache` | the configuration of memcached, redis or valkey, and what the server has read | Install, Remove, Start, Stop, Restart | the restart after a change fails | the server goes on running with what its file says, until an install reports an error | modelled in `Upkeep`, one driver at a time |
| `services/serverinfo` | a reboot that was asked for | Reboot; timezone, information | – | – | Reboot modelled in `Upkeep`; the timezone is one program |
| `services/plugin` | the plugin's program, its record, the metadata cache, kept answers of the registry | Install (registry, manifest, local), Update, Remove, Info, dispatch | kills between program and record; two installs at once; a stale registry answer | a path never holds half a program; a success leaves a record of the program in place and metadata that came from it | modelled in `Programs`; Search and List are reports |
| `services/selfupdate` | the program at its own path | Update | copy across file systems; releases read twice | it only goes forward | modelled in `Programs` |
| `services/svcmanager`, `services/web` | – | start, stop, restart, enable a unit; install nginx | – | – | the units' changes are steps of `Upkeep` and `Mysql`; the rest is not modelled: one program per command |
| `exec` | – | Run, RunSilent, with `--dry-run` | – | what is skipped under `--dry-run` | inside every step of `Project` that runs a program |
| `platform` | – | detection, paths | – | – | the nginx layout is a constant |
| `cli`, `actions` | – | flags, confirmation, dispatch of plugins | – | – | the flags that matter are arguments of the actions; the order in which `package auto-updates`, `config` and the rest call their service is in `Host` and `Programs` |
| `output`, `validate`, `identity`, `random`, `confirm`, `session`, `globals`, `version` | – | parsing, printing | – | – | not modelled: no state |

Interactions. `cli` parses flags and calls one service. `ssl` calls
`project.RenderVhost` and writes the project's state file. `project` removes a
certificate on request and asks `ensureRuntime` for packages. `sshcfg.SetPort`
is handed the firewall as an interface and opens the new port through it;
`firewall` reads sshd's port through `sshcfg.SSHPort` and the client's address
through `session`. `mysql` only prints which port to open. `user.Remove` reads the
files of `cron` and `daemon` and the table of processes; `cron.Run` looks up
accounts. A reboot makes systemd, mysqld and the cache servers read their files
again. `cli` runs a plugin's program for a command it does not know. All share the runner
of `exec`, which skips mutating programs under `--dry-run`; files are written
directly, so each command has to look at the flag itself.

## 2. Modules

| Module | What it is |
|---|---|
| `VhostFiles` | The vhost of one project as three facts on disk, and the helpers of `project/service.go` as operators on them |
| `Project` | One project under all its commands, step by step, with failures, crashes and other reloads of nginx |
| `MCProject` | Sets of commands and failures for the `.cfg` files |
| `ProjectProofs` | Theorems about `Project`: types, pools, `runtime set` undone |
| `ProjectFilesProofs` | Theorems about its vhost files at every step: pools, certificates, `--dry-run` |
| `ProjectSettledProofs` | Theorems about its files and nginx between commands |
| `Lists` | What a loop that drops elements of a list leaves (rules, Port lines, hosts, authorized keys) |
| `ListsProofs` | Lemmas about `Lists`, for every list |
| `SshGuard` | The firewall's SSH lockout check as operators on lists of rules, and what ufw and firewalld do with such a list |
| `SshAccess` | Firewall and sshd under the commands that change either, step by step, with failures, crashes and reboots |
| `MCSshAccess` | Sets of ports, commands and failures for the `.cfg` files |
| `SshGuardProofs` | Theorems about the check and about `SshAccess` |
| `Mysql` | The database server, its accounts and remote access under every command that changes them |
| `MCMysql` | Sets of commands and failures for the `.cfg` files |
| `MysqlProofs` | Theorems about `Mysql`, one for each of its properties |
| `Accounts`, `Jobs`, `Upkeep` | Accounts, keys and sessions; cron jobs and daemons; updates, settings, caches and reboots. Each extends the one before, since later parts look at earlier ones |
| `Host` | The machine: the commands of these three, what people and jobs do meanwhile, fairness and properties |
| `HostProofs` | Theorems about `Host`, one for each of its safety properties |
| `MCHost` | Scopes and failing steps for the `.cfg` files |
| `Replacement` | What replacing a program promises (abstract) |
| `Programs` | Plugins and self update by several processes, step by step; implements `Replacement` |
| `MCPrograms` | Versions and failures for the `.cfg` file |
| `ProgramsProofs` | Theorems about `Programs`, the refinement among them |

### 2.1 VhostFiles

`[active, off, link]` stands for `abstrax-<name>` (in `sites-available`, or in
`conf.d`), `abstrax-<name>.disabled` and the symlink in `sites-enabled`. The
constant `Layout` is `platform.NginxLayout`. `WriteActive`, `EnableFile`,
`DisableFile`, `DeleteFiles`, `Snapshot`, `RestoreFiles` are `writeNginxVhost`'s
write, `enableVhostFile`, `disableVhostFile`, `deleteVhostFiles`,
`snapshotVhost`, `restoreVhost`. The snapshot keeps what the code keeps: the
`.disabled` copy on `conf.d`, the link on `sites`; that this is enough is one of
the theorems. `Served` and `Dangling` say what nginx sees.

### 2.2 Project

State:

| Variable | Code |
|---|---|
| `saved` | the state file: a state, `Torn` (it does not parse), `NoState` |
| `files` | the vhost files |
| `pools` | the versions whose `pool.d` holds this project's pool |
| `cert` | certbot holds the certificate |
| `live` | the vhost in nginx's running configuration |
| `pc`, `cmd`, `dry`, `cur`, `next`, `snap`, `newPool` | the running process: its next step, the command, the flag, the state it loaded, the state it will save, `vhostSnapshot`, the pool it made |
| `begin`, `outcome` | history, for properties only |

A project state is reduced to what other files depend on: whether there is a
vhost (`VhostPath`), whether it is off (`VhostDisabled`), user isolation, the
runtime (PHP, or one without a pool), the PHP version, the version named by
`PHPSocketPath`, TLS, the recorded certificate name, and `rev`, one value for
every other setting that appears in a vhost (domains, redirects, root, proxy
port). `Render` is `buildNginxConfig`: which of them a vhost depends on.

Every command starts with one of `Add`, `Modify`, `RuntimeSet`, `Redirect`,
`AddVhost`, `RemoveVhost`, `Enable`, `Disable`, `Remove`, `SslAdd`, `SslRemove`:
it loads the state, computes the one it wants and goes to its first change.
The changes are shared, as in the code:

    EnsureRuntime -> CreatePool -> WriteVhost -> EnableVhost -> TestVhost
      -> TurnOffVhost | ReloadVhost -> SaveState -> RemoveOldPool | Activate
    failure: RestoreFiles, UndoPool, Undo, sslNote, sslPutback, Exit("error")
    removal: Unlink -> Unload -> DropPool -> DeleteState | SaveState
    ssl:     IssueCert -> WriteVhost ...      Preview -> WriteVhost -> DeleteCert

`sslNote` and `sslPutback` are the tails of `ssl.Add` (record why the vhost
failed) and `ssl.Remove` (put HTTPS back when certbot could not delete).

Failure is a constant: `FaultKinds` lists the kinds of step that may fail.
"write" is a vhost file, or a link that could not be touched, "link" the new link
after the old one was removed (`enableVhostFile` removes before it links), "nginx"
a test that fails for another site's sake, "save" the state file (left as it was or truncated), "poolfile" a pool
file written in part, "resave" a rollback's own save. The steps that the model
always lets fail are those nginx refuses for this vhost's sake: a dangling link,
a certificate that is gone, a torn file. `CrashIn` lists the commands that may be
killed, between two steps or inside a write (the state file and the vhost are
then torn, or the link is gone). `OtherReload` is nginx reloaded by somebody
else.

Abstractions, beyond those above:

* One command at a time on a project (section 5).
* Restoring a vhost's snapshot is one step that succeeds, where the code
  ignores its errors. Removing a pool file, likewise.
* A version is installed or `ensureRuntime` fails; a version that is set again
  unchanged is the same version.
* Directories, log files, ownership and SELinux labels are left out, and so are
  `Reload`, `AdoptSSL`, `Renew`, `Status` and the migration of old state files.
* `Add` picks its domain set, root and so on as one `rev`; the redirects of a
  project are part of `rev` too.

### 2.3 SshGuard and SshAccess

A rule is an action, a port (or the service name, or none), a protocol and a
source. `SshReachable`, `InsertDeny`, `Without`, `HasSshAllow` are the code's
`sshTCPReachable`, `insertDenyBeforeAllows`, `withoutIndex` and its siblings,
`hasSSHAllowRule`. `UfwLets` and `FirewalldLets` are the firewalls themselves:
ufw takes the first rule that covers a packet, firewalld every deny before any
allow. The check reads one list for both, and the properties compare it with them.

| Variable | Code |
|---|---|
| `host` | the backend, the Port lines of `sshd_config`, whether `ssh.socket` is active |
| `fw` | `stored` (`--permanent`) and `run` rules, default policies, active or not; the two sets are always equal on ufw |
| `files` | Port lines of `00-abstrax.conf` (managed) and `99-abstrax.conf` (legacy), the socket drop-in |
| `listen` | the ports sshd really listens on, which is what `files` said at its last reload |
| `pc`, `job`, `todo`, `outcome` | the running command: next step, arguments and snapshot, firewall changes still to make, end |

`AllowFrom` and `DenyFrom` are the values of `--from`: anywhere, or one address.

A firewall command checks (`Guard` is `guardSSH`) and then makes a list of
changes, `Protect` (`ensureClientSSHAllow`) first; each is one `EditFirewall`,
and on firewalld one `ReloadFirewall` after it. `SetPort` is

    edit* -> label -> migrate -> ports -> dropIn -> restart -> banner
      (again from "ports" with the new port alone, if --close-old-port)
      -> closeFw -> edit*          failure: undo

"undo" restores the three files and reloads sshd. `Reboot` is a restart of the
machine: both read what is stored. Deviations: one command at a time; IPv4 only;
no port ranges, no outgoing rules; a rule that ufw finds with another action is
replaced where it stands, which is ufw's behaviour; `migrateLegacy` is one
step; `set-port`'s arguments are in range.

### 2.4 Mysql

| Variable | Code |
|---|---|
| `srv` | what the service runs: nothing, a normal server, one started with `--skip-grant-tables` ("open"), the same after `FLUSH PRIVILEGES` ("fenced"), and whether it accepts connections yet |
| `live`, `conf` | the address in use; the drop-in and what the other files bind to |
| `acct`, `grants`, `dbs` | the password of each user@host, grants, databases |
| `saved` | root's password in `mysql.json` |
| `cmd` | the running command, its next step, its arguments and the statements still to send |
| `apart`, `ran`, `tcpAs` | history for `PairAgrees`; the number of commands; which root account the server picks over TCP if there are two |

A user command is a list of statements (`UserHosts`, `AccountHosts`,
`OnTargets` decide for which hosts), each sent by a client of its own that logs
in again; the server refuses a statement that is not `Legal`. The others are
sequences:

    install: package -> ready -> connect -> sql* -> verify -> save
    reset:   stop -> launch -> ready -> connect -> sql* -> shutdown -> start -> verify -> save
                                  failure of a statement: abort
    enable:  write -> restart -> wait          disable: unlink -> restart -> wait -> confirm
                                  failure: undo -> undoRestart -> undoWait

`systemctl stop` and `start` act on the service's own process. A recovery server is
not one (`Recovery`): `StopRecovery` stops it, or the process that started it is
killed and it stays, holding socket and data; then no service starts beside it, and a
later reset ends with an error at "stop" or "launch".

Passwords are names; the privileges of a grant are one unit; `SHOW GRANTS` and
the other reports are left out, and so is the migration of an old TOML file.

### 2.5 Accounts, Jobs, Upkeep and Host

These commands are short: they read, change two or three things and end. So a
command is one action, `ok` says how it ended, and every step at which it may
stop, because a program fails or because it is killed, is a disjunct that says
what had been done by then (`StopsAt` names the steps): `user remove` that is killed
after `deluser`, for one, has removed the account and not yet the drop-in. What takes time is
several actions: a logout reads the sessions (`LogoutLists`), reads the processes
(`LogoutReadsProcesses`) and then ends them (`LogoutEnds`), while people log in
and out; `cron run` starts a job and waits (`RunTimesOut`, `RunReturns`), while
the job starts processes and other commands run; `server reboot` returns and the
machine goes down later (`Boots`).

Files are kept as what their readers make of them: a cron file is the line cron
reads next to the definition abstrax reads, a supervisor file a program, and
`Torn` a file that was cut off. What a running program has read is state of its
own: `progs` (supervisord), `updates.unit` (systemd), `driver.live` (the cache
server).

`Host` adds `scope`, the set of commands an administrator of this machine runs,
and `last`, how the last command ended, for properties. `held`, history as well, is
the expiry date from before the first full lock, or "lost" where the code has lost it:
after a `--password-only` lock of an account locked in full, and for an account that
takes over the record of a removed one.

### 2.6 Replacement and Programs

`Replacement` says that the path of a program holds a complete program, a link
or nothing, and changes from one to another in one step. `Programs` shows how
the code gets there. Any number of processes run:

    install: plugin -> latest -> download -> verify -> unpack -> metadata -> replace -> record -> meta
             manifest -> download ...          local -> record -> meta
    update:  load -> plugin -> ...             remove: load -> unlink -> forget -> meta
    info:    load -> ask -> status             run:    find
    self:    list -> resolve -> download -> verify -> unpack -> replace
    replace: rename, or across file systems create -> copy -> renameNew

A file's content is the version of the program in it; `Partial` is a copy that
is not finished, `Junk` a download that is something else. The constant `Reports` is the
version a published program says it is, which need not be the one it was published
as: the record holds the latter (`NewRecord`), the metadata cache the former
(`Metadata`, read before the program is put in place; `FetchMetadata`), and
`ValidateMetadata` compares only names. In the run version 2 says it is 3. The registry's
answers are kept for a while (`Answers`, `CacheExpires`), or not, if that write
fails; releases appear
(`Released`) and the registry blocks a plugin (`RegistryChanges`) at any time. The
processes know nothing of each other: the new file next to the path has the
process id in its name (`near`), record and metadata cache have not.
`Atomic!Spec` with `Targets` and `Complete` from `Programs` is the refinement;
the variable `dest` maps to itself, and every step but three is a stutter.

## 3. Runs

In the project and ssh runs all bounds are on the constants; the number of
commands is not bounded, and the state space is explored completely. One project
is enough: commands on another project share nothing with it but nginx, whose
reloads are `OtherReload`, and whose faults in the shared test are the fault
"nginx". Two PHP versions are what a change of version needs (a third would add
only changes the first two already show, as no step looks at more than the old
and the new one). Two values of `rev` tell "the new settings" from "the old".

The other runs bound the number of commands, `MaxCommands`, and stop there, which
is why they do not check deadlock. Commands are where the state comes from, so
the bound is the length of the story:

* four in `mysql`: `install` and three more, as in add a user, grant, revoke on
  one host, or enable remote access, fail, disable;
* three in `host`: what is made, what happens to it, and the command asked
  about; every scope has a machine with and without accounts to begin with
  (`StartsAsNeeded` leaves out first states that no command of the scope reads).
  Two users tell the owner from somebody else, two logins let a terminal change
  hands once, and two supervisor files are what a failed command on one program and a
successful one on the other need;
* two in `programs`, the two processes at once, or one after the other. The first
  state may already have a plugin that was blocked since. Three versions, two of
  them of one major version, are what "compatible" needs. The processes are
  interchangeable and only safety is checked, so is the symmetry on them.

| Run | Question | Layout, bounds | Failures |
|---|---|---|---|
| `project_pools` | Does anything leave a state file or an enabled vhost naming a pool that is gone? Do the redirect commands and `runtime set` honour `--dry-run`? | conf.d, 2 versions, 1 rev; all but TLS | every failure but "delete"; every command but `remove` killed anywhere |
| `project_set_runtime` | Is a failed `runtime set` undone? | sites, 2 versions | all but "poolfile" and "resave"; every command killed anywhere |
| `project_tls` | Does an enabled vhost ever use a deleted certificate? | conf.d, 1 version; all but `runtime set` | all but "save"; `add`, `vhost add`, `ssl add`, `ssl remove` killed; foreign reloads |
| `project_settled` | Do state, files and nginx agree between commands? | sites, 1 version, 2 revs; all but redirect | "ensure", "pool", "write", "nginx", which the commands undo |
| `project_redirect_disabled` | Finding 1 | sites | none |
| `ssh_access` | Is the last way in to sshd ever closed? Is the new port open before sshd listens on it, the old one kept, a failed change undone? | both firewalls, with and without ssh.socket, 2 ports, 2 addresses, `--from` of allow the session's and of deny the other, or neither; 3 rules | all but a failing firewalld reload and a failing reload after a restore; killed anywhere but between a change of firewalld and its reload |
| `ssh_stale_guard` | Finding 2 | as above | firewalld's reload |
| `mysql` | Do the two local accounts stay alike? Does a saved password work, does a reset stop its recovery server, does remote access end as the files say? | 1 user, 1 database, 2 passwords, 3 addresses, every `--host`; 4 commands | all but writing or removing the drop-in in an undo; killed at "sql", "connect", "save", "write", "restart", "shutdown" |
| `mysql_reset` | Finding 3 | 3 commands of install, reset, config set | none |
| `host` | Nine questions on accounts, sessions, jobs, daemons, updates, settings and caches, below | 2 users, 2 supervisor programs, 1 of everything else, 2 values; jobs whose child leaves the group; 8 scopes and that of keys; 3 commands | every step in `MostSteps` |
| `host_keys` | Finding 4 | 1 user, 2 keys; 3 commands | none |
| `programs` | Is a program ever half there? Does self update go forward? Does a success settle what failures left? | 2 processes, 3 versions, 2 commands | every step, killed anywhere |

In the ssh runs two ports are the old one and the new one, and the addresses are
that of the session and that of somebody else, who may be denied (`DenyIps`).
`MaxRules` bounds the stored rules, with the session's protection among them:
three are an allow, a deny before or after it, and the rule being added. The
theorems of `SshGuardProofs` hold for every `MaxRules`. `set-port` is given `--allow-firewall`:
without it the code changes no rule and says so.

What each run leaves out is what its property does not survive in the code, and
`PROJECT.json` lists every such case as a hazard with its line:

* "delete", and killing `remove`: `Remove` drops the pool before the state
  file, so a `remove` that stops there leaves a state naming a pool that is gone.
* "save" in `project_settled`: `Modify`, the redirects, `Enable`, `Disable` and
  `ssl add` rewrite the vhost before they save and do not undo it.
* "save" in `project_tls`: `ssl remove` deletes the certificate before it saves,
  and a state that still says HTTPS is rendered by later commands. (It is nginx's
  own test that catches this after a crash of `ssl remove`, in the
  same run.)
* "poolfile" and "resave" in `project_set_runtime`: a pool that is written in
  part is nobody's to remove, and a rollback whose own write fails has not rolled
  back.
* `--dry-run` is given only to the commands that look at it.
* A failing or interrupted firewalld reload leaves stored and running rules apart,
  and the check reads the running ones (finding 2). A failing reload after a
  restore leaves sshd on ports that the check does not know.
* `NoLockout` says nothing of `deny-ip`, which has no check, nor of `--force`. The
  addresses of `deny --from` and `deny-ip` are others than those of `allow --from` and
  of the session: the check passes over a deny of one address and counts an
  allow of one (below).
* "link" in `project_settled`: an enable that fails after it has removed the link
  (below).
* In `ssh_access` nothing denies the new port before it is set: `set-port` does not
  check that its allow rule has an effect, and its banner check is local.
* "reload" in `host`: enabling automatic updates with dnf tells systemd to read
  its units only if a file changed. If that step fails, the next enable finds both
  files in place, skips it and reports success, while systemd runs the service as
  it was shipped.
* "getent" in `host`: a lookup that fails reads as "no expiry date", and unlock
  clears the date. "unlink" in `host`: `user remove` ignores that it could not
  delete the sudoers drop-in.
* `RunEnds` excepts a run that waits for a process which left the job's group, and
  `UnlockRestores` a date that is "lost" (below).
* `RuleGoesWithAccount` excepts a `user remove` that is killed after `deluser`: the
  rule stays, and a second `user remove` finds no such user.
* `RecoveryStopped` excepts a recovery server that could not be stopped, one that was
  too slow to answer (`startRecoveryMysqld` returns without stopping it), and one that
  an earlier, killed reset left.
* "write" and "unlink" in `mysql`: an undo that cannot write the drop-in leaves
  it as it is.
* `SuccessSettles` is about commands that had the files to themselves: with two
  installs at once the code leaves the program of one and the record of the other.

Disagreements without a run of their own. The models show the following as well; each
is excepted by the property that it would break, in a comment beside it:

* `project enable` of an enabled project loses the link if `os.Symlink` fails
  (`service.go:550-552`), and nothing undoes that: the state says enabled, nginx runs
  the vhost until its next reload and not afterwards. `types.go:129`: "False or absent
  means the vhost is enabled whenever VhostPath is set."
* `firewall allow 22 --from a`, `enable`, `deny 22 --from a` locks everybody out:
  `sshTCPReachable` passes over the deny, which names an address, and counts the allow.
  The repository's README.md:168 has no such exception.
* `mysql revoke` without `--host` revokes at localhost and 127.0.0.1 only, while its
  help says "default: all hosts the user exists on" (`cli/mysql.go:832`).
* A `mysql reset-root-password` that is killed leaves a server without passwords that
  `systemctl stop` does not stop, so that every later reset fails.
* `mysql remote disable` that cannot confirm the address reports an error and leaves
  the drop-in removed (`remote.go:119-137`); only a failed restart puts it back.
* `user unlock` "restores the expiry from before the lock" (README.md:240), but not
  after a `--password-only` lock in between, and a new account gets the date of the
  removed one of its name.
* `cron run` "kills the process group and exits 124" (README.md:197), but waits
  for as long as a child that left the group holds the job's output (`run.go:184`).
* `cache install` restarts the server only if `--port`, `--bind` or `--memory` is
  given (`cache/service.go:91`). `--bind` has a default, so it is given unless it is
  set to "": then an install after a failed restart succeeds and leaves the server with
  its old settings.
* A plugin's record and its cached metadata may name two versions, as in the
  repository's `TestE2EPluginInstallAndHello`.

Some things the code does are in the models without a property, because no
relation the code keeps is at stake: `config add` to `approved_roots` panics
where there are none (`ConfigAdd` fails and changes nothing); `project modify
--php-version` changes the version from which the path of the pool is computed
and leaves the pool, so a later `runtime set` does not remove it; `project add
--dry-run` writes everything; `set-port --dry-run` writes the Port lines; on ufw
a deny of SSH that was let through while the firewall was inactive comes before
the rule that `enable --allow-ssh` appends; `user remove` leaves the
account's record in `user-locks.json`.

### Properties

* `RecordedPoolExists`, `ServedPoolExists`: the pool that the state file, or the
  enabled vhost, names is on disk at every step. They fail if `runtime set` drops
  the old pool before the vhost has left it, or rolls back the wrong one.
* `FailedRuntimeSetUndone`: `runtime set` that ends in an error leaves state
  file, vhost files and pools as they were at its start.
* `TlsHasCertificate`: an enabled vhost with HTTPS has its certificate.
* `VhostMatchesState`, `DisabledMatchesFiles`, `LiveMatchesFiles`,
  `NoDanglingLink`: what a finished command has brought into agreement.
* `DryRunChangesNothing`: an action property over every step under `--dry-run`.
* `NoLockout`: no step closes the last way in, where "way in" is judged by the
  firewall's own order of rules and by the ports sshd has open at that moment, and
  not by the check's simulation or the configured port.
* `OpenBeforeListen`, `OldPortKept`, `SetPortUndone`: the order in which `set-port`
  opens, moves, checks, closes and restores.
* `PairAgrees`, `PasswordChanged`, `RevokedLocally`: what the commands on one or
  all hosts of a user leave, one client per statement.
* `SavedPasswordWorks`, `InstallSecures`, `RecoveryStopped`: root's password, and the
  server without passwords on every way out of a reset.
* `DisabledIsLocal`, `RemoteSettled`, `DisabledOrRestored`: remote access. A disable
  that reports an error is not half done: the drop-in is there as before, or it is gone
  and the server has restarted without it.
* `RuleGoesWithAccount`, `UnlockRestores`, `LogoutSparesOthers`: the next account of a
  name finds a sudo rule only if a `user remove` was killed; a full lock, however often
  repeated, is undone by one unlock; a logout does not end somebody who has taken
  the terminal over.
* `ProgramsMatchFiles`, `UpdatesAsReported`: after a success the running program
  has what the files say, whatever earlier failures left, files of other programs
  included. `CacheKeepsUp`: a cache server and its file come apart in no step but an
  install that reports an error.
* `OtherSettingsStay`: defaults, stored values and torn files do not mix.
* `RunEnds`: a `cron run` with a timeout comes to an end, or a process that left the
  group of its job is still there.
* `AlwaysComplete` (the refinement), `UpdatesForward` (relative to the version that
  runs the update), `SuccessSettles`: programs.

All but `RunEnds` are safety properties. What a process does next is fixed by its
code and it may be killed at any step, so most of the code promises nothing about
what must eventually happen, only about what it leaves behind. `cron run` does
promise: `RunEnds` assumes weak fairness of `TimesOut` (a timer that is due
fires) and of `Returns` (`Wait` returns once the job is gone and nobody holds its
output); nothing is assumed of the job.

### Findings

1. `project_redirect_disabled`: a redirect added to a disabled project enables
   its vhost, while the state still says disabled. `applyRedirects` calls
   `createNginxVhost`, which does not keep a vhost disabled; `RenderVhost` does,
   and says so.
2. `ssh_stale_guard`: on firewalld a removal whose reload fails is in the stored
   rules and not in the running ones. The next removal is checked against the
   latter, passes, and its reload closes SSH.
3. `mysql_reset`: `reset-root-password` with a new password fails on a server that
   `mysql install` has secured. `CREATE USER IF NOT EXISTS` leaves the account for
   127.0.0.1 as it is, so root has two passwords and the login over TCP never
   succeeds.
4. `host_keys`: `ssh-key remove --force` of a key without a marker reports success
   and leaves the key. It is found by its fingerprint and taken out by an id that
   only markers have.

## 4. Proofs

`ProjectProofs` proves for every layout, every set of versions, revisions,
commands, failures and crashes, unless said otherwise:

* `TypedInvariant`: `Spec => [](TypeOK /\ VersionsKept)`. Types alone are not
  inductive: the pool that `CreatePool` adds is a version and not the "no version"
  marker only because a PHP project has a version, which `Modify` and
  `SetRuntime` see to (`VersionsKept`).
* `RecordedPoolsExist`: `Spec => []RecordedPoolExists`, assuming
  `RemoveCompletes` (no failure "delete", `remove` is not killed: section 3). The
  invariant is `PoolInv`: the process holds only states whose pools exist;
  the pool it made itself is not the stored one, so undoing it loses nothing; while
  `add` and `runtime set` run, the stored state is the one they loaded until they
  save; and the old pool is dropped only after a state that names another one has
  been saved.
* `FailedRuntimeSetIsUndone`: `Spec => FailedRuntimeSetUndone`, assuming
  `RollbackWrites` (no failures "poolfile" and "resave"). The invariant is
  `UndoInv`: at each step of `runtime set`, what the disk holds as a function of
  what it held at the start. Crashes are allowed, in every command.
* `RestoreUndoesRewrite`: for every vhost and both layouts, restoring the
  snapshot after the write, after enabling and after disabling gives back the
  files; on this rests the theorem above.

`ProjectFilesProofs` goes on to what the files hold at every step:

* `ServedPoolsExist`: `Spec => []ServedPoolExists`, assuming `RemoveCompletes`
  too. While a vhost is rewritten the files hold the new rendering and nothing
  else (`RewriteInv`). `ServedInv` says that this, the snapshot a failure restores
  and the vhost found at the start of `runtime set` all name pools that are
  there, and that the old pool goes only once the files hold the new rendering alone.
* `TlsHasItsCertificate`: `Spec => []TlsHasCertificate`, assuming
  `TestedBeforeKilled` (`modify`, redirect and `runtime set`, which write HTTPS
  without having asked certbot for it, are not killed) and `DryHonoured`. `TlsInv`
  says that outside the steps between a rewrite and its test the files hold no
  HTTPS without a certificate, nor does any snapshot, and that certbot is
  asked to delete the certificate only when no file uses it.
* `DryRunsChangeNothing`: `Spec => DryRunChangesNothing`, assuming `DryHonoured`
  (the flag is given to the commands that look at it, those of `ssl` included) and
  that nobody else reloads nginx meanwhile. `DryInv` says which steps a dry command can reach.

`ProjectSettledProofs` assumes `Undisturbed`, the conditions of the run
`project_settled` for every constant: what fails is a step its command undoes,
nothing is killed, redirect (finding 1) is not run. An enable that loses its link
("link") is not such a step. `VhostsMatch`,
`DisabledMatches`, `NothingDangles` and `LiveIsSettled` follow from one
invariant, which says at each step how far files and nginx are from the
stored state and from the next one, and that undoing from there returns to the former;
`LiveIsSettled` adds that nobody else reloads nginx.

`PoolInv`, `UndoInv` and the invariants of the other two modules were checked with
TLC on the instances above before they were proved. The proofs reduce the eleven starts and twenty steps to a few shapes
(`StartShape`, `StepShape`, `FileStepShape`) and argue about those. The
assumptions on constants are `ProjectAssumption` (the constants are what their
comments say, and a set of versions without the marker) and `SentinelAssumption`
(the markers for absent and torn files are no contents); TLC evaluates both.

Every property of `Project` is thus proved, each under the conditions that its
run also has. Torn files have no contents that look like a configuration
(`SentinelAssumption`).

`SshGuardProofs` proves, for every list of rules:

* `AcceptedDenySparesSsh`: a deny that passes the check is not about sshd's port.
  The simulated list has the deny before every allow (`InsertDenyShape`), so a
  deny that matched would be met first.
* `AcceptedDenyKeepsAccess`: such a deny takes nobody's access to sshd away, under
  either firewall, appended or replacing a rule in place.
* `AcceptedRulesLetIn`: a list that passes lets some address in under ufw, if no
  deny names an address or leaves the port out. The hypothesis is the limit of the
  check: `sshTCPReachable` passes over exactly those denies.

and, for any number of ports, addresses and rules and every combination of failures
and kills, of `SshAccess`:

* `AccessTyped`: `Spec => []TypeOK`, assuming `MainDistinct` (`sshd_config` and
  the old drop-in have no port twice). Types need two facts that are not types: no
  Port line is written twice (`Distinct`, so that lists of ports are bounded), and
  every pending rule has room under `MaxRules` (`Room`).
* `PortUndone`: `Spec => SetPortUndone`, with no further assumption. The invariant
  `Snapped` says that until the first write the files are the snapshot, which the undo
  restores from there on, and that no change of the firewall on the way touches it.
* `OldPortStays`: `Spec => OldPortKept`, assuming `SocketFollows`. `Remembers`
  ties the ports of the job to the files, `SocketTidy` says that the socket's
  drop-in, if there is one, names the ports of the managed file. The proof
  showed what the run with two ports does not: a set-port killed
  between the managed file and the socket drop-in (or run with
  `--dry-run`, which writes the former only) leaves them different, and on a
  machine with three ports the next set-port moves the socket away from a
  port that the managed file lists. So the theorem is about
  machines without `ssh.socket`, or where this did not happen.
* `OpensFirst`: `Spec => OpenBeforeListen`, assuming `NewPortsFree` (nothing is
  asked to deny a new port, and not every address may be denied). `RulesKnown`
  says which rules can be stored at all, so that an allow of the new port has an
  effect wherever it stands; `Opened` that the rule for the new port is the last change the command makes
  to the firewall, and is in use from there to the restart. Failing edits and reloads are
  allowed: a set-port whose firewall step failed does not reach the restart.
* `NeverLockedOut`: `Spec => NoLockout`, assuming `LockoutScope`: the conditions of
  the run `ssh_access`, and no kill between a write of sshd's files and the restart.
  Among them: some address is denied by nobody, and none that is denied is one that
  an allow names or the session comes from.
  Its invariant `Safe` adds to the above what makes the check's view the true one. The
  running rules are the stored ones (`Synced`), sshd listens on what its files say
  (`Heard`), under firewalld no rule denies sshd's port to everybody (`NoSshDeny`:
  there the order that the check looks at says nothing), and each pending change was
  checked against rules that the changes made since then have not spoiled (`Agenda`). So
  whatever an edit or its reload brings into use either adds to what was let in, or
  leaves rules that let somebody in on sshd's first port, whatever the policy is
  (`ReachableFirm`, `DenySeen`, `AllowMonotone`, `EditSafe`). The check reads
  that one port, and the proof shows why the kill has to be excluded. On a machine
  with `ssh.socket`, Port 22 in `sshd_config` and Port 2200 in the old drop-in, a
  set-port killed before its restart leaves 22 in use until the next reboot and not
  afterwards. With 2222 closed by a checked removal, and 2200 denied while the
  firewall was off, 22 alone lets somebody in, and the reboot ends that. TLC finds
  these steps with three ports, of which 2200 may be denied; the run has two.

The assumptions on constants are in `AccessAssumption`: a finite set of ports and
room for at least one rule among them. `ListsProofs` has what loops over lists
return (`Kept`), for every list; since the library's induction needs operators as
parameters, the lemmas are proved by the least counterexample.

`MysqlProofs` proves every property of `Mysql`, for any number of users,
databases, passwords, hosts and commands:

* `MysqlTyped`: `Spec => []TypeOK`, with the types of pending statements (`TypeInv`).
* `RemoteSettles`, `DisableConfirmed`, `DisableIsWhole`: remote access. `Restarted`
  says when the address in use is the one the files name, `Restored` that the drop-in
  is back while the server restarts in a rollback. Only `DisableIsWhole` assumes
  something: that the drop-in can be written (`"write" \notin FaultKinds`).
* `RecoveryEnds`: `Recovering` says which server a reset finds at the steps after
  it has stopped the service; `SavedWorks`: `Verified`; `InstallIsSecure`: `Secured`, about the
  statements on root that are still pending.
* `PasswordsChange`, `RevokesLocally`: `Changed` and `Revoked` say that every
  account or grant concerned either has been dealt with or has a statement
  pending.
* `LocalPairAgrees`: `Spec => []PairAgrees`. Between the two statements on a user's
  accounts the two differ, so the invariant (`PairInv`) is about what they will be
  once the pending statements have run (`WillAcct`, `WillGrant`).

`ProgramsProofs` proves, for any number of processes, commands and versions and
every combination of failures and kills:

* `TypeCorrect`: `Spec => []TypeOK`.
* `StaysComplete`: `Spec => AlwaysComplete`, the refinement of `Replacement`. The
  invariant is `IInv`: types, and for every process `Sound`, which says for each
  point of a command what its download and its new file hold. From the checksum on
  the download is the version that was asked for, and at the last rename so is the
  copy. That no process touches another's files is what makes the invariant
  carry over (`OneMoves`), and a copy at the path itself, or under a name that
  two processes share, would break it.
* `GoesForward`: `Spec => UpdatesForward`, from the same invariant. While it
  fetches, a self update holds a version that `ResolveVersion` chose, and
  `ResolvesForward` says what those are like.

* `SuccessIsSettled`: `Spec => SuccessSettles`, about commands that had the files to
  themselves. `IInv` does not look at the files of the plugin, so the invariant
  `Undisturbed` does: a command that is alone has every other process idle, and at
  each point still finds what it has written (`StillThere`): the program when it
  saves the record, program and record when it updates the metadata, neither when
  it removes the entry. `OnItsWay` says which commands reach which point, and with it
  `Finishes` shows that only the last write of a command can report
  success. A command that begins takes `alone` from the others, and one that
  moves shows that nobody else had it (`OthersWait`), so each action is
  argued about for its own process only.

`ProgramsAssumption` is that versions are positive numbers, that any set of
releases has a newest one, and that the markers are neither versions nor
records.

`HostProofs` proves the safety properties of `Host`, for any number of users, jobs,
programs, sessions and commands. Three assume that one step does not fail;
section 3 says what becomes of the property when it does:

* `NoRuleIsLeftBehind`: `Spec => RuleGoesWithAccount`, if the file of a drop-in can
  be removed (`RulesCanGo`).
* `UnlockGivesDateBack`: `Spec => UnlockRestores`, if getent answers
  (`DatesAreSeen`). The property is about the account, which a second lock finds
  with the date of the first one; so the invariant is about the record.
  `HeldInRecord` says that the date from before the first full lock, unless it is
  lost, is in the record of a full lock. `LockKeepsDate` shows that a further lock carries it over, also one
  that stops before it has changed the account.
* `ReportsAboutUpdatesHold`: `Spec => []UpdatesAsReported`, if
  `systemctl daemon-reload` does not fail (`UnitsAreRead`). `UpdatesSound` adds what
  the reports rest on: a drop-in on disk has been read by systemd. It is why a
  command that finds its files unchanged need not reload, and false once a reload
  has failed.

The others assume nothing but the assumptions on constants:

* `TypeCorrect`: `Spec => []TypeOK`. `HostTyped` is the conjunction of the types of the
  parts, each preserved by the commands that touch it; the frame lemmas
  (`AccountFrame`, ..., `OtherFrames`) say that no other command does. The bound of
  `authorized_keys` needs what the loop of `Remove` leaves (`KeptShape` in
  `ListsProofs`), and a job's line its definition, since every write of a job
  makes both from the same job (`NewJob`).
* `LogoutIsSelective`: `Spec => LogoutSparesOthers`. A logout reads the sessions,
  then the processes, then ends what it found, and people log in and out in between.
  `SessionsSound` says that a session it picked is, as long as the same id is
  at that seat, a login of its user. A new login keeps this because its id is larger than
  every id picked before (`logins`).
* `CachesKeepUp`: `Spec => CacheKeepsUp`, by the effect of each step on a
  server in step with its file.
* `ProgramsFollowFiles`, `OthersKeepTheirValue`: what a command that reports success
  has brought about, from any state the types allow, hence whatever earlier commands
  left half-done. `CommandOf` finds the command a report is about. In
  `OthersKeepTheirValue` the case to get right is a `config reset` that leaves no
  setting stored: the file is deleted, and the defaults that apply from there
  on are the ones that were effective before.

They rest on `AccountsAssumption`, `JobsAssumption`, `UpkeepAssumption` and
`HostAssumption`: no marker is a date, a record, a program, a configuration or a
set of settings, and scopes are sets of commands. The invariants were checked with
TLC on the instance of the run `host` before they were proved, as was
`Undisturbed` on that of `programs`.

Every safety property of every passing run thus has a theorem. With TLC alone stay
`RunEnds`, because liveness under fairness and ENABLED are out of this prover's
reach, and the runs that expect a violation.

## 5. Not modelled, and what could follow

* Two commands on one project, or `ssl renew` next to one. Nothing locks a
  project, so of two commands each can save its own state over the other's files;
  no relation between the files of section 2.2 survives that, and there is no
  property to check. The same holds for two firewall commands at once.
* Reports: `status`, `list`, `info`, `search`, `doctor` read and print.
* Parsing and validation (`validate`, path validation of projects,
  `authorized_keys` options, SQL quoting): functions of one string, which the
  repository's unit tests cover and a model would repeat letter by letter.
* Directories, ownership, SELinux labels of projects; packages other than the
  backend of automatic updates; timezone; nginx's installation: one program or
  one system call each, whose failure ends the command.
