------------------------------ MODULE Accounts ------------------------------
(***************************************************************************)
(* System accounts (internal/services/user), their authorized_keys         *)
(* (internal/services/sshkey) and their login sessions.                    *)
(*                                                                         *)
(* A command on an account is one action: ok says how it ended, and every  *)
(* step it may stop at, because a program fails or because the process is  *)
(* killed, is a disjunct with what was done by then.  A logout reads the   *)
(* sessions first and ends them later, and people log in and out between.  *)
(***************************************************************************)
EXTENDS Naturals, Sequences, Lists

CONSTANTS
  Users, Dates, Keys, KeyIds,
  None,       \* no expiry date, no record, nobody
  Blocked,    \* the expiry date with which Lock expires an account
  Unmanaged,  \* the id of a key without a marker: line-<n>
  StopsAt,    \* the steps at which a command may stop
  MaxLogins,  \* bound on the number of logins
  MaxKeys     \* bound on the number of keys in a file

ASSUME AccountsAssumption ==
  /\ None \notin Users \cup Dates /\ Blocked \notin Dates \cup {None}
  /\ None \notin [pwOnly : BOOLEAN, expiry : Dates \cup {None}]
  /\ Unmanaged \notin KeyIds
  /\ MaxLogins \in Nat /\ MaxKeys \in Nat

VARIABLES
  acc,     \* the accounts: there, password locked, expiry date, sudo group
  dropIn,  \* users with a passwordless sudoers drop-in
  locks,   \* user-locks.json: a record for each user, or torn
  held,    \* the expiry date an account had before it was locked in full;
           \* "none" if it was not, "lost" if the record is not of that lock
  file,    \* authorized_keys of each home directory
  sess,    \* who is logged in where
  logins,  \* number of logins so far
  out      \* the logout under way

accountVars == <<acc, dropIn, locks, held>>
sessionVars == <<sess, logins, out>>

Stops(step) == step \in StopsAt

NoAccount == [on |-> FALSE, locked |-> FALSE, expire |-> None, sudo |-> FALSE]
Fresh(sudo) == [on |-> TRUE, locked |-> FALSE, expire |-> None, sudo |-> sudo]
\* An account logind and who know of: a shell on a pty, a console, and the
\* user manager, which has no terminal.
Seats == {"pts/1", "tty1", "manager"}
Free == [user |-> None, id |-> 0]
NoLogout == [step |-> "none", user |-> None, how |-> "", picked |-> {}]

AccountsInit ==
  /\ acc \in [Users -> {Fresh(FALSE), NoAccount}]
  /\ dropIn = {} /\ held = [u \in Users |-> "none"]
  /\ locks = [torn |-> FALSE, of |-> [u \in Users |-> None]]
  /\ file = [u \in Users |-> <<>>]
  /\ sess = [s \in Seats |-> Free] /\ logins = 0 /\ out = NoLogout

-----------------------------------------------------------------------------
(* Accounts and sudo. *)

\* NOPASSWD for the user; visudo checks a copy first.
WriteDropIn(u) == dropIn' = dropIn \cup {u}
RemoveDropIn(u) == dropIn' = dropIn \ {u}

\* Add: an account that is there is left as it is, --grant-sudo or not.
Add(u, sudo, ok) ==
  /\ \/ acc[u].on /\ ok /\ UNCHANGED <<acc, dropIn>>
     \/ ~acc[u].on /\ ~ok /\ Stops("useradd") /\ UNCHANGED <<acc, dropIn>>
     \/ /\ ~acc[u].on
        /\ \/ ok /\ acc' = [acc EXCEPT ![u] = Fresh(sudo)]
              /\ (IF sudo THEN WriteDropIn(u) ELSE UNCHANGED dropIn)
           \/ ~ok /\ Stops("group") /\ acc' = [acc EXCEPT ![u] = Fresh(FALSE)]
              /\ UNCHANGED dropIn
           \/ ~ok /\ sudo /\ Stops("dropin") /\ acc' = [acc EXCEPT ![u] = Fresh(TRUE)]
              /\ UNCHANGED dropIn
  /\ UNCHANGED <<locks, held>>

GrantSudo(u, ok) ==
  /\ \/ ok /\ acc[u].on /\ acc' = [acc EXCEPT ![u].sudo = TRUE]
        /\ WriteDropIn(u)
     \/ ~ok /\ (~acc[u].on \/ Stops("group")) /\ UNCHANGED <<acc, dropIn>>
     \/ ~ok /\ acc[u].on /\ Stops("dropin") /\ acc' = [acc EXCEPT ![u].sudo = TRUE]
        /\ UNCHANGED dropIn
  /\ UNCHANGED <<locks, held>>

\* gpasswd fails if the user is not in the group; the drop-in then stays.
RevokeSudo(u, ok) ==
  /\ \/ ok /\ acc[u].sudo /\ acc' = [acc EXCEPT ![u].sudo = FALSE]
        /\ RemoveDropIn(u)
     \/ ~ok /\ (~acc[u].sudo \/ Stops("group")) /\ UNCHANGED <<acc, dropIn>>
     \/ ~ok /\ acc[u].sudo /\ Stops("unlink") /\ acc' = [acc EXCEPT ![u].sudo = FALSE]
        /\ UNCHANGED dropIn
  /\ UNCHANGED <<locks, held>>

\* SetGroups, AddGroups and RemoveGroups, of which the sudo group matters.
SetGroups(u, sudo, ok) ==
  /\ ok = acc[u].on
  /\ acc' = IF ok THEN [acc EXCEPT ![u].sudo = sudo] ELSE acc
  /\ UNCHANGED <<dropIn, locks, held>>

\* Mutant of Deleted: the drop-in of a removed account stays.
DeletedKeepingDropIn(u) == UNCHANGED dropIn /\ u \in Users
\* Remove deletes the drop-in as well, and does not mind if that fails.
Deleted(u) ==
  \/ RemoveDropIn(u)
  \/ Stops("unlink") /\ UNCHANGED dropIn

\* Remove, without the usage check.  The drop-in goes last, after deluser and
\* crontab -r: a process that is killed before leaves it without its account.
Delete(u, deleteHome, ok) ==
  /\ \/ /\ acc[u].on /\ acc' = [acc EXCEPT ![u] = NoAccount]
        /\ (ok /\ Deleted(u)) \/ (~ok /\ Stops("kill") /\ UNCHANGED dropIn)
        /\ file' = [file EXCEPT ![u] = IF deleteHome THEN <<>> ELSE @]
        /\ held' = [held EXCEPT ![u] = "none"]
     \/ ~ok /\ (~acc[u].on \/ Stops("deluser")) /\ UNCHANGED <<acc, dropIn, file, held>>
  /\ UNCHANGED locks

-----------------------------------------------------------------------------
(* Locking.  A full lock expires the account and notes its expiry date. *)

Record(u) == locks.of[u]
FullRecord(u) == Record(u) # None /\ ~Record(u).pwOnly

\* Mutant of LockRecord: the date of an earlier lock is not carried over.
FreshRecord(u, seen, pwOnly) ==
  [pwOnly |-> pwOnly,
   expiry |-> IF ~pwOnly /\ seen \in Dates THEN seen ELSE None]
LockRecord(u, seen, pwOnly) ==
  [pwOnly |-> pwOnly,
   expiry |-> IF pwOnly THEN None
              ELSE IF seen \in Dates THEN seen
              ELSE IF FullRecord(u) THEN Record(u).expiry ELSE None]

\* writeLocks: a torn file does not parse, and no later command gets past it.
SaveLocks(records) == locks' = [locks EXCEPT !.of = records]
TearLocks == Stops("savelocks") /\ locks' = [locks EXCEPT !.torn = TRUE]

\* What Lock makes of held.  The record is not of the lock that expired the
\* account if a lock with --password-only replaced it, or if it already was there
\* (of an account since removed, or of a lock that failed) and no date was found.
Stale(u) == acc[u].expire = None /\ FullRecord(u)
Hold(u, pwOnly) ==
  IF acc[u].expire = Blocked THEN IF pwOnly THEN "lost" ELSE held[u]
  ELSE IF pwOnly THEN "none" ELSE IF Stale(u) THEN "lost" ELSE acc[u].expire

\* shadowExpire: no date is seen if getent fails.
ShadowExpire(u) == {acc[u].expire} \cup {e \in {None} : Stops("getent")}

Lock(u, pwOnly, ok) ==
  /\ \E seen \in ShadowExpire(u) :
     LET saved == [locks.of EXCEPT ![u] = LockRecord(u, seen, pwOnly)]
     IN  \/ /\ ok /\ ~locks.torn /\ acc[u].on
            /\ SaveLocks(saved)
            /\ acc' = [acc EXCEPT ![u].locked = TRUE,
                                  ![u].expire = IF pwOnly THEN @ ELSE Blocked]
            /\ held' = [held EXCEPT ![u] = Hold(u, pwOnly)]
         \/ /\ ~ok /\ ~locks.torn
            /\ \/ (~acc[u].on \/ Stops("usermod")) /\ SaveLocks(saved)
               \/ TearLocks
            /\ held' = [held EXCEPT ![u] = IF acc[u].expire = Blocked
                                           THEN Hold(u, pwOnly) ELSE "none"]
            /\ UNCHANGED acc
         \/ ~ok /\ locks.torn /\ UNCHANGED <<locks, acc, held>>
  /\ UNCHANGED dropIn

Unlock(u, ok) ==
  /\ LET expire == IF FullRecord(u) THEN Record(u).expiry
                   ELSE IF Record(u) = None THEN None ELSE acc[u].expire
         opened == [acc EXCEPT ![u].locked = FALSE, ![u].expire = expire]
     IN  \/ /\ ok /\ ~locks.torn /\ acc[u].on
            /\ acc' = opened /\ SaveLocks([locks.of EXCEPT ![u] = None])
            /\ held' = [held EXCEPT ![u] = "none"]
         \/ /\ ~ok /\ ~locks.torn
            /\ \/ (~acc[u].on \/ Stops("usermod")) /\ UNCHANGED <<acc, locks, held>>
               \/ /\ acc[u].on /\ acc' = opened
                  /\ held' = [held EXCEPT ![u] = "none"]
                  /\ (Stops("dellock") /\ UNCHANGED locks) \/ TearLocks
         \/ ~ok /\ locks.torn /\ UNCHANGED <<acc, locks, held>>
  /\ UNCHANGED dropIn

\* chage, by the administrator, on an account that is not locked.
SetExpiry(u, d) ==
  /\ acc[u].on /\ acc[u].expire \notin {Blocked, d}
  /\ acc' = [acc EXCEPT ![u].expire = d]
  /\ UNCHANGED <<dropIn, locks, held>>

-----------------------------------------------------------------------------
(* authorized_keys: a managed key is a marker with its id and a key line.  *)

Entry(id, k) == [id |-> id, key |-> k]

\* parseAuthorizedKeys: a key with or without a marker is known.
Known(u, k) == \E i \in 1..Len(file[u]) : file[u][i].key = k
\* A key that is there already is refused; --force appends it once more.
KeyAdd(u, id, k, force, ok) ==
  /\ Len(file[u]) < MaxKeys
  /\ \/ ok /\ acc[u].on /\ (force \/ ~Known(u, k))
        /\ file' = [file EXCEPT ![u] = Append(@, Entry(id, k))]
     \/ ~ok /\ (~acc[u].on \/ (Known(u, k) /\ ~force)) /\ UNCHANGED file

\* Only markers with the id are taken out, each with the line that follows.
RewriteWithout(keys, id) ==
  Kept(keys, {e \in Elems(keys) : e.id # id \/ e.id = Unmanaged})

\* Remove looks a key up by id or fingerprint, and takes it out by id.
Matching(keys, id, fingerprint) ==
  SelectSeq(keys, LAMBDA e : e.id = id \/ e.key = fingerprint)
KeyRemove(u, id, fingerprint, force, ok) ==
  LET found == Matching(file[u], id, fingerprint)
  IN  /\ ok = (found # <<>> /\ (Head(found).id # Unmanaged \/ force))
      /\ file' = IF ok THEN [file EXCEPT ![u] = RewriteWithout(@, id)] ELSE file

-----------------------------------------------------------------------------
(* Login sessions. *)

Here(s, u) == sess[s].user = u
LogsIn(u, s) ==
  /\ acc[u].on /\ sess[s] = Free /\ logins < MaxLogins
  /\ sess' = [sess EXCEPT ![s] = [user |-> u, id |-> logins + 1]]
  /\ logins' = logins + 1 /\ UNCHANGED out
LogsOut(s) ==
  /\ sess[s] # Free
  /\ sess' = [sess EXCEPT ![s] = Free] /\ UNCHANGED <<logins, out>>

\* sessionIsLogin.
IsLogin(how, s) == s = "pts/1" \/ (how = "loginctl" /\ s = "tty1")

\* listLoginSessions, selectSessions, filterLoginSessions: loginctl, or who
\* where there is no logind; who does not show the user manager.
Listed(how, u) == {s \in Seats : Here(s, u) /\ (how = "who" => s # "manager")}
\* One session, or "all": those that are not logins are left out.
Selected(how, u, which) ==
  {s \in Listed(how, u) : IsLogin(how, s) /\ which \in {"all", s}}
LogoutLists(u, how, which) ==
  /\ out = NoLogout
  /\ LET seats == Selected(how, u, which)
     IN  /\ seats # {}
         /\ out' = [step |-> IF how = "who" THEN "ps" ELSE "end", user |-> u,
                    how |-> how,
                    picked |-> {[seat |-> s, id |-> sess[s].id] : s \in seats}]
  /\ UNCHANGED <<sess, logins>>

\* Mutant of SshdPids: the process of whoever is on the terminal by now.
AnyonesPids(u, seats) == {[seat |-> s, id |-> sess[s].id] : s \in seats}
\* sshdPIDs: processes called "sshd: <user>@<tty>".
SshdPids(u, seats) ==
  {[seat |-> s, id |-> sess[s].id] : s \in {x \in seats : Here(x, u)}}

\* ps; a session without such a process is an error, and nothing is signalled.
LogoutReadsProcesses ==
  /\ out.step = "ps"
  /\ LET seats == {p.seat : p \in out.picked}
         pids  == SshdPids(out.user, seats)
     IN  out' = IF {p.seat : p \in pids} = seats
                THEN [out EXCEPT !.step = "end", !.picked = pids] ELSE NoLogout
  /\ UNCHANGED <<sess, logins>>

\* loginctl terminate-session, or kill -HUP and kill -KILL, of each one that is
\* still there; a failure does not stop the others.
LogoutEnds ==
  /\ out.step = "end"
  /\ sess' = [s \in Seats |-> IF \E p \in out.picked : p.seat = s /\ p.id = sess[s].id
                              THEN Free ELSE sess[s]]
  /\ out' = NoLogout /\ UNCHANGED logins
=============================================================================
