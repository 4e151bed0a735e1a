------------------------------ MODULE Accounts ------------------------------
(***************************************************************************)
(* AuthService, UserService and the staff of branches: logging in, with    *)
(* the counter of failed attempts that locks an account for a while, what  *)
(* administrators do to accounts, the passwords, and who is assigned to    *)
(* which branch.  A request reads, decides on the copy it read, and writes *)
(* and commits only the attributes it changed in the copy; other requests  *)
(* run between (READ COMMITTED, no locks asked for).  A password stands    *)
(* for its hash, a lock that is over is `past`.                            *)
(***************************************************************************)
EXTENDS Naturals, Sequences, FiniteSets

CONSTANTS
  Users, Branches,     \* the ids of accounts and of branches
  Seeded,              \* the accounts of the seed script
  Passwords,
  Lists,               \* the lists of users that a branch is assigned
  MAX_LOGIN_ATTEMPTS,
  Sessions,            \* requests that may run at the same time
  Kinds,               \* which requests are made
  MaxRequests          \* bound: requests ever made

ASSUME AccountsAssumption ==
  /\ Seeded \subseteq Users
  /\ Lists \subseteq Seq(Users)
  /\ MAX_LOGIN_ATTEMPTS \in Nat \ {0}
  /\ MaxRequests \in Nat

VARIABLES
  accounts,    \* the users table: the accounts of some users
  staff,       \* the user_branches table: rows with an id of their own
  session,     \* per session, what its request has still to do
  made,        \* requests made
  given,       \* the ids accounts have been given
  wrong,       \* history: per user, wrong passwords ever counted
  since,       \* history: those since the last login or unlock
  wanted,      \* history: per branch, whom the last assignments put there
  chosen,      \* history: per user, the password last set
  contended    \* history: users two requests logged in or unlocked at one time,
               \*   branches whose staff two requests changed at one time

tables == <<accounts, staff>>
ghosts == <<wrong, since, wanted, chosen, contended>>
vars   == <<tables, session, made, given, ghosts>>

Account ==
  [is_active : BOOLEAN, hashed_password : Passwords, failed_login_attempts : Nat,
   locked_until : {"null", "future", "past"}]

Fresh(active, password) ==
  [is_active |-> active, hashed_password |-> password, failed_login_attempts |-> 0,
   locked_until |-> "null"]

-----------------------------------------------------------------------------
(* Requests and sessions.                                                  *)

AccountRequests ==
  [kind : {"login"}, user : Users, password : Passwords]
    \cup [kind : {"register"}, user : Users \ given, active : BOOLEAN, password : Passwords]

\* A deactivation is an update with `active` FALSE.
AdminRequests ==
  [kind : {"unlock", "delete"}, user : Users]
    \cup [kind : {"update"}, user : Users, active : BOOLEAN]

\* A user changes the password, giving the current one; an administrator, or who
\* has the token of a reset, sets a new one.
PasswordRequests ==
  [kind : {"change"}, user : Users, password : Passwords, new : Passwords]
    \cup [kind : {"reset"}, user : Users, new : Passwords]

StaffRequests ==
  [kind : {"assign"}, branch : Branches, list : Lists]
    \cup [kind : {"remove"}, branch : Branches, user : Users]

Requests ==
  {r \in AccountRequests \cup AdminRequests \cup PasswordRequests \cup StaffRequests :
     r.kind \in Kinds}

(* `copy` is the account as read; `found` and `cleared` are the rows of the
   staff that a DELETE saw and those it has locked.                        *)
Begun(r) == [req |-> r, todo |-> "read", copy |-> {}, found |-> {}, cleared |-> {}]

Idle == [Begun([kind |-> "none"]) EXCEPT !.todo = "none"]

Busy(p)      == session[p].todo # "none"
At(p, op)    == session[p].todo = op
Others(p)    == {q \in Sessions \ {p} : Busy(q)}
Goto(p, s)   == session' = [session EXCEPT ![p] = s]
Exists(u)    == u \in DOMAIN accounts

\* The operators named <definition>_<fault> are the faults the runs are tried
\* against: each replaces the definition after it by a plausible mistake.

\* The handler raises before it has written anything.
Fail(p) == Goto(p, Idle) /\ UNCHANGED <<tables, ghosts>>

-----------------------------------------------------------------------------
(* Accounts.                                                               *)

\* verify_password.
Right(r, a) == r.password = a.hashed_password

\* get_current_active_user; no session ends when a password changes.
SignedIn(a) == a.is_active

MayGoOn_LockNotLooked(r, a) ==
  CASE r.kind = "login"  -> Right(r, a) => a.is_active
    [] r.kind = "change" -> SignedIn(a) /\ Right(r, a)
    [] OTHER             -> TRUE

\* A login looks at the lock before the password, and at is_active after it.
MayGoOn(r, a) ==
  CASE r.kind = "login"  -> a.locked_until # "future" /\ (Right(r, a) => a.is_active)
    [] r.kind = "change" -> SignedIn(a) /\ Right(r, a)
    [] OTHER             -> TRUE

ReadAccount(p) ==
  LET r == session[p].req
  IN /\ At(p, "read")
     /\ r.kind \in {"login", "unlock", "update", "delete", "change", "reset"}
     /\ IF Exists(r.user) /\ MayGoOn(r, accounts[r.user])
        THEN /\ Goto(p, [session[p] EXCEPT !.copy = accounts[r.user], !.todo = "write"])
             /\ UNCHANGED <<tables, ghosts>>
        ELSE Fail(p)

\* register_user looks for the name and the email before it inserts; names are
\* not modelled, either may be taken.
ReadNames(p) ==
  /\ At(p, "read")
  /\ session[p].req.kind = "register"
  /\ \/ Goto(p, [session[p] EXCEPT !.todo = "insert"]) /\ UNCHANGED <<tables, ghosts>>
     \/ Fail(p)

Counted_OneTooEarly(a) ==
  LET n == a.failed_login_attempts + 1
  IN [a EXCEPT !.failed_login_attempts = n,
               !.locked_until = IF n >= MAX_LOGIN_ATTEMPTS - 1 THEN "future" ELSE @]

\* One more wrong password: the copy is locked when there are enough of them,
\* also when a lock has just ended, which leaves the counter where it was.
Counted(a) ==
  LET n == a.failed_login_attempts + 1
  IN [a EXCEPT !.failed_login_attempts = n,
               !.locked_until = IF n >= MAX_LOGIN_ATTEMPTS THEN "future" ELSE @]

Released_KeepsCounter(a) == [a EXCEPT !.locked_until = "null"]

Released(a) == [a EXCEPT !.failed_login_attempts = 0, !.locked_until = "null"]

\* The copy as the handler of r leaves it; deactivation is an update.
Handled(r, a) ==
  CASE r.kind = "login" /\ ~ Right(r, a) -> Counted(a)
    [] r.kind = "login" /\ Right(r, a)   -> Released(a)
    [] r.kind = "unlock"                 -> Released(a)
    [] r.kind = "update"                 -> [a EXCEPT !.is_active = r.active]
    [] r.kind \in {"change", "reset"}    -> [a EXCEPT !.hashed_password = r.new]

SetsPassword(r) == r.kind \in {"change", "reset"}

Updated_WholeRow(r, now, copy) == Handled(r, copy)

\* An UPDATE sets the attributes in which the copy was changed; a new password
\* has another hash even if it is the old one.
Updated(r, now, copy) ==
  LET new == Handled(r, copy)
  IN [f \in DOMAIN now |->
        IF new[f] # copy[f] \/ (f = "hashed_password" /\ SetsPassword(r)) THEN new[f] ELSE now[f]]

WriteAccount(p) ==
  LET r == session[p].req
      u == r.user
      mistaken == r.kind = "login" /\ ~ Right(r, session[p].copy)
      released == r.kind \in {"login", "unlock"} /\ ~ mistaken
  IN /\ At(p, "write")
     /\ r.kind # "delete"
     /\ IF Exists(u)
        THEN /\ accounts' = [accounts EXCEPT ![u] = Updated(r, @, session[p].copy)]
             /\ chosen' = [chosen EXCEPT ![u] = IF SetsPassword(r) THEN r.new ELSE @]
             /\ wrong' = [wrong EXCEPT ![u] = IF mistaken THEN @ + 1 ELSE @]
             /\ since' = [since EXCEPT ![u] = IF mistaken THEN @ + 1
                                              ELSE IF released THEN 0 ELSE @]
             /\ Goto(p, Idle)
             /\ UNCHANGED <<staff, wanted, contended>>
        ELSE Fail(p)

\* The columns are UNIQUE: of two requests that found a name free one fails.
InsertAccount(p) ==
  /\ At(p, "insert")
  /\ \/ LET r == session[p].req
        IN /\ accounts' = [u \in DOMAIN accounts \cup {r.user} |->
                           IF u = r.user THEN Fresh(r.active, r.password) ELSE accounts[u]]
           /\ chosen' = [chosen EXCEPT ![r.user] = r.password]
           /\ Goto(p, Idle)
           /\ UNCHANGED <<staff, wrong, since, wanted, contended>>
     \/ Fail(p)

KeptStaff_All(u) == staff

\* ON DELETE CASCADE.
KeptStaff(u) == {row \in staff : row.user # u}

\* delete_user, and with the row the user's assignments.
DeleteAccount(p) ==
  LET u == session[p].req.user
  IN /\ At(p, "write")
     /\ session[p].req.kind = "delete"
     /\ accounts' = [v \in DOMAIN accounts \ {u} |-> accounts[v]]
     /\ staff' = KeptStaff(u)
     /\ wanted' = [b \in Branches |-> wanted[b] \ {u}]
     /\ Goto(p, Idle)
     /\ UNCHANGED <<wrong, since, chosen, contended>>

\* A user that transactions or customers refer to is not deleted.
DeleteRefused(p) ==
  /\ At(p, "write")
  /\ session[p].req.kind = "delete"
  /\ Fail(p)

\* ACCOUNT_LOCK_DURATION_MINUTES later.
LockPasses(u) ==
  /\ Exists(u)
  /\ accounts[u].locked_until = "future"
  /\ accounts' = [accounts EXCEPT ![u].locked_until = "past"]
  /\ UNCHANGED <<staff, session, made, given, ghosts>>

-----------------------------------------------------------------------------
(* The staff of a branch.                                                  *)

ToSet(list) == {list[n] : n \in DOMAIN list}

\* assign_users_to_branch wants users that are active.
ReadStaff(p) ==
  LET r == session[p].req
  IN /\ At(p, "read")
     /\ r.kind \in {"assign", "remove"}
     /\ IF r.kind = "assign" /\ \E u \in ToSet(r.list) : ~ Exists(u) \/ ~ accounts[u].is_active
        THEN Fail(p)
        ELSE /\ Goto(p, [session[p] EXCEPT !.todo = "delete"])
             /\ UNCHANGED <<tables, ghosts>>

Scope_Nobody(r) == {}

\* What the DELETE of r is about.
Scope(r) ==
  {row \in staff : row.branch = r.branch /\ (r.kind = "remove" => row.user = r.user)}

\* The DELETE starts: it only sees the rows there are now.
FindStaff(p) ==
  /\ At(p, "delete")
  /\ Goto(p, [session[p] EXCEPT !.found = Scope(session[p].req), !.todo = "clear"])
  /\ UNCHANGED <<tables, ghosts>>

\* It locks them, once no other request has them locked.
ClearStaff(p) ==
  /\ At(p, "clear")
  /\ \A q \in Others(p) : session[q].cleared \cap session[p].found = {}
  /\ Goto(p, [session[p] EXCEPT !.cleared = session[p].found \cap staff, !.todo = "commit"])
  /\ UNCHANGED <<tables, ghosts>>

\* Rows for the users of a list, with ids nobody has.
NewRows(b, list) ==
  LET ids  == {row.id : row \in staff} \cup {0}
      last == CHOOSE i \in ids : \A j \in ids : j <= i
  IN {[id |-> last + n, branch |-> b, user |-> list[n]] : n \in DOMAIN list}

CommitStaff(p) ==
  LET r    == session[p].req
      list == IF r.kind = "assign" THEN r.list ELSE <<>>
  IN /\ At(p, "commit")
     /\ IF \A u \in ToSet(list) : Exists(u)
        THEN /\ staff' = (staff \ session[p].cleared) \cup NewRows(r.branch, list)
             /\ wanted' = [wanted EXCEPT ![r.branch] =
                             IF r.kind = "assign" THEN ToSet(list) ELSE @ \ {r.user}]
             /\ Goto(p, Idle)
             /\ UNCHANGED <<accounts, wrong, since, chosen, contended>>
        ELSE Fail(p)

-----------------------------------------------------------------------------

Step(p) ==
  /\ \/ ReadAccount(p) \/ WriteAccount(p)
     \/ ReadNames(p) \/ InsertAccount(p)
     \/ DeleteAccount(p) \/ DeleteRefused(p)
     \/ ReadStaff(p) \/ FindStaff(p) \/ ClearStaff(p) \/ CommitStaff(p)
  /\ UNCHANGED <<made, given>>

\* What a request changes that another one changes as well.
Touches(r) ==
  CASE r.kind \in {"login", "unlock"}  -> {r.user}
    [] r.kind \in {"assign", "remove"} -> {r.branch}
    [] OTHER                           -> {}

Begin(p, r) ==
  /\ ~ Busy(p)
  /\ made < MaxRequests
  /\ made' = made + 1
  /\ given' = IF r.kind = "register" THEN given \cup {r.user} ELSE given
  /\ Goto(p, Begun(r))
  /\ contended' = contended \cup {x \in Touches(r) : \E q \in Others(p) : x \in Touches(session[q].req)}
  /\ UNCHANGED <<tables, wrong, since, wanted, chosen>>

\* The server dies or loses its connection: what is not committed is undone.
Crash(p) ==
  /\ Busy(p)
  /\ Goto(p, Idle)
  /\ UNCHANGED <<tables, made, given, ghosts>>

Init ==
  /\ chosen \in [Users -> Passwords]
  /\ accounts = [u \in Seeded |-> Fresh(TRUE, chosen[u])]
  /\ staff = {}
  /\ session = [p \in Sessions |-> Idle]
  /\ made = 0
  /\ given = Seeded
  /\ wrong = [u \in Users |-> 0]
  /\ since = [u \in Users |-> 0]
  /\ wanted = [b \in Branches |-> {}]
  /\ contended = {}

Next ==
  \/ \E p \in Sessions : Step(p) \/ Crash(p) \/ \E r \in Requests : Begin(p, r)
  \/ \E u \in Users : LockPasses(u)

Spec == Init /\ [][Next]_vars
-----------------------------------------------------------------------------
(* What accounts promise.                                                  *)

TypeOK ==
  /\ DOMAIN accounts \subseteq Users
  /\ accounts \in [DOMAIN accounts -> Account]
  /\ \A row \in staff : row.id \in Nat /\ row.branch \in Branches /\ Exists(row.user)
  /\ \A r, s \in staff : r.id = s.id => r = s
  /\ contended \subseteq Users \cup Branches

(* However logins of one account overlap, it is not locked before
   MAX_LOGIN_ATTEMPTS wrong passwords were given for it, and the counter never
   tells more of them than there were.                                     *)
NeverLockedEarly ==
  \A u \in DOMAIN accounts :
    /\ accounts[u].failed_login_attempts <= wrong[u]
    /\ accounts[u].locked_until # "null" => wrong[u] >= MAX_LOGIN_ATTEMPTS

(* "Count of consecutive failed login attempts": exactly that, whatever else
   is done to the account, as long as no two logins of it overlap; and a lock,
   over or not, is there when there were enough of them.                   *)
CounterTellsFailures ==
  \A u \in DOMAIN accounts \ contended :
    /\ accounts[u].failed_login_attempts = since[u]
    /\ accounts[u].locked_until # "null" <=> since[u] >= MAX_LOGIN_ATTEMPTS

(* The password of an account is the one set last, whatever logins, changes
   and deactivations overlapped the request that set it.                   *)
LastPasswordStands ==
  \A u \in DOMAIN accounts : accounts[u].hashed_password = chosen[u]

(* The staff of a branch is the list of the last assignment less the users
   removed or deleted since, whatever failed or was cut off, unless two
   requests changed it at one time.                                        *)
StaffIsWhatWasAssigned ==
  \A b \in Branches \ contended : {row.user : row \in {r \in staff : r.branch = b}} = wanted[b]

Unlocks(u) == \E p \in Sessions : Busy(p) /\ session[p].req = [kind |-> "unlock", user |-> u]

(* A lock ends when its time is over, or when somebody unlocks or deletes the
   account, and in no other way, unless logins of the account overlapped.  *)
LockIsKept ==
  [][\A u \in DOMAIN accounts \ contended :
       accounts[u].locked_until = "future" =>
         \/ u \notin DOMAIN accounts'
         \/ accounts'[u].locked_until = "future"
         \/ accounts'[u].locked_until = "past"
         \/ Unlocks(u)]_vars
=============================================================================
