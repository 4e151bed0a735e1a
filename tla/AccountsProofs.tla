--------------------------- MODULE AccountsProofs ---------------------------
(***************************************************************************)
(* What Accounts promises holds for any number of users, branches and      *)
(* sessions, any limit on attempts, however the requests interleave and    *)
(* wherever they crash.  A session works on a copy, so the invariant says  *)
(* what a session between its read and its write still knows of the row.   *)
(***************************************************************************)
EXTENDS Accounts, TotalsProofs

Row == [id : Nat, branch : Branches, user : Users]

None == [kind |-> "none"]

\* The requests a session may be serving, whatever ids are given by now.
Served ==
  [kind : {"login"}, user : Users, password : Passwords]
    \cup [kind : {"register"}, user : Users, active : BOOLEAN, password : Passwords]
    \cup AdminRequests \cup PasswordRequests \cup StaffRequests \cup {None}

Session ==
  [req : Served, todo : {"none", "read", "write", "insert", "delete", "clear", "commit"},
   copy : Account \cup {{}}, found : SUBSET Row, cleared : SUBSET Row]

AccountKinds == {"login", "unlock", "update", "delete", "change", "reset"}
StaffKinds   == {"assign", "remove"}

\* The types; ids of accounts and of staff rows are never given twice.
Typed ==
  /\ given \subseteq Users
  /\ DOMAIN accounts \subseteq given
  /\ accounts \in [DOMAIN accounts -> Account]
  /\ staff \subseteq Row
  /\ \A row \in staff : Exists(row.user)
  /\ \A r, s \in staff : r.id = s.id => r = s
  /\ \E n \in Nat : \A row \in staff : row.id <= n
  /\ session \in [Sessions -> Session]
  /\ wrong \in [Users -> Nat]
  /\ since \in [Users -> Nat]
  /\ wanted \in [Branches -> SUBSET Users]
  /\ chosen \in [Users -> Passwords]
  /\ contended \subseteq Users \cup Branches

\* A request goes through the steps of its kind.
OnCourse(s) ==
  /\ s.todo = "none" <=> s.req = None
  /\ s.todo = "insert" => s.req.kind = "register"
  /\ s.todo = "write" => s.req.kind \in AccountKinds /\ s.copy \in Account
  /\ s.todo \in {"delete", "clear", "commit"} => s.req.kind \in StaffKinds

Registers(p) == session[p].req.kind = "register"

\* A user that is being registered has no account and no history yet, and nobody
\* else registers or has read it.
UnbornIsNew ==
  /\ \A u \in Users \ given : since[u] = 0
  /\ \A p \in Sessions : At(p, "write") => session[p].req.user \in given
  /\ \A p \in Sessions : Registers(p) =>
       LET u == session[p].req.user
       IN /\ u \in given
          /\ ~ Exists(u)
          /\ since[u] = 0
          /\ \A q \in Sessions \ {p} : Registers(q) => session[q].req.user # u
          /\ \A q \in Sessions : At(q, "write") => session[q].req.user # u

\* Two sessions with requests that change one thing have made it contended.
ContendedIsKnown ==
  \A p, q \in Sessions : p # q =>
    Touches(session[p].req) \cap Touches(session[q].req) \subseteq contended

\* The copy a session is about to write is of the past: it counts no wrong
\* password that was not given.  If nobody else logs the user in or unlocks it,
\* the counter is the one in the table, and so is the lock, but for its end.
KnowsAccount(p) ==
  LET s == session[p]
      u == s.req.user
  IN At(p, "write") =>
       /\ s.copy.failed_login_attempts <= wrong[u]
       /\ s.copy.locked_until # "null" => wrong[u] >= MAX_LOGIN_ATTEMPTS
       /\ s.req.kind = "login" => s.copy.locked_until # "future"
       /\ s.req.kind \in {"login", "unlock"} /\ Exists(u) /\ u \notin contended =>
            /\ s.copy.failed_login_attempts = accounts[u].failed_login_attempts
            /\ s.copy.locked_until = "null" <=> accounts[u].locked_until = "null"
            /\ s.req.kind = "login" => s.copy.locked_until = accounts[u].locked_until

\* What a session that deletes rows of a branch has found and locked are rows of
\* its request, and all there are if nobody else changes that branch.
KnowsStaff(p) ==
  LET s == session[p]
      r == s.req
      mine == {row \in Row : row.branch = r.branch /\ (r.kind = "remove" => row.user = r.user)}
  IN /\ At(p, "clear") =>
          /\ s.found \subseteq mine
          /\ r.branch \notin contended => s.found \cap staff = Scope(r)
     /\ At(p, "commit") =>
          /\ s.cleared \subseteq mine
          /\ r.branch \notin contended => s.cleared \cap staff = Scope(r)

AccountsInv ==
  /\ Typed
  /\ \A p \in Sessions : OnCourse(session[p]) /\ KnowsAccount(p) /\ KnowsStaff(p)
  /\ UnbornIsNew
  /\ ContendedIsKnown
  /\ NeverLockedEarly
  /\ CounterTellsFailures
  /\ LastPasswordStands
  /\ StaffIsWhatWasAssigned

-----------------------------------------------------------------------------
(* The operators the model is built from.                                   *)

\* What is known of the request a session serves: its kind, and the type of each field that kind has.
LEMMA ServedFacts ==
  ASSUME NEW r \in Served
  PROVE  /\ r.kind \in AccountKinds \cup StaffKinds \cup {"register", "none"}
         /\ r.kind = "none" <=> r = None
         /\ r.kind \in AccountKinds \cup {"register", "remove"} => r.user \in Users
         /\ r.kind \in {"login", "register"} => r.password \in Passwords
         /\ r.kind \in {"update", "register"} => r.active \in BOOLEAN
         /\ r.kind \in {"change", "reset"} => r.new \in Passwords
         /\ r.kind \in StaffKinds => r.branch \in Branches
         /\ r.kind = "assign" => r.list \in Seq(Users)
         /\ r.kind = "unlock" => r = [kind |-> "unlock", user |-> r.user]
         /\ Touches(r) \subseteq Users \cup Branches
<1>1. CASE r \in [kind : {"login"}, user : Users, password : Passwords]
  BY <1>1 DEF AccountKinds, StaffKinds, None, Touches
<1>2. CASE r \in [kind : {"register"}, user : Users, active : BOOLEAN, password : Passwords]
  BY <1>2 DEF AccountKinds, StaffKinds, None, Touches
<1>3. CASE r \in AdminRequests
  BY <1>3 DEF AdminRequests, AccountKinds, StaffKinds, None, Touches
<1>4. CASE r \in PasswordRequests
  BY <1>4 DEF PasswordRequests, AccountKinds, StaffKinds, None, Touches
<1>5. CASE r \in StaffRequests
  BY <1>5, AccountsAssumption DEF StaffRequests, AccountKinds, StaffKinds, None, Touches
<1>6. CASE r = None
  BY <1>6 DEF None, AccountKinds, StaffKinds, Touches
<1> QED
  BY <1>1, <1>2, <1>3, <1>4, <1>5, <1>6 DEF Served

\* The requests that begin are served, and a registration draws a new id.
LEMMA RequestsAreServed ==
  ASSUME NEW r \in Requests
  PROVE  /\ r \in Served
         /\ r.kind # "none"
         /\ r.kind = "register" => r.user \in Users \ given
<1>1. r \in AccountRequests \cup AdminRequests \cup PasswordRequests \cup StaffRequests
  BY DEF Requests
<1>2. CASE r \in AccountRequests
  BY <1>2 DEF AccountRequests, Served
<1>3. CASE r \in AdminRequests \cup PasswordRequests \cup StaffRequests
  BY <1>3 DEF AdminRequests, PasswordRequests, StaffRequests, Served
<1> QED
  BY <1>1, <1>2, <1>3

\* A newly registered account has the type of an account.
LEMMA FreshIsAccount ==
  ASSUME NEW active \in BOOLEAN, NEW password \in Passwords
  PROVE  Fresh(active, password) \in Account
BY DEF Fresh, Account

\* A wrong password counts, and locks the copy when there are enough.
LEMMA CountedFacts ==
  ASSUME NEW a \in Account
  PROVE  LET n == a.failed_login_attempts + 1
         IN /\ Counted(a) \in Account
            /\ Counted(a).hashed_password = a.hashed_password
            /\ Counted(a).failed_login_attempts = n
            /\ Counted(a).locked_until = IF n >= MAX_LOGIN_ATTEMPTS THEN "future" ELSE a.locked_until
<1> DEFINE n == a.failed_login_attempts + 1
           lock == IF n >= MAX_LOGIN_ATTEMPTS THEN "future" ELSE a.locked_until
<1>1. n \in Nat /\ lock \in {"null", "future", "past"}
  BY DEF Account
<1>2. Counted(a) = [a EXCEPT !.failed_login_attempts = n, !.locked_until = lock]
  BY DEF Counted, Account
<1> HIDE DEF n, lock
<1>3. /\ Counted(a) \in Account
      /\ Counted(a).hashed_password = a.hashed_password
      /\ Counted(a).failed_login_attempts = n
      /\ Counted(a).locked_until = lock
  BY <1>1, <1>2 DEF Account
<1> QED
  BY <1>3 DEF n, lock

\* A released account keeps its password and has neither failures nor a lock.
LEMMA ReleasedFacts ==
  ASSUME NEW a \in Account
  PROVE  /\ Released(a) \in Account
         /\ Released(a).hashed_password = a.hashed_password
         /\ Released(a).failed_login_attempts = 0
         /\ Released(a).locked_until = "null"
BY DEF Released, Account

\* What an UPDATE makes of the row as it is now: the password is the one the
\* request sets, the counter and the lock go by the copy.
LEMMA UpdatedFacts ==
  ASSUME NEW r \in Served, r.kind \in AccountKinds \ {"delete"},
         NEW now \in Account, NEW copy \in Account
  PROVE  LET new == Updated(r, now, copy)
             n == copy.failed_login_attempts + 1
         IN /\ new \in Account
            /\ new.hashed_password = IF SetsPassword(r) THEN r.new ELSE now.hashed_password
            /\ r.kind = "login" /\ ~ Right(r, copy) =>
                 /\ new.failed_login_attempts = n
                 /\ new.locked_until = IF n >= MAX_LOGIN_ATTEMPTS /\ copy.locked_until # "future"
                                       THEN "future" ELSE now.locked_until
            /\ r.kind = "unlock" \/ (r.kind = "login" /\ Right(r, copy)) =>
                 /\ new.failed_login_attempts = IF copy.failed_login_attempts = 0
                                                THEN now.failed_login_attempts ELSE 0
                 /\ new.locked_until = IF copy.locked_until = "null"
                                       THEN now.locked_until ELSE "null"
            /\ r.kind \notin {"login", "unlock"} =>
                 /\ new.failed_login_attempts = now.failed_login_attempts
                 /\ new.locked_until = now.locked_until
<1> DEFINE h == Handled(r, copy)
           new == Updated(r, now, copy)
           F == {"is_active", "hashed_password", "failed_login_attempts", "locked_until"}
<1>1. /\ r.kind \in {"login", "unlock", "update", "change", "reset"}
      /\ r.kind = "update" => r.active \in BOOLEAN
      /\ r.kind \in {"change", "reset"} => r.new \in Passwords
  BY ServedFacts DEF AccountKinds
<1>2. /\ h \in Account
      /\ h.hashed_password = IF SetsPassword(r) THEN r.new ELSE copy.hashed_password
      /\ r.kind = "login" /\ ~ Right(r, copy) => h = Counted(copy)
      /\ r.kind = "unlock" \/ (r.kind = "login" /\ Right(r, copy)) => h = Released(copy)
      /\ r.kind \notin {"login", "unlock"} =>
           /\ h.failed_login_attempts = copy.failed_login_attempts
           /\ h.locked_until = copy.locked_until
  <2>1. CASE r.kind = "login"
    <3>1. CASE Right(r, copy)
      <4>1. h = Released(copy)
        BY <2>1, <3>1 DEF Handled
      <4>2. h \in Account /\ h.hashed_password = copy.hashed_password
        BY ReleasedFacts, <4>1
      <4> QED
        BY <2>1, <3>1, <4>1, <4>2 DEF SetsPassword
    <3>2. CASE ~ Right(r, copy)
      <4>1. h = Counted(copy)
        BY <2>1, <3>2 DEF Handled
      <4>2. h \in Account /\ h.hashed_password = copy.hashed_password
        BY CountedFacts, <4>1
      <4> QED
        BY <2>1, <3>2, <4>1, <4>2 DEF SetsPassword
    <3> QED
      BY <3>1, <3>2
  <2>2. CASE r.kind = "unlock"
    BY <2>2 DEF Handled, Released, SetsPassword, Account
  <2>3. CASE r.kind = "update"
    BY <1>1, <2>3 DEF Handled, SetsPassword, Account
  <2>4. CASE r.kind \in {"change", "reset"}
    BY <1>1, <2>4 DEF Handled, SetsPassword, Account
  <2> QED
    BY <1>1, <2>1, <2>2, <2>3, <2>4
<1>3. DOMAIN now = F
  BY DEF Account
<1>4. new = [f \in F |-> IF h[f] # copy[f] \/ (f = "hashed_password" /\ SetsPassword(r))
                         THEN h[f] ELSE now[f]]
  BY <1>3 DEF Updated
<1>5. /\ new.is_active = IF h.is_active # copy.is_active THEN h.is_active ELSE now.is_active
      /\ new.hashed_password = IF h.hashed_password # copy.hashed_password \/ SetsPassword(r)
                               THEN h.hashed_password ELSE now.hashed_password
      /\ new.failed_login_attempts = IF h.failed_login_attempts # copy.failed_login_attempts
                                     THEN h.failed_login_attempts ELSE now.failed_login_attempts
      /\ new.locked_until = IF h.locked_until # copy.locked_until
                            THEN h.locked_until ELSE now.locked_until
  BY <1>4
<1>6. new \in Account
  <2>1. new = [is_active |-> new.is_active, hashed_password |-> new.hashed_password,
               failed_login_attempts |-> new.failed_login_attempts,
               locked_until |-> new.locked_until]
    BY <1>4
  <2>2. /\ new.is_active \in BOOLEAN
        /\ new.hashed_password \in Passwords
        /\ new.failed_login_attempts \in Nat
        /\ new.locked_until \in {"null", "future", "past"}
    BY <1>2, <1>5 DEF Account
  <2> QED
    BY <2>1, <2>2 DEF Account
<1>7. new.hashed_password = IF SetsPassword(r) THEN r.new ELSE now.hashed_password
  BY <1>2, <1>5
<1>8. ASSUME r.kind = "login", ~ Right(r, copy)
      PROVE  /\ new.failed_login_attempts = copy.failed_login_attempts + 1
             /\ new.locked_until = IF copy.failed_login_attempts + 1 >= MAX_LOGIN_ATTEMPTS
                                      /\ copy.locked_until # "future"
                                   THEN "future" ELSE now.locked_until
  BY <1>2, <1>5, <1>8, CountedFacts DEF Account
<1>9. ASSUME r.kind = "unlock" \/ (r.kind = "login" /\ Right(r, copy))
      PROVE  /\ new.failed_login_attempts = IF copy.failed_login_attempts = 0
                                            THEN now.failed_login_attempts ELSE 0
             /\ new.locked_until = IF copy.locked_until = "null" THEN now.locked_until ELSE "null"
  BY <1>2, <1>5, <1>9, ReleasedFacts
<1>10. ASSUME r.kind \notin {"login", "unlock"}
       PROVE  /\ new.failed_login_attempts = now.failed_login_attempts
              /\ new.locked_until = now.locked_until
  BY <1>2, <1>5, <1>10
<1> QED
  BY <1>6, <1>7, <1>8, <1>9, <1>10

-----------------------------------------------------------------------------
(* Steps that move a session and change no table.                           *)

\* A session between two requests is on course and has nothing to do.
LEMMA IdleFacts == Idle \in Session /\ OnCourse(Idle) /\ Idle.req = None /\ Idle.todo = "none"
BY DEF Idle, Begun, None, Session, Served, OnCourse

\* The absence of a request counts as served and touches nothing.
LEMMA NoneFacts == None \in Served /\ None.kind = "none" /\ Touches(None) = {}
BY DEF None, Served, Touches

\* Goto changes the session that takes the step and no other.
LEMMA Moved ==
  ASSUME Typed, NEW p \in Sessions, NEW s \in Session, Goto(p, s)
  PROVE  /\ session' \in [Sessions -> Session]
         /\ session'[p] = s
         /\ \A q \in Sessions \ {p} : session'[q] = session[q]
BY DEF Typed, Goto

\* The part of the invariant that speaks of requests only.
LEMMA RequestsKept ==
  ASSUME AccountsInv, NEW p \in Sessions, NEW s \in Session, Goto(p, s),
         s.req \in {session[p].req, None}, contended \subseteq contended'
  PROVE  ContendedIsKnown'
<1>1. /\ session'[p].req \in {session[p].req, None}
      /\ \A q \in Sessions \ {p} : session'[q].req = session[q].req
  BY Moved DEF AccountsInv
<1>2. \A q \in Sessions : Touches(session'[q].req) \subseteq Touches(session[q].req)
  BY <1>1, NoneFacts
<1> QED
  BY <1>2 DEF AccountsInv, ContendedIsKnown

\* UnbornIsNew survives a step that registers nobody and begins no write on an absent account.
LEMMA UnbornKept ==
  ASSUME AccountsInv, NEW p \in Sessions, NEW s \in Session, Goto(p, s),
         s.req \in {session[p].req, None}, UNCHANGED given,
         \A u \in Users : ~ Exists(u) => since'[u] = since[u],
         \A u \in DOMAIN accounts' : Exists(u),
         s.todo = "write" => Exists(s.req.user)
  PROVE  UnbornIsNew'
<1>1. /\ session'[p] = s
      /\ \A q \in Sessions \ {p} : session'[q] = session[q]
  BY Moved DEF AccountsInv
<1>2. \A q \in Sessions : Registers(q)' => Registers(q) /\ session'[q].req = session[q].req
  BY <1>1, NoneFacts DEF Registers
<1>3. \A q \in Sessions : At(q, "write")' =>
        \/ q # p /\ At(q, "write") /\ session'[q].req = session[q].req
        \/ q = p /\ Exists(session'[q].req.user)
  BY <1>1 DEF At
<1>4. \A u \in Users \ given' : since'[u] = 0
  BY DEF AccountsInv, UnbornIsNew, Typed, Exists
<1>5. ASSUME NEW q \in Sessions, At(q, "write")' PROVE session'[q].req.user \in given'
  BY <1>3, <1>5 DEF AccountsInv, UnbornIsNew, Typed, Exists
<1>6. ASSUME NEW q \in Sessions, Registers(q)'
      PROVE  LET u == session'[q].req.user
             IN /\ u \in given'
                /\ ~ (u \in DOMAIN accounts')
                /\ since'[u] = 0
                /\ \A o \in Sessions \ {q} : Registers(o)' => session'[o].req.user # u
                /\ \A o \in Sessions : At(o, "write")' => session'[o].req.user # u
  BY <1>2, <1>3, <1>6 DEF AccountsInv, UnbornIsNew, Typed
<1> QED
  BY <1>4, <1>5, <1>6 DEF UnbornIsNew, Exists

\* A step that changes only its own session keeps the invariant if what that session then knows is true.
LEMMA MoveStep ==
  ASSUME AccountsInv, NEW p \in Sessions, NEW s \in Session, Goto(p, s),
         UNCHANGED <<tables, ghosts, given>>,
         s.req \in {session[p].req, None}, OnCourse(s),
         s.todo = "write" => Exists(s.req.user),
         KnowsAccount(p)', KnowsStaff(p)'
  PROVE  AccountsInv'
<1> USE DEF tables, ghosts
<1>1. /\ session' \in [Sessions -> Session]
      /\ session'[p] = s
      /\ \A q \in Sessions \ {p} : session'[q] = session[q]
  BY Moved DEF AccountsInv
<1>2. Typed'
  BY <1>1 DEF AccountsInv, Typed, Exists
<1>3. \A q \in Sessions : OnCourse(session'[q])
  BY <1>1 DEF AccountsInv
<1>4. ASSUME NEW q \in Sessions PROVE KnowsAccount(q)' /\ KnowsStaff(q)'
  <2> SUFFICES ASSUME q # p PROVE KnowsAccount(q)' /\ KnowsStaff(q)'
    OBVIOUS
  <2>1. session'[q] = session[q] /\ KnowsAccount(q) /\ KnowsStaff(q)
    BY <1>1 DEF AccountsInv
  <2>2. KnowsAccount(q)'
    BY <2>1 DEF KnowsAccount, At, Exists
  <2>3. KnowsStaff(q)'
    BY <2>1 DEF KnowsStaff, At, Scope
  <2> QED
    BY <2>2, <2>3
<1>5. UnbornIsNew'
  BY UnbornKept DEF Exists
<1>6. ContendedIsKnown'
  BY RequestsKept
<1>7. NeverLockedEarly' /\ CounterTellsFailures' /\ LastPasswordStands' /\ StaffIsWhatWasAssigned'
  BY DEF AccountsInv, NeverLockedEarly, CounterTellsFailures, LastPasswordStands, StaffIsWhatWasAssigned
<1> QED
  BY <1>2, <1>3, <1>4, <1>5, <1>6, <1>7 DEF AccountsInv

\* A request that fails, or whose server dies, leaves everything as it was.
LEMMA FailStep ==
  ASSUME AccountsInv, NEW p \in Sessions, Goto(p, Idle), UNCHANGED <<tables, ghosts, given>>
  PROVE  AccountsInv'
<1>1. session'[p] = Idle
  BY Moved, IdleFacts DEF AccountsInv
<1>2. KnowsAccount(p)' /\ KnowsStaff(p)'
  BY <1>1, IdleFacts DEF KnowsAccount, KnowsStaff, At
<1> QED
  BY <1>2, IdleFacts, MoveStep

\* ReadAccount keeps the invariant.
LEMMA ReadAccountStep ==
  ASSUME AccountsInv, NEW p \in Sessions, ReadAccount(p), UNCHANGED given
  PROVE  AccountsInv'
<1> DEFINE r == session[p].req
           u == r.user
           s == [session[p] EXCEPT !.copy = accounts[u], !.todo = "write"]
<1>1. r.kind \in AccountKinds
  BY DEF ReadAccount, AccountKinds
<1>2. CASE ~ (Exists(u) /\ MayGoOn(r, accounts[u]))
  BY <1>2, FailStep DEF ReadAccount, Fail
<1>3. CASE Exists(u) /\ MayGoOn(r, accounts[u])
  <2>1. Goto(p, s) /\ UNCHANGED <<tables, ghosts>>
    BY <1>3 DEF ReadAccount
  <2>2. accounts[u] \in Account /\ session[p] \in Session
    BY <1>3 DEF AccountsInv, Typed, Exists
  <2>3. s \in Session /\ s.req = r /\ s.todo = "write" /\ s.copy = accounts[u]
    BY <2>2 DEF Session
  <2> HIDE DEF s
  <2>4. OnCourse(s)
    BY <1>1, <2>2, <2>3, NoneFacts DEF OnCourse, AccountKinds
  <2>5. session'[p] = s
    BY <2>1, <2>3, Moved DEF AccountsInv
  <2>6. KnowsAccount(p)'
    <3>1. /\ accounts[u].failed_login_attempts <= wrong[u]
          /\ accounts[u].locked_until # "null" => wrong[u] >= MAX_LOGIN_ATTEMPTS
      BY <1>3 DEF AccountsInv, NeverLockedEarly, Exists
    <3>2. r.kind = "login" => accounts[u].locked_until # "future"
      BY <1>3 DEF MayGoOn
    <3> QED
      BY <2>1, <2>3, <2>5, <3>1, <3>2 DEF KnowsAccount, tables, ghosts
  <2>7. KnowsStaff(p)'
    BY <2>3, <2>5 DEF KnowsStaff, At
  <2> QED
    BY <1>3, <2>1, <2>3, <2>4, <2>6, <2>7, MoveStep
<1> QED
  BY <1>2, <1>3

\* ReadNames keeps the invariant.
LEMMA ReadNamesStep ==
  ASSUME AccountsInv, NEW p \in Sessions, ReadNames(p), UNCHANGED given
  PROVE  AccountsInv'
<1> DEFINE s == [session[p] EXCEPT !.todo = "insert"]
<1>1. CASE Fail(p)
  BY <1>1, FailStep DEF Fail
<1>2. CASE Goto(p, s) /\ UNCHANGED <<tables, ghosts>>
  <2>1. session[p] \in Session /\ session[p].req.kind = "register"
    BY DEF AccountsInv, Typed, ReadNames
  <2>2. s \in Session /\ s.req = session[p].req /\ s.todo = "insert"
    BY <2>1 DEF Session
  <2> HIDE DEF s
  <2>3. OnCourse(s)
    BY <2>1, <2>2, NoneFacts DEF OnCourse
  <2>4. session'[p] = s
    BY <1>2, <2>2, Moved DEF AccountsInv
  <2>5. KnowsAccount(p)' /\ KnowsStaff(p)'
    BY <2>2, <2>4 DEF KnowsAccount, KnowsStaff, At
  <2> QED
    BY <1>2, <2>2, <2>3, <2>5, MoveStep
<1> QED
  BY <1>1, <1>2 DEF ReadNames

\* ReadStaff keeps the invariant.
LEMMA ReadStaffStep ==
  ASSUME AccountsInv, NEW p \in Sessions, ReadStaff(p), UNCHANGED given
  PROVE  AccountsInv'
<1> DEFINE s == [session[p] EXCEPT !.todo = "delete"]
<1>1. CASE Fail(p)
  BY <1>1, FailStep DEF Fail
<1>2. CASE ~ Fail(p)
  <2>1. Goto(p, s) /\ UNCHANGED <<tables, ghosts>>
    BY <1>2 DEF ReadStaff
  <2>2. session[p] \in Session /\ session[p].req.kind \in StaffKinds
    BY DEF AccountsInv, Typed, ReadStaff, StaffKinds
  <2>3. s \in Session /\ s.req = session[p].req /\ s.todo = "delete"
    BY <2>2 DEF Session
  <2> HIDE DEF s
  <2>4. OnCourse(s)
    BY <2>2, <2>3, NoneFacts DEF OnCourse, StaffKinds
  <2>5. session'[p] = s
    BY <2>1, <2>3, Moved DEF AccountsInv
  <2>6. KnowsAccount(p)' /\ KnowsStaff(p)'
    BY <2>3, <2>5 DEF KnowsAccount, KnowsStaff, At
  <2> QED
    BY <2>1, <2>3, <2>4, <2>6, MoveStep
<1> QED
  BY <1>1, <1>2

\* The DELETE finds every row of its request there is.
LEMMA FindStaffStep ==
  ASSUME AccountsInv, NEW p \in Sessions, FindStaff(p), UNCHANGED given
  PROVE  AccountsInv'
<1> DEFINE r == session[p].req
           s == [session[p] EXCEPT !.found = Scope(r), !.todo = "clear"]
<1>1. Goto(p, s) /\ UNCHANGED <<tables, ghosts>>
  BY DEF FindStaff
<1>2. session[p] \in Session /\ r.kind \in StaffKinds
  BY DEF AccountsInv, Typed, FindStaff, OnCourse, At
<1>3. Scope(r) \subseteq staff /\ staff \subseteq Row
  BY DEF Scope, AccountsInv, Typed
<1>4. s \in Session /\ s.req = r /\ s.todo = "clear" /\ s.found = Scope(r)
  BY <1>2, <1>3 DEF Session
<1> HIDE DEF s
<1>5. OnCourse(s)
  BY <1>2, <1>4, NoneFacts DEF OnCourse, StaffKinds
<1>6. session'[p] = s
  BY <1>1, <1>4, Moved DEF AccountsInv
<1>7. KnowsAccount(p)' /\ KnowsStaff(p)'
  <2>1. staff' = staff
    BY <1>1 DEF tables
  <2> QED
    BY <1>3, <1>4, <1>6, <2>1 DEF KnowsAccount, KnowsStaff, At, Scope
<1> QED
  BY <1>1, <1>4, <1>5, <1>7, MoveStep

\* It locks what is left of them.
LEMMA ClearStaffStep ==
  ASSUME AccountsInv, NEW p \in Sessions, ClearStaff(p), UNCHANGED given
  PROVE  AccountsInv'
<1> DEFINE r == session[p].req
           s == [session[p] EXCEPT !.cleared = session[p].found \cap staff, !.todo = "commit"]
<1>1. Goto(p, s) /\ UNCHANGED <<tables, ghosts>>
  BY DEF ClearStaff
<1>2. session[p] \in Session /\ r.kind \in StaffKinds /\ KnowsStaff(p) /\ At(p, "clear")
  BY DEF AccountsInv, Typed, ClearStaff, OnCourse, At
<1>3. session[p].found \subseteq Row
  BY <1>2 DEF Session
<1>4. /\ s \in Session /\ s.req = r /\ s.todo = "commit"
      /\ s.cleared = session[p].found \cap staff
  BY <1>2, <1>3 DEF Session
<1> HIDE DEF s
<1>5. OnCourse(s)
  BY <1>2, <1>4, NoneFacts DEF OnCourse, StaffKinds
<1>6. session'[p] = s
  BY <1>1, <1>4, Moved DEF AccountsInv
<1>7. KnowsAccount(p)'
  BY <1>4, <1>6 DEF KnowsAccount, At
<1>8. KnowsStaff(p)'
  <2>1. staff' = staff /\ contended' = contended
    BY <1>1 DEF tables, ghosts
  <2> QED
    BY <1>2, <1>4, <1>6, <2>1 DEF KnowsStaff, At, Scope
<1> QED
  BY <1>1, <1>4, <1>5, <1>7, <1>8, MoveStep

-----------------------------------------------------------------------------
(* Steps that change the tables.                                            *)

\* The row is written over as the request and its copy say, and whatever other
\* requests know of the user stays true unless they count or unlock as well.
LEMMA WriteAccountStep ==
  ASSUME AccountsInv, NEW p \in Sessions, WriteAccount(p), UNCHANGED given
  PROVE  AccountsInv'
<1> DEFINE r == session[p].req
           u == r.user
           copy == session[p].copy
           new == Updated(r, accounts[u], copy)
           mistaken == r.kind = "login" /\ ~ Right(r, copy)
           released == r.kind \in {"login", "unlock"} /\ ~ mistaken
<1>1. CASE ~ Exists(u)
  BY <1>1, FailStep DEF WriteAccount, Fail
<1>2. CASE Exists(u)
  <2>1. /\ accounts' = [accounts EXCEPT ![u] = new]
        /\ chosen' = [chosen EXCEPT ![u] = IF SetsPassword(r) THEN r.new ELSE @]
        /\ wrong' = [wrong EXCEPT ![u] = IF mistaken THEN @ + 1 ELSE @]
        /\ since' = [since EXCEPT ![u] = IF mistaken THEN @ + 1 ELSE IF released THEN 0 ELSE @]
        /\ Goto(p, Idle)
        /\ UNCHANGED <<staff, wanted, contended>>
    BY <1>2 DEF WriteAccount
  <2>2. /\ At(p, "write") /\ session[p] \in Session
        /\ r \in Served /\ r.kind \in AccountKinds \ {"delete"}
        /\ copy \in Account /\ KnowsAccount(p)
    BY DEF AccountsInv, Typed, OnCourse, Session, WriteAccount, At
  <2>3. /\ u \in DOMAIN accounts /\ u \in given /\ u \in Users
        /\ accounts \in [DOMAIN accounts -> Account] /\ accounts[u] \in Account
        /\ wrong \in [Users -> Nat] /\ since \in [Users -> Nat]
        /\ chosen \in [Users -> Passwords]
    BY <1>2 DEF AccountsInv, Typed, Exists
  <2>4. /\ new \in Account
        /\ new.hashed_password = IF SetsPassword(r) THEN r.new ELSE accounts[u].hashed_password
        /\ mistaken =>
             /\ new.failed_login_attempts = copy.failed_login_attempts + 1
             /\ new.locked_until = IF copy.failed_login_attempts + 1 >= MAX_LOGIN_ATTEMPTS
                                      /\ copy.locked_until # "future"
                                   THEN "future" ELSE accounts[u].locked_until
        /\ released =>
             /\ new.failed_login_attempts = IF copy.failed_login_attempts = 0
                                            THEN accounts[u].failed_login_attempts ELSE 0
             /\ new.locked_until = IF copy.locked_until = "null"
                                   THEN accounts[u].locked_until ELSE "null"
        /\ r.kind \notin {"login", "unlock"} =>
             /\ new.failed_login_attempts = accounts[u].failed_login_attempts
             /\ new.locked_until = accounts[u].locked_until
    <3>1. r.kind = "login" /\ Right(r, copy) <=> r.kind = "login" /\ ~ mistaken
      OBVIOUS
    <3>2. released <=> r.kind = "unlock" \/ (r.kind = "login" /\ Right(r, copy))
      BY <3>1
    <3> HIDE DEF r, u, copy, released
    <3>3. r \in Served /\ r.kind \in AccountKinds \ {"delete"} /\ accounts[u] \in Account /\ copy \in Account
      BY <2>2, <2>3
    <3>4. /\ new \in Account
          /\ new.hashed_password = IF SetsPassword(r) THEN r.new ELSE accounts[u].hashed_password
      BY <3>3, UpdatedFacts
    <3>5. mistaken =>
            /\ new.failed_login_attempts = copy.failed_login_attempts + 1
            /\ new.locked_until = IF copy.failed_login_attempts + 1 >= MAX_LOGIN_ATTEMPTS
                                     /\ copy.locked_until # "future"
                                  THEN "future" ELSE accounts[u].locked_until
      BY <3>3, UpdatedFacts
    <3>6. r.kind = "unlock" \/ (r.kind = "login" /\ Right(r, copy)) =>
            /\ new.failed_login_attempts = IF copy.failed_login_attempts = 0
                                           THEN accounts[u].failed_login_attempts ELSE 0
            /\ new.locked_until = IF copy.locked_until = "null"
                                  THEN accounts[u].locked_until ELSE "null"
      BY <3>3, UpdatedFacts
    <3>7. r.kind \notin {"login", "unlock"} =>
            /\ new.failed_login_attempts = accounts[u].failed_login_attempts
            /\ new.locked_until = accounts[u].locked_until
      BY <3>3, UpdatedFacts
    <3> HIDE DEF new, mistaken
    <3> QED
      BY <3>2, <3>4, <3>5, <3>6, <3>7
  <2>5. SetsPassword(r) => r.new \in Passwords
    BY <2>2, ServedFacts DEF SetsPassword
  <2>6. /\ mistaken => r.kind = "login"
        /\ released => r.kind \in {"login", "unlock"} /\ ~ mistaken
        /\ r.kind \in {"login", "unlock"} => mistaken \/ released
    OBVIOUS
  <2> HIDE DEF new, mistaken, released
  <2>7. /\ DOMAIN accounts' = DOMAIN accounts
        /\ accounts'[u] = new
        /\ \A v \in DOMAIN accounts \ {u} : accounts'[v] = accounts[v]
        /\ accounts' \in [DOMAIN accounts' -> Account]
    BY <2>1, <2>3, <2>4
  <2>8. /\ wrong' \in [Users -> Nat] /\ since' \in [Users -> Nat]
        /\ chosen' \in [Users -> Passwords]
        /\ \A v \in Users : wrong[v] <= wrong'[v]
        /\ \A v \in Users \ {u} : since'[v] = since[v] /\ chosen'[v] = chosen[v]
        /\ wrong'[u] = IF mistaken THEN wrong[u] + 1 ELSE wrong[u]
        /\ since'[u] = IF mistaken THEN since[u] + 1 ELSE IF released THEN 0 ELSE since[u]
        /\ chosen'[u] = IF SetsPassword(r) THEN r.new ELSE chosen[u]
    BY <2>1, <2>3, <2>5
  <2>9. /\ session' \in [Sessions -> Session]
        /\ session'[p] = Idle
        /\ \A q \in Sessions \ {p} : session'[q] = session[q]
    BY <2>1, IdleFacts, Moved DEF AccountsInv
  <2>10. Typed'
    BY <2>1, <2>7, <2>8, <2>9 DEF AccountsInv, Typed, Exists
  <2>11. ASSUME NEW q \in Sessions PROVE OnCourse(session'[q]) /\ KnowsAccount(q)' /\ KnowsStaff(q)'
    <3>1. CASE q = p
      BY <2>9, <3>1, IdleFacts DEF KnowsAccount, KnowsStaff, At
    <3>2. CASE q # p
      <4>1. /\ session'[q] = session[q] /\ OnCourse(session[q])
            /\ KnowsAccount(q) /\ KnowsStaff(q) /\ session[q] \in Session
        BY <2>9, <3>2 DEF AccountsInv, Typed
      <4>2. KnowsStaff(q)'
        BY <2>1, <4>1 DEF KnowsStaff, At, Scope
      <4>3. KnowsAccount(q)'
        <5> DEFINE c == session[q].copy
                   v == session[q].req.user
                   k == session[q].req.kind
        <5> SUFFICES ASSUME At(q, "write")
                     PROVE  /\ c.failed_login_attempts <= wrong'[v]
                            /\ c.locked_until # "null" => wrong'[v] >= MAX_LOGIN_ATTEMPTS
                            /\ k = "login" => c.locked_until # "future"
                            /\ k \in {"login", "unlock"} /\ v \in DOMAIN accounts' /\ v \notin contended' =>
                                 /\ c.failed_login_attempts = accounts'[v].failed_login_attempts
                                 /\ c.locked_until = "null" <=> accounts'[v].locked_until = "null"
                                 /\ k = "login" => c.locked_until = accounts'[v].locked_until
          BY <4>1 DEF KnowsAccount, At, Exists
        <5>1. v \in Users /\ c \in Account /\ session[q].req \in Served
          <6>1. session[q].req \in Served /\ k \in AccountKinds /\ c \in Account
            BY <4>1 DEF Session, OnCourse, At
          <6> QED
            BY <6>1, ServedFacts
        <5>2. /\ c.failed_login_attempts <= wrong[v]
              /\ c.locked_until # "null" => wrong[v] >= MAX_LOGIN_ATTEMPTS
              /\ k = "login" => c.locked_until # "future"
          BY <4>1 DEF KnowsAccount
        <5>3. c.failed_login_attempts <= wrong'[v]
          BY <2>3, <2>8, <5>1, <5>2 DEF Account
        <5>4. c.locked_until # "null" => wrong'[v] >= MAX_LOGIN_ATTEMPTS
          BY <2>3, <2>8, <5>1, <5>2, AccountsAssumption
        <5>5. ASSUME k \in {"login", "unlock"}, v \in DOMAIN accounts', v \notin contended'
              PROVE  /\ c.failed_login_attempts = accounts'[v].failed_login_attempts
                     /\ c.locked_until = "null" <=> accounts'[v].locked_until = "null"
                     /\ k = "login" => c.locked_until = accounts'[v].locked_until
          <6>1. Exists(v) /\ v \notin contended
            BY <2>1, <2>7, <5>5 DEF Exists
          <6>2. /\ c.failed_login_attempts = accounts[v].failed_login_attempts
                /\ c.locked_until = "null" <=> accounts[v].locked_until = "null"
                /\ k = "login" => c.locked_until = accounts[v].locked_until
            BY <4>1, <5>5, <6>1 DEF KnowsAccount
          <6>3. v = u => r.kind \notin {"login", "unlock"}
            <7>1. v = u /\ r.kind \in {"login", "unlock"} =>
                    v \in Touches(session[p].req) \cap Touches(session[q].req)
              BY <5>5 DEF Touches
            <7> QED
              BY <3>2, <6>1, <7>1 DEF AccountsInv, ContendedIsKnown
          <6>4. /\ accounts'[v].failed_login_attempts = accounts[v].failed_login_attempts
                /\ accounts'[v].locked_until = accounts[v].locked_until
            BY <2>4, <2>7, <6>1, <6>3 DEF Exists
          <6> QED
            BY <6>2, <6>4
        <5> QED
          BY <5>2, <5>3, <5>4, <5>5
      <4> QED
        BY <4>1, <4>2, <4>3
    <3> QED
      BY <3>1, <3>2
  <2>12. UnbornIsNew' /\ ContendedIsKnown'
    BY <2>1, <2>3, <2>7, <2>8, IdleFacts, UnbornKept, RequestsKept DEF Exists
  <2>13. NeverLockedEarly'
    <3>1. ASSUME NEW v \in DOMAIN accounts \ {u}
          PROVE  /\ accounts'[v].failed_login_attempts <= wrong'[v]
                 /\ accounts'[v].locked_until # "null" => wrong'[v] >= MAX_LOGIN_ATTEMPTS
      <4>1. v \in Users /\ accounts[v] \in Account /\ accounts'[v] = accounts[v]
        BY <2>3, <2>7 DEF AccountsInv, Typed
      <4>2. /\ accounts[v].failed_login_attempts <= wrong[v]
            /\ accounts[v].locked_until # "null" => wrong[v] >= MAX_LOGIN_ATTEMPTS
        BY DEF AccountsInv, NeverLockedEarly
      <4> QED
        BY <2>3, <2>8, <4>1, <4>2, AccountsAssumption DEF Account
    <3>2. /\ new.failed_login_attempts <= wrong'[u]
          /\ new.locked_until # "null" => wrong'[u] >= MAX_LOGIN_ATTEMPTS
      <4>1. /\ accounts[u].failed_login_attempts <= wrong[u]
            /\ accounts[u].locked_until # "null" => wrong[u] >= MAX_LOGIN_ATTEMPTS
            /\ copy.failed_login_attempts <= wrong[u]
            /\ wrong[u] \in Nat /\ copy.failed_login_attempts \in Nat
            /\ accounts[u].failed_login_attempts \in Nat /\ MAX_LOGIN_ATTEMPTS \in Nat
        BY <2>2, <2>3, AccountsAssumption DEF AccountsInv, NeverLockedEarly, KnowsAccount, Account
      <4>2. CASE mistaken
        BY <2>4, <2>8, <4>1, <4>2
      <4>3. CASE released
        BY <2>4, <2>6, <2>8, <4>1, <4>3
      <4>4. CASE r.kind \notin {"login", "unlock"}
        BY <2>4, <2>6, <2>8, <4>1, <4>4
      <4> QED
        BY <2>6, <4>2, <4>3, <4>4
    <3> QED
      BY <2>7, <3>1, <3>2 DEF NeverLockedEarly
  <2>14. CounterTellsFailures'
    <3>1. ASSUME NEW v \in DOMAIN accounts \ contended, v # u
          PROVE  /\ accounts'[v].failed_login_attempts = since'[v]
                 /\ accounts'[v].locked_until # "null" <=> since'[v] >= MAX_LOGIN_ATTEMPTS
      <4>1. v \in Users
        BY DEF AccountsInv, Typed
      <4> QED
        BY <2>7, <2>8, <3>1, <4>1 DEF AccountsInv, CounterTellsFailures
    <3>2. ASSUME u \notin contended
          PROVE  /\ new.failed_login_attempts = since'[u]
                 /\ new.locked_until # "null" <=> since'[u] >= MAX_LOGIN_ATTEMPTS
      <4>1. /\ accounts[u].failed_login_attempts = since[u]
            /\ accounts[u].locked_until # "null" <=> since[u] >= MAX_LOGIN_ATTEMPTS
        BY <2>3, <3>2 DEF AccountsInv, CounterTellsFailures
      <4>2. r.kind \in {"login", "unlock"} =>
              /\ copy.failed_login_attempts = accounts[u].failed_login_attempts
              /\ copy.locked_until = "null" <=> accounts[u].locked_until = "null"
              /\ r.kind = "login" => /\ copy.locked_until = accounts[u].locked_until
                                     /\ copy.locked_until # "future"
        BY <1>2, <2>2, <3>2 DEF KnowsAccount
      <4>3. since[u] \in Nat /\ MAX_LOGIN_ATTEMPTS \in Nat \ {0}
        BY <2>3, AccountsAssumption
      <4>4. CASE mistaken
        BY <2>4, <2>6, <2>8, <4>1, <4>2, <4>3, <4>4
      <4>5. CASE released
        BY <2>4, <2>6, <2>8, <4>1, <4>2, <4>3, <4>5
      <4>6. CASE r.kind \notin {"login", "unlock"}
        BY <2>4, <2>6, <2>8, <4>1, <4>6
      <4> QED
        BY <2>6, <4>4, <4>5, <4>6
    <3> QED
      BY <2>1, <2>7, <3>1, <3>2 DEF CounterTellsFailures
  <2>15. LastPasswordStands'
    <3>1. \A v \in DOMAIN accounts : v \in Users /\ accounts[v].hashed_password = chosen[v]
      BY DEF AccountsInv, Typed, LastPasswordStands
    <3> QED
      BY <2>3, <2>4, <2>7, <2>8, <3>1 DEF LastPasswordStands
  <2>16. StaffIsWhatWasAssigned'
    BY <2>1 DEF AccountsInv, StaffIsWhatWasAssigned
  <2> QED
    BY <2>10, <2>11, <2>12, <2>13, <2>14, <2>15, <2>16 DEF AccountsInv
<1> QED
  BY <1>1, <1>2

\* The new account has an id nobody knows yet.
LEMMA InsertAccountStep ==
  ASSUME AccountsInv, NEW p \in Sessions, InsertAccount(p), UNCHANGED given
  PROVE  AccountsInv'
<1> DEFINE r == session[p].req
           u == r.user
           new == Fresh(r.active, r.password)
<1>1. CASE Fail(p)
  BY <1>1, FailStep DEF Fail
<1>2. CASE ~ Fail(p)
  <2>1. /\ accounts' = [v \in DOMAIN accounts \cup {u} |-> IF v = u THEN new ELSE accounts[v]]
        /\ chosen' = [chosen EXCEPT ![u] = r.password]
        /\ Goto(p, Idle)
        /\ UNCHANGED <<staff, wrong, since, wanted, contended>>
    BY <1>2 DEF InsertAccount
  <2>2. r \in Served /\ r.kind = "register"
    BY DEF AccountsInv, Typed, Session, OnCourse, InsertAccount, At
  <2>3. u \in Users /\ r.password \in Passwords /\ r.active \in BOOLEAN
    BY <2>2, ServedFacts
  <2>4. /\ u \in given /\ u \notin DOMAIN accounts /\ since[u] = 0
        /\ \A q \in Sessions \ {p} : Registers(q) => session[q].req.user # u
        /\ \A q \in Sessions : At(q, "write") => session[q].req.user # u
    BY <2>2 DEF AccountsInv, UnbornIsNew, Registers, Exists
  <2>5. /\ new \in Account /\ new.failed_login_attempts = 0
        /\ new.locked_until = "null" /\ new.hashed_password = r.password
    BY <2>3, FreshIsAccount DEF Fresh
  <2>6. /\ session' \in [Sessions -> Session]
        /\ session'[p] = Idle
        /\ \A q \in Sessions \ {p} : session'[q] = session[q]
    BY <2>1, IdleFacts, Moved DEF AccountsInv
  <2> HIDE DEF new
  <2>7. /\ DOMAIN accounts' = DOMAIN accounts \cup {u}
        /\ accounts'[u] = new
        /\ \A v \in DOMAIN accounts : accounts'[v] = accounts[v]
    BY <2>1, <2>4
  <2>8. accounts' \in [DOMAIN accounts' -> Account]
    <3>1. accounts' = [v \in DOMAIN accounts' |-> accounts'[v]]
      BY <2>1
    <3>2. \A v \in DOMAIN accounts' : accounts'[v] \in Account
      BY <2>5, <2>7 DEF AccountsInv, Typed
    <3> QED
      BY <3>1, <3>2
  <2>9. chosen' \in [Users -> Passwords]
    BY <2>1, <2>3 DEF AccountsInv, Typed
  <2>10. Typed'
    BY <2>1, <2>3, <2>4, <2>6, <2>7, <2>8, <2>9 DEF AccountsInv, Typed, Exists
  <2>11. ASSUME NEW q \in Sessions PROVE OnCourse(session'[q]) /\ KnowsAccount(q)' /\ KnowsStaff(q)'
    <3>1. CASE q = p
      BY <2>6, <3>1, IdleFacts DEF KnowsAccount, KnowsStaff, At
    <3>2. CASE q # p
      <4>1. /\ session'[q] = session[q] /\ OnCourse(session[q])
            /\ KnowsAccount(q) /\ KnowsStaff(q)
        BY <2>6, <3>2 DEF AccountsInv
      <4>2. KnowsStaff(q)'
        BY <2>1, <4>1 DEF KnowsStaff, At, Scope
      <4>3. At(q, "write") => session[q].req.user # u
        BY <2>4
      <4>4. KnowsAccount(q)'
        BY <2>1, <2>7, <4>1, <4>3 DEF KnowsAccount, At, Exists
      <4> QED
        BY <4>1, <4>2, <4>4
    <3> QED
      BY <3>1, <3>2
  <2>12. UnbornIsNew'
    <3>1. \A q \in Sessions : At(q, "write")' => q # p /\ At(q, "write") /\ session'[q] = session[q]
      BY <2>6, IdleFacts DEF At
    <3>2. \A q \in Sessions : Registers(q)' => q # p /\ Registers(q) /\ session'[q] = session[q]
      BY <2>6, IdleFacts, NoneFacts DEF Registers
    <3>3. /\ \A v \in Users \ given' : since'[v] = 0
          /\ \A q \in Sessions : At(q, "write")' => session'[q].req.user \in given'
      BY <2>1, <3>1 DEF AccountsInv, UnbornIsNew
    <3>4. ASSUME NEW q \in Sessions, Registers(q)'
          PROVE  LET v == session'[q].req.user
                 IN /\ v \in given'
                    /\ ~ (v \in DOMAIN accounts')
                    /\ since'[v] = 0
                    /\ \A o \in Sessions \ {q} : Registers(o)' => session'[o].req.user # v
                    /\ \A o \in Sessions : At(o, "write")' => session'[o].req.user # v
      BY <2>1, <2>4, <2>7, <3>1, <3>2, <3>4 DEF AccountsInv, UnbornIsNew, Exists
    <3> QED
      BY <3>3, <3>4 DEF UnbornIsNew, Exists
  <2>13. ContendedIsKnown'
    BY <2>1, IdleFacts, RequestsKept
  <2>14. NeverLockedEarly'
    <3>1. wrong[u] \in Nat
      BY <2>3 DEF AccountsInv, Typed
    <3> QED
      BY <2>1, <2>5, <2>7, <3>1 DEF AccountsInv, NeverLockedEarly
  <2>15. CounterTellsFailures'
    BY <2>1, <2>4, <2>5, <2>7, AccountsAssumption DEF AccountsInv, CounterTellsFailures
  <2>16. LastPasswordStands'
    <3>1. \A v \in DOMAIN accounts : v \in Users /\ accounts[v].hashed_password = chosen[v]
      BY DEF AccountsInv, Typed, LastPasswordStands
    <3>2. chosen'[u] = r.password /\ \A v \in Users \ {u} : chosen'[v] = chosen[v]
      BY <2>1, <2>3 DEF AccountsInv, Typed
    <3> QED
      BY <2>4, <2>5, <2>7, <3>1, <3>2 DEF LastPasswordStands
  <2>17. StaffIsWhatWasAssigned'
    BY <2>1 DEF AccountsInv, StaffIsWhatWasAssigned
  <2> QED
    BY <2>10, <2>11, <2>12, <2>13, <2>14, <2>15, <2>16, <2>17 DEF AccountsInv
<1> QED
  BY <1>1, <1>2

\* With the account its assignments go, and nobody expects them any more.
LEMMA DeleteAccountStep ==
  ASSUME AccountsInv, NEW p \in Sessions, DeleteAccount(p), UNCHANGED given
  PROVE  AccountsInv'
<1> DEFINE u == session[p].req.user
<1>1. /\ accounts' = [v \in DOMAIN accounts \ {u} |-> accounts[v]]
      /\ staff' = {row \in staff : row.user # u}
      /\ wanted' = [b \in Branches |-> wanted[b] \ {u}]
      /\ Goto(p, Idle)
      /\ UNCHANGED <<wrong, since, chosen, contended>>
  BY DEF DeleteAccount, KeptStaff
<1>2. /\ session' \in [Sessions -> Session]
      /\ session'[p] = Idle
      /\ \A q \in Sessions \ {p} : session'[q] = session[q]
  BY <1>1, IdleFacts, Moved DEF AccountsInv
<1>3. /\ DOMAIN accounts' = DOMAIN accounts \ {u}
      /\ \A v \in DOMAIN accounts' : accounts'[v] = accounts[v]
  BY <1>1
<1>4. Typed'
  <2>1. accounts' \in [DOMAIN accounts' -> Account]
    BY <1>1 DEF AccountsInv, Typed
  <2>2. wanted' \in [Branches -> SUBSET Users]
    BY <1>1 DEF AccountsInv, Typed
  <2>3. \A row \in staff' : row \in staff /\ row.user \in DOMAIN accounts'
    BY <1>1, <1>3 DEF AccountsInv, Typed, Exists
  <2> QED
    BY <1>1, <1>2, <1>3, <2>1, <2>2, <2>3 DEF AccountsInv, Typed, Exists
<1>5. ASSUME NEW q \in Sessions PROVE OnCourse(session'[q]) /\ KnowsAccount(q)' /\ KnowsStaff(q)'
  <2>1. CASE q = p
    BY <1>2, <2>1, IdleFacts DEF KnowsAccount, KnowsStaff, At
  <2>2. CASE q # p
    <3>1. /\ session'[q] = session[q] /\ OnCourse(session[q])
          /\ KnowsAccount(q) /\ KnowsStaff(q)
      BY <1>2, <2>2 DEF AccountsInv
    <3>2. KnowsAccount(q)'
      BY <1>1, <1>3, <3>1 DEF KnowsAccount, At, Exists
    <3>3. KnowsStaff(q)'
      BY <1>1, <3>1 DEF KnowsStaff, At, Scope
    <3> QED
      BY <3>1, <3>2, <3>3
  <2> QED
    BY <2>1, <2>2
<1>6. UnbornIsNew' /\ ContendedIsKnown'
  BY <1>1, <1>3, IdleFacts, UnbornKept, RequestsKept DEF Exists
<1>7. NeverLockedEarly' /\ CounterTellsFailures' /\ LastPasswordStands'
  BY <1>1, <1>3 DEF AccountsInv, NeverLockedEarly, CounterTellsFailures, LastPasswordStands
<1>8. StaffIsWhatWasAssigned'
  <2> SUFFICES ASSUME NEW b \in Branches, b \notin contended
               PROVE  {row.user : row \in {s \in staff' : s.branch = b}} = wanted'[b]
    BY <1>1 DEF StaffIsWhatWasAssigned
  <2>1. {row.user : row \in {s \in staff : s.branch = b}} = wanted[b]
    BY DEF AccountsInv, StaffIsWhatWasAssigned
  <2>2. wanted'[b] = wanted[b] \ {u}
    BY <1>1
  <2> QED
    BY <1>1, <2>1, <2>2
<1> QED
  BY <1>4, <1>5, <1>6, <1>7, <1>8 DEF AccountsInv

\* A lock that is over is still a lock to the counter.
LEMMA LockPassesStep ==
  ASSUME AccountsInv, NEW u \in Users, LockPasses(u)
  PROVE  AccountsInv'
<1> DEFINE new == [accounts[u] EXCEPT !.locked_until = "past"]
<1>1. /\ u \in DOMAIN accounts /\ accounts[u] \in Account /\ accounts[u].locked_until = "future"
      /\ accounts \in [DOMAIN accounts -> Account]
  BY DEF LockPasses, AccountsInv, Typed, Exists
<1>2. /\ accounts' = [accounts EXCEPT ![u] = new]
      /\ UNCHANGED <<staff, session, given, wrong, since, wanted, chosen, contended>>
  BY DEF LockPasses, ghosts
<1>3. /\ new \in Account /\ new.locked_until = "past"
      /\ new.failed_login_attempts = accounts[u].failed_login_attempts
      /\ new.hashed_password = accounts[u].hashed_password
  BY <1>1 DEF Account
<1> HIDE DEF new
<1>4. /\ DOMAIN accounts' = DOMAIN accounts
      /\ accounts'[u] = new
      /\ \A v \in DOMAIN accounts \ {u} : accounts'[v] = accounts[v]
      /\ accounts' \in [DOMAIN accounts -> Account]
  BY <1>1, <1>2, <1>3
<1>5. \A v \in DOMAIN accounts :
        /\ accounts'[v].failed_login_attempts = accounts[v].failed_login_attempts
        /\ accounts'[v].hashed_password = accounts[v].hashed_password
        /\ accounts'[v].locked_until = "null" <=> accounts[v].locked_until = "null"
        /\ accounts'[v].locked_until = accounts[v].locked_until
             \/ accounts[v].locked_until = "future"
  BY <1>1, <1>3, <1>4
<1>6. Typed'
  BY <1>2, <1>4 DEF AccountsInv, Typed, Exists
<1>7. ASSUME NEW q \in Sessions PROVE OnCourse(session'[q]) /\ KnowsAccount(q)' /\ KnowsStaff(q)'
  <2>1. OnCourse(session[q]) /\ KnowsAccount(q) /\ KnowsStaff(q)
    BY DEF AccountsInv
  <2>2. KnowsAccount(q)'
    BY <1>2, <1>4, <1>5, <2>1 DEF KnowsAccount, At, Exists
  <2>3. KnowsStaff(q)'
    BY <1>2, <2>1 DEF KnowsStaff, At, Scope
  <2> QED
    BY <1>2, <2>1, <2>2, <2>3
<1>8. UnbornIsNew' /\ ContendedIsKnown'
  BY <1>2, <1>4 DEF AccountsInv, UnbornIsNew, ContendedIsKnown, Registers, At, Exists
<1>9. NeverLockedEarly' /\ CounterTellsFailures' /\ LastPasswordStands'
  BY <1>2, <1>4, <1>5 DEF AccountsInv, NeverLockedEarly, CounterTellsFailures, LastPasswordStands
<1>10. StaffIsWhatWasAssigned'
  BY <1>2 DEF AccountsInv, StaffIsWhatWasAssigned
<1> QED
  BY <1>6, <1>7, <1>8, <1>9, <1>10 DEF AccountsInv

-----------------------------------------------------------------------------
(* The rows of an assignment.                                               *)

\* A bounded non-empty set of numbers has a greatest one: its least bound.
LEMMA GreatestElement ==
  ASSUME NEW S \in SUBSET Nat, S # {}, NEW n \in Nat, \A m \in S : m <= n
  PROVE  \E m \in S : \A k \in S : k <= m
<1> DEFINE Bounds == {b \in Nat : \A m \in S : m <= b}
<1>1. PICK b \in Bounds : \A c \in Bounds : b <= c
  BY LeastElement, n \in Bounds, Bounds \in SUBSET Nat
<1>2. CASE b \in S
  BY <1>1, <1>2
<1>3. CASE b \notin S
  <2>1. \A m \in S : m < b
    BY <1>1, <1>3
  <2>2. b \in Nat \ {0}
    <3>1. PICK m \in S : m < b
      BY <2>1
    <3>2. m \in Nat /\ b \in Nat
      BY <1>1
    <3> QED
      BY <3>1, <3>2
  <2>3. b - 1 \in Bounds
    <3>1. \A m \in S : m \in Nat /\ m <= b - 1
      BY <2>1, <2>2
    <3> QED
      BY <2>2, <3>1
  <2> QED
    BY <1>1, <2>2, <2>3
<1> QED
  BY <1>2, <1>3

\* The rows an assignment inserts are the listed users at the branch, under fresh and distinct ids.
LEMMA NewRowsFacts ==
  ASSUME Typed, NEW b \in Branches, NEW list \in Seq(Users)
  PROVE  /\ NewRows(b, list) \subseteq Row
         /\ \A row \in NewRows(b, list) : row.branch = b
         /\ {row.user : row \in NewRows(b, list)} = ToSet(list)
         /\ \A row \in NewRows(b, list), old \in staff : row.id > old.id
         /\ \A r, s \in NewRows(b, list) : r.id = s.id => r = s
         /\ \E n \in Nat : \A row \in staff \cup NewRows(b, list) : row.id <= n
<1> DEFINE ids  == {row.id : row \in staff} \cup {0}
           last == CHOOSE i \in ids : \A j \in ids : j <= i
           new(n) == [id |-> last + n, branch |-> b, user |-> list[n]]
<1>1. ids \in SUBSET Nat /\ ids # {}
  BY DEF Typed, Row
<1>2. PICK n \in Nat : \A j \in ids : j <= n
  <2>1. PICK n \in Nat : \A row \in staff : row.id <= n
    BY DEF Typed
  <2> QED
    BY <2>1
<1>3. \E i \in ids : \A j \in ids : j <= i
  BY <1>1, <1>2, GreatestElement
<1>4. last \in Nat /\ \A j \in ids : j <= last
  <2> HIDE DEF ids
  <2>1. last \in ids /\ \A j \in ids : j <= last
    BY <1>3
  <2> QED
    BY <1>1, <2>1
<1>5. \A row \in staff : row.id \in Nat /\ row.id <= last
  BY <1>1, <1>4
<1>6. NewRows(b, list) = {new(k) : k \in DOMAIN list}
  BY DEF NewRows
<1> HIDE DEF ids, last
<1>7. DOMAIN list = 1..Len(list) /\ Len(list) \in Nat
      /\ \A k \in DOMAIN list : list[k] \in Users
  OBVIOUS
<1>8. \A k \in DOMAIN list : new(k) \in Row /\ new(k).id = last + k /\ new(k).branch = b
                              /\ new(k).user = list[k]
  BY <1>4, <1>7 DEF Row
<1>9. \A row \in NewRows(b, list), old \in staff : row.id > old.id
  BY <1>4, <1>5, <1>6, <1>7, <1>8
<1>10. \A r, s \in NewRows(b, list) : r.id = s.id => r = s
  <2> SUFFICES ASSUME NEW j \in DOMAIN list, NEW k \in DOMAIN list, new(j).id = new(k).id
               PROVE  j = k
    BY <1>6
  <2> QED
    BY <1>4, <1>7, <1>8
<1>11. \A row \in staff \cup NewRows(b, list) : row.id <= last + Len(list)
  BY <1>4, <1>5, <1>6, <1>7, <1>8
<1>12. last + Len(list) \in Nat
  BY <1>4, <1>7
<1>13. {row.user : row \in NewRows(b, list)} = ToSet(list)
  <2>1. \A u \in ToSet(list) : \E row \in NewRows(b, list) : row.user = u
    BY <1>6, <1>8 DEF ToSet
  <2>2. \A row \in NewRows(b, list) : row.user \in ToSet(list)
    BY <1>6, <1>8 DEF ToSet
  <2> QED
    BY <2>1, <2>2
<1>14. NewRows(b, list) \subseteq Row /\ \A row \in NewRows(b, list) : row.branch = b
  BY <1>6, <1>8
<1> QED
  BY <1>9, <1>10, <1>11, <1>12, <1>13, <1>14

\* The rows that were locked go and those of the list come.  Nobody else's request
\* loses a row of its own branch, or finds one it has not seen, unless the branch
\* is contended.
LEMMA CommitStaffStep ==
  ASSUME AccountsInv, NEW p \in Sessions, CommitStaff(p), UNCHANGED given
  PROVE  AccountsInv'
<1> DEFINE r == session[p].req
           list == IF r.kind = "assign" THEN r.list ELSE <<>>
           cleared == session[p].cleared
           new == NewRows(r.branch, list)
<1>1. CASE ~ \A u \in ToSet(list) : Exists(u)
  BY <1>1, FailStep DEF CommitStaff, Fail
<1>2. CASE \A u \in ToSet(list) : Exists(u)
  <2>1. /\ staff' = (staff \ cleared) \cup new
        /\ wanted' = [wanted EXCEPT ![r.branch] =
                        IF r.kind = "assign" THEN ToSet(list) ELSE @ \ {r.user}]
        /\ Goto(p, Idle)
        /\ UNCHANGED <<accounts, wrong, since, chosen, contended>>
    BY <1>2 DEF CommitStaff
  <2>2. /\ r \in Served /\ r.kind \in StaffKinds /\ At(p, "commit") /\ KnowsStaff(p)
        /\ cleared \subseteq Row
    BY DEF AccountsInv, Typed, Session, OnCourse, CommitStaff, At
  <2>3. /\ r.branch \in Branches
        /\ r.kind = "assign" => r.list \in Seq(Users)
        /\ r.kind = "remove" => r.user \in Users
    BY <2>2, ServedFacts
  <2>4. /\ list \in Seq(Users)
        /\ ToSet(list) \subseteq Users
        /\ r.kind = "remove" => ToSet(list) = {}
    BY <2>2, <2>3 DEF ToSet, StaffKinds
  <2>5. /\ session' \in [Sessions -> Session]
        /\ session'[p] = Idle
        /\ \A q \in Sessions \ {p} : session'[q] = session[q]
    BY <2>1, IdleFacts, Moved DEF AccountsInv
  <2>6. /\ new \subseteq Row
        /\ \A row \in new : row.branch = r.branch
        /\ {row.user : row \in new} = ToSet(list)
        /\ \A row \in new, old \in staff : row.id > old.id
        /\ \A s, t \in new : s.id = t.id => s = t
        /\ \E n \in Nat : \A row \in staff \cup new : row.id <= n
    BY <2>3, <2>4, NewRowsFacts DEF AccountsInv
  <2>7. \A row \in cleared : row.branch = r.branch
    BY <2>2 DEF KnowsStaff
  <2>f. r.kind = "remove" => \A row \in cleared : row.user = r.user
    BY <2>2 DEF KnowsStaff
  <2>8. r.branch \notin contended =>
          cleared \cap staff = {row \in staff : row.branch = r.branch
                                                /\ (r.kind = "remove" => row.user = r.user)}
    BY <2>2 DEF KnowsStaff, Scope
  <2> HIDE DEF new, cleared, list
  <2>9. Typed'
    <3>1. wanted' \in [Branches -> SUBSET Users]
      BY <2>1, <2>3, <2>4 DEF AccountsInv, Typed
    <3>2. staff' \subseteq Row /\ \A row \in staff' : row.user \in DOMAIN accounts'
      BY <1>2, <2>1, <2>6 DEF AccountsInv, Typed, Exists
    <3>3. \A s, t \in staff' : s.id = t.id => s = t
      <4>1. \A s \in staff, t \in new : s.id # t.id /\ t.id # s.id
        BY <2>6 DEF AccountsInv, Typed, Row
      <4> QED
        BY <2>1, <2>6, <4>1 DEF AccountsInv, Typed
    <3>4. \E n \in Nat : \A row \in staff' : row.id <= n
      BY <2>1, <2>6
    <3> QED
      BY <2>1, <2>5, <3>1, <3>2, <3>3, <3>4 DEF AccountsInv, Typed, Exists
  <2>10. ASSUME NEW q \in Sessions PROVE OnCourse(session'[q]) /\ KnowsAccount(q)' /\ KnowsStaff(q)'
    <3>1. CASE q = p
      BY <2>5, <3>1, IdleFacts DEF KnowsAccount, KnowsStaff, At
    <3>2. CASE q # p
      <4>1. /\ session'[q] = session[q] /\ OnCourse(session[q])
            /\ KnowsAccount(q) /\ KnowsStaff(q)
        BY <2>5, <3>2 DEF AccountsInv
      <4>2. KnowsAccount(q)'
        BY <2>1, <4>1 DEF KnowsAccount, At, Exists
      <4>3. KnowsStaff(q)'
        <5> DEFINE t == session[q].req
                   found == session[q].found
                   locked == session[q].cleared
        <5> SUFFICES ASSUME At(q, "clear") \/ At(q, "commit"), t.branch \notin contended
                     PROVE  /\ At(q, "clear") => found \cap staff' = Scope(t)'
                            /\ At(q, "commit") => locked \cap staff' = Scope(t)'
          BY <2>1, <4>1 DEF KnowsStaff, At
        <5>1. t.kind \in StaffKinds
          BY <4>1 DEF OnCourse, At
        <5>2. t.branch # r.branch
          <6>1. r.branch = t.branch => r.branch \in Touches(session[p].req) \cap Touches(session[q].req)
            BY <2>2, <5>1 DEF Touches, StaffKinds
          <6> QED
            BY <3>2, <6>1 DEF AccountsInv, ContendedIsKnown
        <5>3. /\ At(q, "clear") => /\ \A row \in found : row.branch = t.branch
                                   /\ found \cap staff = Scope(t)
              /\ At(q, "commit") => /\ \A row \in locked : row.branch = t.branch
                                    /\ locked \cap staff = Scope(t)
          BY <4>1 DEF KnowsStaff
        <5>4. \A row \in staff' : row.branch = t.branch <=> row \in staff /\ row.branch = t.branch
          BY <2>1, <2>6, <5>2
        <5>5. \A row \in staff : row.branch = t.branch => row \in staff'
          BY <2>1, <2>7, <5>2
        <5>6. Scope(t)' = Scope(t)
          BY <4>1, <5>4, <5>5 DEF Scope
        <5>7. ASSUME NEW F, \A row \in F : row.branch = t.branch
              PROVE  F \cap staff' = F \cap staff
          BY <5>4, <5>5, <5>7
        <5> QED
          BY <5>3, <5>6, <5>7
      <4> QED
        BY <4>1, <4>2, <4>3
    <3> QED
      BY <3>1, <3>2
  <2>11. UnbornIsNew' /\ ContendedIsKnown'
    BY <2>1, IdleFacts, UnbornKept, RequestsKept DEF Exists
  <2>12. NeverLockedEarly' /\ CounterTellsFailures' /\ LastPasswordStands'
    BY <2>1 DEF AccountsInv, NeverLockedEarly, CounterTellsFailures, LastPasswordStands
  <2>13. StaffIsWhatWasAssigned'
    <3> SUFFICES ASSUME NEW b \in Branches, b \notin contended
                 PROVE  {row.user : row \in {s \in staff' : s.branch = b}} = wanted'[b]
      BY <2>1 DEF StaffIsWhatWasAssigned
    <3>1. {row.user : row \in {s \in staff : s.branch = b}} = wanted[b]
      BY DEF AccountsInv, StaffIsWhatWasAssigned
    <3>2. CASE b # r.branch
      <4>1. {s \in staff' : s.branch = b} = {s \in staff : s.branch = b}
        BY <2>1, <2>6, <2>7, <3>2
      <4>2. wanted'[b] = wanted[b]
        BY <2>1, <3>2 DEF AccountsInv, Typed
      <4> QED
        BY <3>1, <4>1, <4>2
    <3>3. CASE b = r.branch /\ r.kind = "assign"
      <4>1. {s \in staff' : s.branch = b} = new
        BY <2>1, <2>6, <2>8, <3>3
      <4>2. wanted'[b] = ToSet(list)
        BY <2>1, <3>3 DEF AccountsInv, Typed
      <4> QED
        BY <2>6, <4>1, <4>2
    <3>4. CASE b = r.branch /\ r.kind = "remove"
      <4>1. new = {}
        BY <2>4, <2>6, <3>4
      <4>2. {s \in staff' : s.branch = b} = {s \in staff : s.branch = b /\ s.user # r.user}
        BY <2>1, <2>8, <3>4, <4>1
      <4>3. wanted'[b] = wanted[b] \ {r.user}
        BY <2>1, <3>4 DEF AccountsInv, Typed
      <4> QED
        BY <3>1, <4>2, <4>3
    <3> QED
      BY <2>2, <3>2, <3>3, <3>4 DEF StaffKinds
  <2> QED
    BY <2>9, <2>10, <2>11, <2>12, <2>13 DEF AccountsInv
<1> QED
  BY <1>1, <1>2

-----------------------------------------------------------------------------
(* Requests begin, and the whole system.                                    *)

\* A request that begins beside another one with something to change in common
\* makes it contended, so the other one need not know it any more.
LEMMA BeginStep ==
  ASSUME AccountsInv, NEW p \in Sessions, NEW r \in Requests, Begin(p, r)
  PROVE  AccountsInv'
<1>1. /\ ~ Busy(p)
      /\ given' = IF r.kind = "register" THEN given \cup {r.user} ELSE given
      /\ Goto(p, Begun(r))
      /\ contended' = contended \cup
           {x \in Touches(r) : \E q \in Others(p) : x \in Touches(session[q].req)}
      /\ UNCHANGED <<accounts, staff, wrong, since, wanted, chosen>>
  BY DEF Begin, tables
<1>2. /\ r \in Served /\ r.kind # "none"
      /\ r.kind = "register" => r.user \in Users \ given
      /\ Touches(r) \subseteq Users \cup Branches
  BY RequestsAreServed, ServedFacts
<1>3. /\ Begun(r) \in Session /\ OnCourse(Begun(r))
      /\ Begun(r).req = r /\ Begun(r).todo = "read"
  BY <1>2, NoneFacts DEF Begun, Session, OnCourse
<1>4. /\ session' \in [Sessions -> Session]
      /\ session'[p] = Begun(r)
      /\ \A q \in Sessions \ {p} : session'[q] = session[q]
  BY <1>1, <1>3, Moved DEF AccountsInv
<1>5. contended \subseteq contended' /\ contended' \subseteq Users \cup Branches
  BY <1>1, <1>2 DEF AccountsInv, Typed
<1>6. Typed'
  BY <1>1, <1>2, <1>4, <1>5 DEF AccountsInv, Typed, Exists
<1>7. ASSUME NEW q \in Sessions PROVE OnCourse(session'[q]) /\ KnowsAccount(q)' /\ KnowsStaff(q)'
  <2>1. CASE q = p
    BY <1>3, <1>4, <2>1 DEF KnowsAccount, KnowsStaff, At
  <2>2. CASE q # p
    <3>1. /\ session'[q] = session[q] /\ OnCourse(session[q])
          /\ KnowsAccount(q) /\ KnowsStaff(q)
      BY <1>4, <2>2 DEF AccountsInv
    <3>2. KnowsAccount(q)'
      BY <1>1, <1>5, <3>1 DEF KnowsAccount, At, Exists
    <3>3. KnowsStaff(q)'
      BY <1>1, <1>5, <3>1 DEF KnowsStaff, At, Scope
    <3> QED
      BY <3>1, <3>2, <3>3
  <2> QED
    BY <2>1, <2>2
<1>8. UnbornIsNew'
  <2>1. \A q \in Sessions : At(q, "write")' => q # p /\ At(q, "write") /\ session'[q] = session[q]
    BY <1>3, <1>4 DEF At
  <2>2. given \subseteq given' /\ \A u \in Users \ given' : since'[u] = 0
    BY <1>1 DEF AccountsInv, UnbornIsNew
  <2>3. \A q \in Sessions : At(q, "write")' => session'[q].req.user \in given'
    BY <2>1, <2>2 DEF AccountsInv, UnbornIsNew
  <2>4. ASSUME NEW q \in Sessions, Registers(q)'
        PROVE  LET v == session'[q].req.user
               IN /\ v \in given'
                  /\ ~ (v \in DOMAIN accounts')
                  /\ since'[v] = 0
                  /\ \A o \in Sessions \ {q} : Registers(o)' => session'[o].req.user # v
                  /\ \A o \in Sessions : At(o, "write")' => session'[o].req.user # v
    <3> DEFINE v == session'[q].req.user
    <3>1. CASE q = p
      <4>1. r.kind = "register" /\ v = r.user /\ v \in Users \ given
        BY <1>2, <1>3, <1>4, <2>4, <3>1 DEF Registers
      <4>2. v \in given' /\ v \notin DOMAIN accounts' /\ since'[v] = 0
        BY <1>1, <4>1 DEF AccountsInv, Typed, UnbornIsNew
      <4>3. \A o \in Sessions \ {q} : Registers(o)' => session'[o].req.user # v
        BY <1>4, <3>1, <4>1 DEF AccountsInv, UnbornIsNew, Registers
      <4>4. \A o \in Sessions : At(o, "write")' => session'[o].req.user # v
        BY <2>1, <4>1 DEF AccountsInv, UnbornIsNew
      <4> QED
        BY <4>2, <4>3, <4>4
    <3>2. CASE q # p
      <4>1. Registers(q) /\ session'[q] = session[q]
        BY <1>4, <2>4, <3>2 DEF Registers
      <4>2. v \in given' /\ v \in given /\ v \notin DOMAIN accounts' /\ since'[v] = 0
        BY <1>1, <2>2, <4>1 DEF AccountsInv, UnbornIsNew, Exists
      <4>3. ASSUME NEW o \in Sessions \ {q}, Registers(o)' PROVE session'[o].req.user # v
        <5>1. CASE o = p
          BY <1>2, <1>3, <1>4, <4>2, <4>3, <5>1 DEF Registers
        <5>2. CASE o # p
          BY <1>4, <4>1, <4>3, <5>2 DEF AccountsInv, UnbornIsNew, Registers
        <5> QED
          BY <5>1, <5>2
      <4>4. \A o \in Sessions : At(o, "write")' => session'[o].req.user # v
        BY <2>1, <4>1 DEF AccountsInv, UnbornIsNew
      <4> QED
        BY <4>2, <4>3, <4>4
    <3> QED
      BY <3>1, <3>2
  <2> QED
    BY <2>2, <2>3, <2>4 DEF UnbornIsNew, Exists
<1>9. ContendedIsKnown'
  <2>1. \A q \in Sessions : ~ Busy(q) => Touches(session[q].req) = {}
    BY NoneFacts DEF AccountsInv, OnCourse, Busy
  <2>2. ASSUME NEW q \in Sessions \ {p}
        PROVE  Touches(r) \cap Touches(session[q].req) \subseteq contended'
    <3>1. CASE Busy(q)
      BY <1>1, <3>1 DEF Others
    <3>2. CASE ~ Busy(q)
      BY <2>1, <3>2
    <3> QED
      BY <3>1, <3>2
  <2>3. /\ session'[p].req = r
        /\ \A q \in Sessions \ {p} : session'[q].req = session[q].req
    BY <1>3, <1>4
  <2> QED
    BY <1>5, <2>2, <2>3 DEF AccountsInv, ContendedIsKnown
<1>10. NeverLockedEarly' /\ CounterTellsFailures' /\ LastPasswordStands' /\ StaffIsWhatWasAssigned'
  BY <1>1, <1>5 DEF AccountsInv, NeverLockedEarly, CounterTellsFailures, LastPasswordStands,
     StaffIsWhatWasAssigned
<1> QED
  BY <1>6, <1>7, <1>8, <1>9, <1>10 DEF AccountsInv

\* The invariant holds initially.
LEMMA AccountsInit == Init => AccountsInv
<1> SUFFICES ASSUME Init PROVE AccountsInv
  OBVIOUS
<1>1. /\ chosen \in [Users -> Passwords]
      /\ accounts = [u \in Seeded |-> Fresh(TRUE, chosen[u])]
      /\ staff = {} /\ session = [p \in Sessions |-> Idle] /\ given = Seeded
      /\ wrong = [u \in Users |-> 0] /\ since = [u \in Users |-> 0]
      /\ wanted = [b \in Branches |-> {}] /\ contended = {}
  BY DEF Init
<1>2. Seeded \subseteq Users /\ MAX_LOGIN_ATTEMPTS \in Nat \ {0}
  BY AccountsAssumption
<1>3. \A u \in Seeded : /\ accounts[u] \in Account
                       /\ accounts[u].failed_login_attempts = 0
                       /\ accounts[u].locked_until = "null"
                       /\ accounts[u].hashed_password = chosen[u]
  BY <1>1, <1>2, FreshIsAccount DEF Fresh
<1>4. Typed
  <2>1. accounts \in [DOMAIN accounts -> Account]
    BY <1>1, <1>3
  <2>2. \A row \in staff : row.id <= 0
    BY <1>1
  <2>3. session \in [Sessions -> Session]
    BY <1>1, IdleFacts
  <2> QED
    BY <1>1, <1>2, <2>1, <2>2, <2>3 DEF Typed, Exists
<1>5. \A p \in Sessions : session[p] = Idle
  BY <1>1
<1>6. \A p \in Sessions : OnCourse(session[p]) /\ KnowsAccount(p) /\ KnowsStaff(p)
  BY <1>5, IdleFacts DEF KnowsAccount, KnowsStaff, At
<1>7. UnbornIsNew /\ ContendedIsKnown
  BY <1>1, <1>5, IdleFacts, NoneFacts DEF UnbornIsNew, ContendedIsKnown, Registers, At
<1>8. NeverLockedEarly /\ CounterTellsFailures /\ LastPasswordStands
  <2>1. \A u \in DOMAIN accounts : u \in Seeded /\ wrong[u] = 0 /\ since[u] = 0
    BY <1>1, <1>2
  <2>2. MAX_LOGIN_ATTEMPTS > 0
    BY <1>2
  <2>3. NeverLockedEarly
    BY <1>3, <2>1 DEF NeverLockedEarly
  <2>4. CounterTellsFailures
    BY <1>2, <1>3, <2>1, <2>2 DEF CounterTellsFailures
  <2>5. LastPasswordStands
    BY <1>3, <2>1 DEF LastPasswordStands
  <2> QED
    BY <2>3, <2>4, <2>5
<1>9. StaffIsWhatWasAssigned
  BY <1>1 DEF StaffIsWhatWasAssigned
<1> QED
  BY <1>4, <1>6, <1>7, <1>8, <1>9 DEF AccountsInv

\* Every step keeps the invariant.
LEMMA AccountsStep == AccountsInv /\ [Next]_vars => AccountsInv'
<1> SUFFICES ASSUME AccountsInv, [Next]_vars PROVE AccountsInv'
  OBVIOUS
<1>1. ASSUME NEW p \in Sessions, Step(p) PROVE AccountsInv'
  <2>1. UNCHANGED given
    BY <1>1 DEF Step
  <2>2. CASE ReadAccount(p)
    BY <2>1, <2>2, ReadAccountStep
  <2>3. CASE WriteAccount(p)
    BY <2>1, <2>3, WriteAccountStep
  <2>4. CASE ReadNames(p)
    BY <2>1, <2>4, ReadNamesStep
  <2>5. CASE InsertAccount(p)
    BY <2>1, <2>5, InsertAccountStep
  <2>6. CASE DeleteAccount(p)
    BY <2>1, <2>6, DeleteAccountStep
  <2>7. CASE DeleteRefused(p)
    BY <2>1, <2>7, FailStep DEF DeleteRefused, Fail
  <2>8. CASE ReadStaff(p)
    BY <2>1, <2>8, ReadStaffStep
  <2>9. CASE FindStaff(p)
    BY <2>1, <2>9, FindStaffStep
  <2>10. CASE ClearStaff(p)
    BY <2>1, <2>10, ClearStaffStep
  <2>11. CASE CommitStaff(p)
    BY <2>1, <2>11, CommitStaffStep
  <2> QED
    BY <1>1, <2>2, <2>3, <2>4, <2>5, <2>6, <2>7, <2>8, <2>9, <2>10, <2>11 DEF Step
<1>2. ASSUME NEW p \in Sessions, Crash(p) PROVE AccountsInv'
  BY <1>2, FailStep DEF Crash
<1>3. ASSUME NEW p \in Sessions, NEW r \in Requests, Begin(p, r) PROVE AccountsInv'
  BY <1>3, BeginStep
<1>4. ASSUME NEW u \in Users, LockPasses(u) PROVE AccountsInv'
  BY <1>4, LockPassesStep
<1>5. CASE UNCHANGED vars
  <2> USE <1>5 DEF vars, tables, ghosts
  <2>1. Typed'
    BY DEF AccountsInv, Typed, Exists
  <2>2. ASSUME NEW q \in Sessions PROVE OnCourse(session'[q]) /\ KnowsAccount(q)' /\ KnowsStaff(q)'
    <3>1. OnCourse(session[q]) /\ KnowsAccount(q) /\ KnowsStaff(q)
      BY DEF AccountsInv
    <3>2. KnowsAccount(q)'
      BY <3>1 DEF KnowsAccount, At, Exists
    <3>3. KnowsStaff(q)'
      BY <3>1 DEF KnowsStaff, At, Scope
    <3> QED
      BY <3>1, <3>2, <3>3
  <2>3. UnbornIsNew' /\ ContendedIsKnown'
    BY DEF AccountsInv, UnbornIsNew, ContendedIsKnown, Registers, At, Exists
  <2>4. NeverLockedEarly' /\ CounterTellsFailures' /\ LastPasswordStands' /\ StaffIsWhatWasAssigned'
    BY DEF AccountsInv, NeverLockedEarly, CounterTellsFailures, LastPasswordStands,
       StaffIsWhatWasAssigned
  <2> QED
    BY <2>1, <2>2, <2>3, <2>4 DEF AccountsInv
<1> QED
  BY <1>1, <1>2, <1>3, <1>4, <1>5 DEF Next

\* The inductive invariant holds in every reachable state.
LEMMA AccountsInvariant == Spec => []AccountsInv
BY AccountsInit, AccountsStep, PTL DEF Spec

(* Accounts, staff and what is contended have their types, and no two rows of
   the staff one id, whatever was deleted while others wrote.               *)
THEOREM AccountsTypeCorrect == Spec => []TypeOK
<1>1. AccountsInv => TypeOK
  BY DEF AccountsInv, Typed, TypeOK, Row
<1> QED
  BY <1>1, AccountsInvariant, PTL

(* However many logins of one account overlap, a lock is never early: a copy
   counts no wrong password that was not given when it was read.            *)
THEOREM NeverLockedTooEarly == Spec => []NeverLockedEarly
<1>1. AccountsInv => NeverLockedEarly
  BY DEF AccountsInv
<1> QED
  BY <1>1, AccountsInvariant, PTL

(* Nothing but overlapping logins and unlocks of one account makes its counter
   tell anything else than the wrong passwords since the last right one.    *)
THEOREM CounterIsRight == Spec => []CounterTellsFailures
<1>1. AccountsInv => CounterTellsFailures
  BY DEF AccountsInv
<1> QED
  BY <1>1, AccountsInvariant, PTL

(* No copy read before a password was set ever brings the old one back.     *)
THEOREM LastPasswordWins == Spec => []LastPasswordStands
<1>1. AccountsInv => LastPasswordStands
  BY DEF AccountsInv
<1> QED
  BY <1>1, AccountsInvariant, PTL

(* The DELETE of a request finds and locks all the rows it should replace,
   unless another request changes the staff of the same branch.             *)
THEOREM StaffIsRight == Spec => []StaffIsWhatWasAssigned
<1>1. AccountsInv => StaffIsWhatWasAssigned
  BY DEF AccountsInv
<1> QED
  BY <1>1, AccountsInvariant, PTL

\* How a lock may go.
LockKept ==
  \A u \in DOMAIN accounts \ contended :
    accounts[u].locked_until = "future" =>
      \/ u \notin DOMAIN accounts'
      \/ accounts'[u].locked_until = "future"
      \/ accounts'[u].locked_until = "past"
      \/ Unlocks(u)

\* In every step a lock on an uncontended account stays, expires, goes with the account or is released.
LEMMA LockKeptStep == AccountsInv /\ [Next]_vars => LockKept
<1> SUFFICES ASSUME AccountsInv, [Next]_vars PROVE LockKept
  OBVIOUS
<1>1. UNCHANGED accounts => LockKept
  BY DEF LockKept
<1>2. ASSUME NEW p \in Sessions, Step(p) PROVE LockKept
  <2>1. CASE WriteAccount(p)
    <3> DEFINE r == session[p].req
               u == r.user
               copy == session[p].copy
               new == Updated(r, accounts[u], copy)
    <3>1. CASE ~ Exists(u)
      BY <1>1, <2>1, <3>1 DEF WriteAccount, Fail, tables
    <3>2. CASE Exists(u)
      <4>1. /\ At(p, "write") /\ r \in Served /\ r.kind \in AccountKinds \ {"delete"}
            /\ copy \in Account /\ KnowsAccount(p) /\ Busy(p)
        BY <2>1 DEF AccountsInv, Typed, OnCourse, Session, WriteAccount, At, Busy
      <4>2. accounts \in [DOMAIN accounts -> Account] /\ accounts[u] \in Account
        BY <3>2 DEF AccountsInv, Typed, Exists
      <4>3. /\ DOMAIN accounts' = DOMAIN accounts
            /\ accounts'[u] = new
            /\ \A v \in DOMAIN accounts \ {u} : accounts'[v] = accounts[v]
        BY <2>1, <3>2, <4>2 DEF WriteAccount, Exists
      <4>4. r.kind \notin {"login", "unlock"} => new.locked_until = accounts[u].locked_until
        <5> HIDE DEF r, copy, u
        <5> QED
          BY <4>1, <4>2, UpdatedFacts
      <4>5. ASSUME u \notin contended, accounts[u].locked_until = "future"
            PROVE  new.locked_until = "future" \/ Unlocks(u)
        <5>1. CASE r.kind = "login"
          <6>1. copy.locked_until = "future" /\ copy.locked_until # "future"
            BY <3>2, <4>1, <4>5, <5>1 DEF KnowsAccount
          <6> QED
            BY <6>1
        <5>2. CASE r.kind = "unlock"
          <6>1. r = [kind |-> "unlock", user |-> u]
            BY <4>1, <5>2, ServedFacts
          <6> QED
            BY <4>1, <6>1 DEF Unlocks
        <5>3. CASE r.kind \notin {"login", "unlock"}
          BY <4>4, <4>5, <5>3
        <5> QED
          BY <5>1, <5>2, <5>3
      <4> HIDE DEF new, u
      <4> QED
        BY <4>3, <4>5 DEF LockKept
    <3> QED
      BY <3>1, <3>2
  <2>2. CASE InsertAccount(p)
    <3>1. \A u \in DOMAIN accounts : u # session[p].req.user
      BY <2>2 DEF AccountsInv, OnCourse, UnbornIsNew, Registers, InsertAccount, At, Exists
    <3>2. UNCHANGED accounts \/ \A u \in DOMAIN accounts : accounts'[u] = accounts[u]
      BY <2>2, <3>1 DEF InsertAccount, Fail, tables
    <3> QED
      BY <3>2 DEF LockKept
  <2>3. CASE DeleteAccount(p)
    BY <2>3 DEF DeleteAccount, LockKept
  <2>4. CASE ~ (WriteAccount(p) \/ InsertAccount(p) \/ DeleteAccount(p))
    BY <1>1, <1>2, <2>4 DEF Step, ReadAccount, ReadNames, DeleteRefused, ReadStaff, FindStaff,
       ClearStaff, CommitStaff, Fail, tables
  <2> QED
    BY <2>1, <2>2, <2>3, <2>4
<1>3. ASSUME NEW u \in Users, LockPasses(u) PROVE LockKept
  BY <1>3 DEF LockPasses, LockKept, Exists, AccountsInv, Typed, Account
<1>4. CASE UNCHANGED accounts
  BY <1>1, <1>4
<1> QED
  BY <1>2, <1>3, <1>4 DEF Next, Crash, Begin, vars, tables

(* A lock is taken away by an unlock, or ends: a login that was let through
   before the lock cannot write it away, unless logins overlapped.          *)
THEOREM LocksHold == Spec => LockIsKept
<1>1. AccountsInv /\ [Next]_vars => [LockKept]_vars
  BY LockKeptStep
<1> QED
  BY <1>1, AccountsInvariant, PTL DEF Spec, LockIsKept, LockKept
=============================================================================
