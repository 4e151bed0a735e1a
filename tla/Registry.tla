------------------------------ MODULE Registry ------------------------------
(***************************************************************************)
(* The tables other requests refer to: branches, vaults, currencies and    *)
(* customers.  Every one has columns that are UNIQUE (`keys`); the first   *)
(* three also have one special row: the main branch, the main vault, the   *)
(* base currency.  A request is a sequence of SELECTs, one flush that      *)
(* writes a row in an open transaction, and its commit, between which      *)
(* other requests run (READ COMMITTED, no locks asked for).  An import of  *)
(* customers commits after each of its entries.                            *)
(***************************************************************************)
EXTENDS Naturals, Sequences, FiniteSets

CONSTANTS
  Codes,               \* codes of branches, vaults and currencies
  Opening,             \* the rows the seed scripts insert, by table
  Changes,             \* what a PUT sets: functions from some Flags to BOOLEAN
  Imports,             \* lists of customers, each a set of ids
  Numbers,             \* customer numbers, drawn at random
  Sessions,            \* requests that may run at the same time
  Kinds,               \* which requests are made, as <<kind, table>>
  MaxRequests          \* bound: requests ever made

VARIABLES
  rows,        \* the tables, oldest row first
  session,     \* per session, what its request has still to do
  made,        \* requests made
  contended,   \* history: tables where two requests tried to have a special row
               \*   at one time
  reopened,    \* history: special branches that were closed and opened again
  imports      \* history: how each import ended

ghosts == <<contended, reopened, imports>>
vars   == <<rows, session, made, ghosts>>

Tables == {"branch", "vault", "currency", "customer"}
Flags  == {"special", "active"}

IdSets == UNION {{list[n] : n \in DOMAIN list} : list \in Imports}

Keys ==
  {{c} : c \in Codes} \cup {ids \cup {n} : ids \in IdSets, n \in Numbers}
    \cup {Opening["customer"][k].keys : k \in DOMAIN Opening["customer"]}

Row == [keys : Keys, special : BOOLEAN, active : BOOLEAN]

ASSUME RegistryAssumption ==
  /\ Opening \in [Tables -> Seq(Row)]
  /\ \A t \in Tables : \A j, k \in DOMAIN Opening[t] :
       \/ j = k
       \/ /\ Opening[t][j].keys \cap Opening[t][k].keys = {}
          /\ ~ (Opening[t][j].special /\ Opening[t][k].special)
  /\ \A c \in Changes : DOMAIN c \subseteq Flags /\ \A f \in DOMAIN c : c[f] \in BOOLEAN
  /\ \A list \in Imports : list \in Seq(IdSets) /\ list # <<>>
  /\ MaxRequests \in Nat

Rows(t) == DOMAIN rows[t]

-----------------------------------------------------------------------------
(* Requests, and what each handler does, in its order.  `known` says       *)
(* whether the branch a customer is to be registered at exists: nobody     *)
(* looks before the row is written.                                        *)

Creates ==
  [kind : {"create"}, table : {"branch", "vault"},
   row : [keys : {{c} : c \in Codes}, special : BOOLEAN, active : {TRUE}]]
    \cup [kind : {"create"}, table : {"currency"},
          row : [keys : {{c} : c \in Codes}, special : BOOLEAN, active : BOOLEAN]]
    \cup [kind : {"create"}, table : {"customer"},
          row : [keys : IdSets, special : {FALSE}, active : {TRUE}], known : BOOLEAN]

\* PUT sets any flag of a branch or a currency; a vault keeps its type.
Updates ==
  {r \in UNION {[kind : {"update"}, table : {t}, at : Rows(t), change : Changes] :
                  t \in {"branch", "vault", "currency"}} :
     r.table = "vault" => "special" \notin DOMAIN r.change}

\* Nothing is ever deleted: a row is switched off, and a currency on again.
Switches ==
  [kind : {"activate", "deactivate"}, table : {"currency"}, at : Rows("currency")]
    \cup [kind : {"delete"}, table : {"branch"}, at : Rows("branch")]
    \cup [kind : {"deactivate"}, table : {"customer"}, at : Rows("customer")]

Requests ==
  {r \in Creates \cup Updates \cup Switches
      \cup [kind : {"import"}, table : {"customer"}, list : Imports, known : BOOLEAN] :
    <<r.kind, r.table>> \in Kinds}

Registers(r) == r.table = "customer" /\ r.kind \in {"create", "import"}

Do(op, row, n) == [op |-> op, row |-> row, n |-> n]

NoRow == [keys |-> {}]

Each(ops, row, n) == [k \in DOMAIN ops |-> Do(ops[k], row, n)]

\* create_currency asks for the base currency in the service and again in the
\* repository; create_vault leaves the code to the database; a customer gets a
\* number.
Creation(r) ==
  LET ops == CASE r.table = "customer" -> <<"keys", "number", "flush", "commit">>
               [] r.table = "vault" /\ ~ r.row.special    -> <<"flush", "commit">>
               [] r.table = "vault" /\ r.row.special      -> <<"special", "flush", "commit">>
               [] r.table = "branch" /\ r.row.special     -> <<"keys", "special", "flush", "commit">>
               [] r.table = "currency" /\ r.row.special   ->
                    <<"special", "keys", "special", "flush", "commit">>
               [] OTHER                                   -> <<"keys", "flush", "commit">>
  IN Each(ops, r.row, 1)

\* An import creates its customers one after the other, each with its commit.
Entry == <<"keys", "number", "flush", "commit">>

Customer(ids) == [keys |-> ids, special |-> FALSE, active |-> TRUE]

\* What an import has still to do after its first m accesses.
ImportAfter(list, m) ==
  [k \in 1..4 * Len(list) - m |->
     LET n == ((m + k - 1) \div 4) + 1
     IN  Do(Entry[((m + k - 1) % 4) + 1], Customer(list[n]), n)]

Program(r) ==
  CASE r.kind = "create" -> Creation(r)
    [] r.kind = "import" -> ImportAfter(r.list, 0)
    [] r.kind \in {"update", "delete", "activate", "deactivate"} -> <<Do("load", NoRow, 1)>>
    [] OTHER             -> Each(<<"read", "save">>, NoRow, 1)    \* CustomerFiles

-----------------------------------------------------------------------------
(* Sessions.  The operators named <definition>_<fault> are the faults the  *)
(* runs are tried against: each replaces the definition after it by a      *)
(* plausible mistake.                                                      *)

(* `copy` is the row as loaded, `change` what the handler sets in it, `number`
   the customer number drawn, `write` the row flushed and not committed (at 0
   when it is new); `failed` are the entries of an import reported as failed,
   `alone` whether nobody else registered a customer at the same time.     *)
Begun(r) ==
  [req |-> r, todo |-> Program(r), copy |-> NoRow, change |-> <<>>, number |-> {},
   write |-> <<>>, failed |-> {}, alone |-> TRUE]

Idle == [Begun([kind |-> "none"]) EXCEPT !.todo = <<>>]

Busy(p)   == session[p].todo # <<>>
At(p, op) == Busy(p) /\ Head(session[p].todo).op = op
Others(p) == {q \in Sessions \ {p} : Busy(q)}
Table(p)  == session[p].req.table
Me(p)     == IF session[p].req.kind \in {"create", "import"} THEN 0 ELSE session[p].req.at
New(p)    == Head(session[p].todo).row
Rest(p)   == Tail(session[p].todo)

\* What an import leaves for its history when it ends as s.
Ended(p, s, aborted) ==
  imports' = IF s.req.kind = "import"
             THEN imports \cup {[list |-> s.req.list, failed |-> s.failed,
                                 alone |-> s.alone, known |-> s.req.known,
                                 aborted |-> aborted]}
             ELSE imports

\* p goes on as s, with `rest` still to do.
Goto(p, s, rest) ==
  IF rest = <<>> THEN session' = [session EXCEPT ![p] = Idle] /\ Ended(p, s, FALSE)
  ELSE session' = [session EXCEPT ![p] = [s EXCEPT !.todo = rest]] /\ UNCHANGED imports

\* The entry of an import under way, and what is left of the import after it.
EntryOf(p)     == Head(session[p].todo).n
NextEntries(p) ==
  IF session[p].req.kind = "import" THEN ImportAfter(session[p].req.list, 4 * EntryOf(p)) ELSE <<>>

\* The handler raises: its transaction is undone, and the request is over.  An
\* import reports the entry and goes on with the next one.
Refuse(p) ==
  /\ Goto(p, [session[p] EXCEPT !.failed = @ \cup {EntryOf(p)}, !.write = <<>>, !.number = {}],
          NextEntries(p))
  /\ UNCHANGED <<rows, contended, reopened>>

\* The database raises while an import writes: the rollback leaves current_user
\* expired, and the next entry, which reads its id, ends the request.
Abort(p) ==
  IF NextEntries(p) = <<>> THEN Refuse(p)
  ELSE /\ session' = [session EXCEPT ![p] = Idle]
       /\ Ended(p, session[p], TRUE)
       /\ UNCHANGED <<rows, contended, reopened>>

-----------------------------------------------------------------------------
(* The checks.                                                             *)

\* get_main_branch and get_base_currency look at active rows, create_vault at
\* all of them; scalar_one_or_none raises when there are two.
SpecialSeen(t) ==
  {k \in Rows(t) : rows[t][k].special /\ (rows[t][k].active \/ t = "vault")}

CheckSpecial_Never(p) ==
  /\ At(p, "special")
  /\ Goto(p, session[p], Rest(p))
  /\ UNCHANGED <<rows, contended, reopened>>

CheckSpecial(p) ==
  /\ At(p, "special")
  /\ IF SpecialSeen(Table(p)) \subseteq {Me(p)}
     THEN Goto(p, session[p], Rest(p)) /\ UNCHANGED <<rows, contended, reopened>>
     ELSE Refuse(p)

Taken(t, keys) == \E k \in Rows(t) : rows[t][k].keys \cap keys # {}

CheckKeys_Never(p) ==
  /\ At(p, "keys")
  /\ Goto(p, session[p], Rest(p))
  /\ UNCHANGED <<rows, contended, reopened>>

CheckKeys(p) ==
  /\ At(p, "keys")
  /\ IF Taken(Table(p), New(p).keys) THEN Refuse(p)
     ELSE Goto(p, session[p], Rest(p)) /\ UNCHANGED <<rows, contended, reopened>>

\* _generate_unique_customer_number: a number nobody has, or a failure when the
\* ten numbers drawn were all taken.
DrawNumber(p) ==
  /\ At(p, "number")
  /\ \/ \E n \in Numbers :
          /\ ~ Taken("customer", {n})
          /\ Goto(p, [session[p] EXCEPT !.number = {n}], Rest(p))
          /\ UNCHANGED <<rows, contended, reopened>>
     \/ /\ \E n \in Numbers : Taken("customer", {n})
        /\ Refuse(p)

-----------------------------------------------------------------------------
(* Changes.                                                                *)

\* The row read by the handler decides what it checks: the main branch is not
\* deleted, a base currency not deactivated, and a row that is special already
\* is not checked again.
MayChange(r, copy) ==
  CASE r.kind \in {"delete", "deactivate"} -> ~ copy.special
    [] r.table = "vault"                  -> copy.active
    [] OTHER                              -> TRUE

Change(r) ==
  CASE r.kind = "update"   -> r.change
    [] r.kind = "activate" -> [f \in {"active"} |-> TRUE]
    [] OTHER               -> [f \in {"active"} |-> FALSE]

Sets(change, flag) == flag \in DOMAIN change /\ change[flag]

Load(p) ==
  LET r      == session[p].req
      copy   == rows[r.table][r.at]
      change == Change(r)
      ops    == IF ~ Sets(change, "special") \/ copy.special THEN <<"flush", "commit">>
                ELSE IF r.table = "currency" THEN <<"special", "special", "flush", "commit">>
                ELSE <<"special", "flush", "commit">>
  IN /\ At(p, "load")
     /\ IF MayChange(r, copy)
        THEN /\ Goto(p, [session[p] EXCEPT !.copy = copy, !.change = change],
                     Each(ops, copy, 1))
             /\ UNCHANGED <<rows, contended, reopened>>
        ELSE Refuse(p)

\* delete_branch refuses a branch with money in it.
BranchHoldsMoney(p) ==
  /\ At(p, "load")
  /\ session[p].req.kind = "delete"
  /\ Refuse(p)

\* Only what differs from the copy is written, into the row as it is by now.
Changed(row, copy, change) ==
  [keys |-> row.keys,
   special |-> IF "special" \in DOMAIN change /\ change.special # copy.special
               THEN change.special ELSE row.special,
   active  |-> IF "active" \in DOMAIN change /\ change.active # copy.active
               THEN change.active ELSE row.active]

Writes(p) == \E f \in DOMAIN session[p].change : session[p].change[f] # session[p].copy[f]

Written_NoNumber(p) ==
  IF Me(p) = 0 THEN New(p)
  ELSE Changed(rows[Table(p)][Me(p)], session[p].copy, session[p].change)

Written(p) ==
  IF Me(p) = 0 THEN [New(p) EXCEPT !.keys = @ \cup session[p].number]
  ELSE Changed(rows[Table(p)][Me(p)], session[p].copy, session[p].change)

Pending(q, t) == Busy(q) /\ session[q].req.table = t /\ session[q].write # <<>>

\* A row somebody else has written, or a key somebody else has inserted.
MustWait(p) ==
  \E q \in Others(p) :
    /\ Pending(q, Table(p))
    /\ IF Me(p) = 0
       THEN session[q].write[1].at = 0 /\ session[q].write[1].row.keys \cap Written(p).keys # {}
       ELSE session[q].write[1].at = Me(p)

\* check_single_base_currency, whatever is_active the row itself has.
TriggerRefuses(p) ==
  /\ Table(p) = "currency"
  /\ Written(p).special
  /\ SpecialSeen("currency") \ {Me(p)} # {}

\* branch_id refers to branches.
NoSuchBranch(r) == Registers(r) /\ ~ r.known

Flush(p) ==
  /\ At(p, "flush")
  /\ IF Me(p) # 0 /\ ~ Writes(p)
     THEN Goto(p, session[p], Rest(p)) /\ UNCHANGED <<rows, contended, reopened>>
     ELSE /\ ~ MustWait(p)
          /\ IF \/ TriggerRefuses(p) \/ NoSuchBranch(session[p].req)
                \/ Me(p) = 0 /\ Taken(Table(p), Written(p).keys)
             THEN Abort(p)
             ELSE /\ Goto(p, [session[p] EXCEPT !.write = <<[at |-> Me(p), row |-> Written(p)]>>],
                          Rest(p))
                  /\ UNCHANGED <<rows, contended, reopened>>

Reopens(w) == w.at # 0 /\ w.row.special /\ w.row.active /\ ~ rows["branch"][w.at].active

Commit(p) ==
  LET t == Table(p)
  IN /\ At(p, "commit")
     /\ Goto(p, [session[p] EXCEPT !.write = <<>>, !.number = {}], Rest(p))
     /\ UNCHANGED contended
     /\ IF session[p].write = <<>> THEN UNCHANGED <<rows, reopened>>
        ELSE LET w == session[p].write[1]
             IN /\ rows' = [rows EXCEPT ![t] = IF w.at = 0 THEN Append(@, w.row)
                                               ELSE [@ EXCEPT ![w.at] = w.row]]
                /\ reopened' = IF t = "branch" /\ Reopens(w) THEN reopened \cup {w.at}
                               ELSE reopened

Step(p) ==
  /\ \/ CheckSpecial(p) \/ CheckKeys(p) \/ DrawNumber(p)
     \/ Load(p) \/ BranchHoldsMoney(p) \/ Flush(p) \/ Commit(p)
  /\ UNCHANGED made

-----------------------------------------------------------------------------

\* A request that may give its table a special row it had not.
Claims(r) ==
  CASE r.kind = "create" -> r.row.special
    [] r.kind = "update" -> Sets(r.change, "special") \/ Sets(r.change, "active")
    [] OTHER             -> r.kind = "activate"

Overlaps(r, q) ==
  session[q].req.table = r.table /\ Registers(r) = Registers(session[q].req)

Begin(p, r) ==
  LET near == {q \in Sessions : Busy(q) /\ Overlaps(r, q)}
  IN /\ ~ Busy(p)
     /\ made < MaxRequests
     /\ made' = made + 1
     /\ session' = [q \in Sessions |->
                      IF q = p THEN [Begun(r) EXCEPT !.alone = near = {}]
                      ELSE IF q \in near THEN [session[q] EXCEPT !.alone = FALSE]
                      ELSE session[q]]
     /\ contended' = IF Claims(r) /\ \E q \in near : Claims(session[q].req)
                     THEN contended \cup {r.table} ELSE contended
     /\ UNCHANGED <<rows, reopened, imports>>

\* The server dies or loses its connection: what is not committed is undone.
Crash(p) ==
  /\ Busy(p)
  /\ session' = [session EXCEPT ![p] = Idle]
  /\ UNCHANGED <<rows, made, ghosts>>

Init ==
  /\ rows = Opening
  /\ session = [p \in Sessions |-> Idle]
  /\ made = 0
  /\ contended = {}
  /\ reopened = {}
  /\ imports = {}

Next == \E p \in Sessions : Step(p) \/ Crash(p) \/ \E r \in Requests : Begin(p, r)

Spec == Init /\ [][Next]_vars
-----------------------------------------------------------------------------
(* What the tables promise.                                                *)

TypeOK ==
  /\ rows \in [Tables -> Seq(Row)]
  /\ \A t \in Tables : \A j, k \in Rows(t) : rows[t][j].keys \cap rows[t][k].keys # {} => j = k
  /\ contended \subseteq Tables
  /\ reopened \subseteq Rows("branch")

(* Where no two requests tried to have a special row at one time there is at
   most one of them, however a row is created, changed, closed or deleted: the
   base currency even after it was closed and opened again, the main branch
   unless it was.                                                          *)
UncontendedSpecialIsUnique ==
  \A t \in {"branch", "vault", "currency"} \ contended :
    \A j, k \in SpecialSeen(t) \ IF t = "branch" THEN reopened ELSE {} : j = k

(* An import to a branch that exists is answered, unless somebody else
   registers customers meanwhile; and of any import that is answered, every
   customer not reported as failed is registered, whoever else of the list
   was refused.                                                            *)
ImportGoesThrough ==
  \A i \in imports :
    IF i.aborted THEN ~ i.alone \/ ~ i.known
    ELSE \A n \in DOMAIN i.list \ i.failed :
           \E k \in Rows("customer") : i.list[n] \subseteq rows["customer"][k].keys

(* "Only one main branch is allowed." *)
OneMainBranch == Cardinality(SpecialSeen("branch")) <= 1
=============================================================================
