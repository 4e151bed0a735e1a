--------------------------- MODULE RegistryProofs ---------------------------
(***************************************************************************)
(* Keys are unique, special rows are, and imports go through, for any      *)
(* number of sessions, codes, customers and lists, however the requests of *)
(* Registry and CustomerFiles interleave and wherever they crash.  The     *)
(* invariant says, for each point a request can have reached, what its     *)
(* checks have found that still is so.                                     *)
(***************************************************************************)
EXTENDS CustomerFiles, SequenceTheorems, TLAPS

Specials   == {"branch", "vault", "currency"}
FileKinds  == {"verify", "assess", "document"}
Changing   == {"update", "delete", "activate", "deactivate"}

None == [kind |-> "none"]

\* The requests a session may be serving, whatever rows there are by now.
Served ==
  Creates
    \cup [kind : {"import"}, table : {"customer"}, list : Imports, known : BOOLEAN]
    \cup {r \in [kind : {"update"}, table : Specials, at : Nat, change : Changes] :
            r.table = "vault" => "special" \notin DOMAIN r.change}
    \cup [kind : {"activate", "deactivate"}, table : {"currency"}, at : Nat]
    \cup [kind : {"delete"}, table : {"branch"}, at : Nat]
    \cup [kind : {"deactivate"}, table : {"customer"}, at : Nat]
    \cup [kind : {"verify"}, table : {"customer"}, at : Nat, level : Levels \cup {"null"}]
    \cup [kind : {"assess"}, table : {"customer"}, at : Nat, level : Levels]
    \cup [kind : {"document"}, table : {"customer"}, at : Nat]
    \cup {None}

Write == [at : Nat, row : Row]

Fields == {"req", "todo", "copy", "change", "number", "write", "failed", "alone"}

SessionType(s) ==
  /\ DOMAIN s = Fields
  /\ s.req \in Served
  /\ s.number \in {{}} \cup {{n} : n \in Numbers}
  /\ s.write # <<>> => s.write = <<s.write[1]>> /\ s.write[1] \in Write
  /\ s.alone \in BOOLEAN

UniqueKeys ==
  \A t \in Tables : \A j, k \in Rows(t) : rows[t][j].keys \cap rows[t][k].keys # {} => j = k

Typed ==
  /\ rows \in [Tables -> Seq(Row)]
  /\ contended \subseteq Tables
  /\ reopened \subseteq Rows("branch")
  /\ DOMAIN session = Sessions
  /\ \A p \in Sessions : SessionType(session[p])

Mine(s) == IF s.req.kind \in {"create", "import"} THEN 0 ELSE s.req.at
Doing(s, op) == s.todo # <<>> /\ Head(s.todo).op = op

\* What may be left to do of a creation, and of a change that has read its row.
LeftToCreate(r) ==
  {<<"commit">>, <<"flush", "commit">>}
    \cup CASE r.table = "branch" ->
                IF r.row.special
                THEN {<<"special", "flush", "commit">>, <<"keys", "special", "flush", "commit">>}
                ELSE {<<"keys", "flush", "commit">>}
           [] r.table = "vault" ->
                IF r.row.special THEN {<<"special", "flush", "commit">>} ELSE {}
           [] r.table = "currency" ->
                IF r.row.special
                THEN {<<"special", "flush", "commit">>, <<"keys", "special", "flush", "commit">>,
                      <<"special", "keys", "special", "flush", "commit">>}
                ELSE {<<"keys", "flush", "commit">>}
           [] r.table = "customer" ->
                {<<"number", "flush", "commit">>, <<"keys", "number", "flush", "commit">>}

LeftToChange ==
  {<<"commit">>, <<"flush", "commit">>, <<"special", "flush", "commit">>,
   <<"special", "special", "flush", "commit">>}

Loading == <<Do("load", NoRow, 1)>>
Reading == <<Do("read", NoRow, 1), Do("save", NoRow, 1)>>
Saving  == <<Do("save", NoRow, 1)>>

\* A request goes through the accesses of its kind.
OnCourse(s, tables) ==
  LET r == s.req
  IN /\ r.kind = "create" => \E ops \in LeftToCreate(r) : s.todo = Each(ops, r.row, 1)
     /\ r.kind = "import" => \E m \in 0..4 * Len(r.list) - 1 : s.todo = ImportAfter(r.list, m)
     /\ r.kind \in Changing =>
          /\ r.at \in DOMAIN tables[r.table]
          /\ \/ s.todo = Loading
             \/ /\ s.copy \in Row /\ s.change = Change(r)
                /\ \E ops \in LeftToChange : s.todo = Each(ops, s.copy, 1)
     /\ r.kind \in FileKinds =>
          /\ r.at \in DOMAIN tables["customer"]
          /\ s.todo \in {Reading, Saving}
     /\ r.kind = "none" => s.todo = <<>>

TakenIn(table, keys) == \E k \in DOMAIN table : table[k].keys \cap keys # {}

\* A row is flushed just before it is committed; a new one has keys nobody has,
\* an old one nobody else has written since.
KnowsWrite(s, tables) ==
  LET t == s.req.table
      w == s.write[1]
  IN s.write # <<>> =>
       /\ Doing(s, "commit")
       /\ w.at = Mine(s)
       /\ w.at = 0 => ~ TakenIn(tables[t], w.row.keys)
       /\ w.at # 0 => w.row = Changed(tables[t][w.at], s.copy, s.change)

\* A number is drawn for a customer, before the row is flushed.
KnowsNumber(s) ==
  /\ s.number # {} => s.req.table = "customer"
  /\ Doing(s, "flush") /\ Mine(s) = 0 /\ s.req.table = "customer" => s.number # {}

Listed(table, keys) == \E k \in DOMAIN table : keys \subseteq table[k].keys

\* An import has registered the customers of its entries so far that have not
\* failed; alone, it meets no key that its checks have not met.
KnowsImport(s, tables) ==
  LET r == s.req
      o == Head(s.todo)
      customers == tables["customer"]
  IN r.kind = "import" =>
       /\ \A n \in DOMAIN r.list : n < o.n => n \in s.failed \/ Listed(customers, r.list[n])
       /\ s.alone /\ o.op \in {"number", "flush"} => ~ TakenIn(customers, o.row.keys)
       /\ s.alone /\ o.op = "flush" => ~ TakenIn(customers, s.number)
       /\ o.op = "commit" => s.write # <<>> /\ o.row.keys \subseteq s.write[1].row.keys

SpecialIn(table, t) == {k \in DOMAIN table : table[k].special /\ (table[k].active \/ t = "vault")}

\* A request that is about to write a special row has found no other.
KnowsSpecial(s, tables, raced) ==
  LET t == s.req.table
  IN Doing(s, "flush") /\ t \in Specials \ raced =>
       /\ s.req.kind = "create" /\ s.req.row.special => SpecialIn(tables[t], t) = {}
       /\ s.req.kind \in Changing /\ Sets(s.change, "special") /\ ~ s.copy.special =>
            SpecialIn(tables[t], t) \subseteq {s.req.at}

\* So has one that has written it, unless the row was seen as special before, or
\* is a branch opened again.
KnowsClaim(s, tables, raced) ==
  LET t == s.req.table
      w == s.write[1]
      seen == SpecialIn(tables[t], t)
  IN s.write # <<>> /\ t \in Specials \ raced /\ w.row.special /\ (w.row.active \/ t = "vault") =>
       \/ w.at # 0 /\ w.at \in seen
       \/ /\ Claims(s.req)
          /\ \/ seen \subseteq {w.at}
             \/ t = "branch" /\ w.at # 0 /\ w.row.active /\ ~ tables[t][w.at].active

Knows(s, tables, raced) ==
  /\ OnCourse(s, tables)
  /\ KnowsWrite(s, tables)
  /\ KnowsNumber(s)
  /\ KnowsImport(s, tables)
  /\ KnowsSpecial(s, tables, raced)
  /\ KnowsClaim(s, tables, raced)

\* Two requests never have one row or one key in hand; two that may claim a
\* special row have made their table contended; and of two that register
\* customers neither is alone.
Apart(s, u, raced) ==
  s.todo # <<>> /\ u.todo # <<>> /\ s.req.table = u.req.table =>
    /\ s.write # <<>> /\ u.write # <<>> =>
         IF s.write[1].at = 0
         THEN u.write[1].at = 0 => s.write[1].row.keys \cap u.write[1].row.keys = {}
         ELSE u.write[1].at # s.write[1].at
    /\ Claims(s.req) /\ Claims(u.req) => s.req.table \in raced
    /\ Registers(s.req) /\ Registers(u.req) => ~ s.alone /\ ~ u.alone

RegistryInv ==
  /\ Typed
  /\ UniqueKeys
  /\ \A p \in Sessions : Knows(session[p], rows, contended)
  /\ \A p, q \in Sessions : p # q => Apart(session[p], session[q], contended)
  /\ UncontendedSpecialIsUnique
  /\ ImportGoesThrough

-----------------------------------------------------------------------------
(* Requests.                                                                *)

\* What is known of the request a session serves: its kind, and the type of each field that kind has.
LEMMA ServedFacts ==
  ASSUME NEW r \in Served
  PROVE  /\ r.kind \in {"create", "import", "none"} \cup Changing \cup FileKinds
         /\ r.kind = "create" =>
              /\ r.table \in Tables
              /\ r.row \in [keys : {{c} : c \in Codes} \cup IdSets, special : BOOLEAN, active : BOOLEAN]
              /\ r.table \in Specials => r.row.keys \in {{c} : c \in Codes}
              /\ r.table = "customer" => r.row.keys \in IdSets /\ ~ r.row.special
         /\ r.kind = "import" => r.table = "customer" /\ r.list \in Imports
         /\ r.kind \in Changing => r.table \in Tables /\ r.at \in Nat
         /\ r.kind = "update" =>
              /\ r.change \in Changes
              /\ r.table \in Specials
              /\ r.table = "vault" => "special" \notin DOMAIN r.change
         /\ r.kind = "activate" => r.table = "currency"
         /\ r.kind \in FileKinds => r.table = "customer" /\ r.at \in Nat
<1>1. ASSUME r \in Creates
      PROVE  /\ r.kind = "create" /\ r.table \in Tables
             /\ r.row \in [keys : {{c} : c \in Codes} \cup IdSets, special : BOOLEAN, active : BOOLEAN]
             /\ r.table \in Specials => r.row.keys \in {{c} : c \in Codes}
             /\ r.table = "customer" => r.row.keys \in IdSets /\ ~ r.row.special
  BY <1>1 DEF Creates, Tables, Specials
<1>2. r \notin Creates => r.kind # "create"
  BY DEF Served, None
<1> QED
  BY <1>1, <1>2 DEF Served, None, Changing, FileKinds, Tables, Specials

\* What may claim a special row is on a table that has one.
LEMMA ClaimFacts ==
  ASSUME NEW r \in Served, Claims(r)
  PROVE  /\ r.kind \in {"create"} \cup Changing
         /\ r.table \in Specials
         /\ ~ Registers(r)
<1>1. r.kind \in {"create", "update", "activate"}
  BY DEF Claims
<1>2. r.kind = "create" => r.row.special
  BY DEF Claims
<1>3. r.kind = "activate" => r.table = "currency"
  BY ServedFacts
<1> QED
  BY <1>1, <1>2, <1>3, ServedFacts DEF Tables, Specials, Changing, Registers

\* The change a request makes sets flags only, and one that sets "special" or "active" claims the row.
LEMMA ChangeFacts ==
  ASSUME NEW r \in Served, r.kind \in Changing
  PROVE  LET change == Change(r)
         IN /\ DOMAIN change \subseteq Flags
            /\ \A f \in DOMAIN change : change[f] \in BOOLEAN
            /\ "special" \in DOMAIN change => r.kind = "update" /\ r.table \in {"branch", "currency"}
            /\ Sets(change, "special") \/ Sets(change, "active") => Claims(r)
<1>1. CASE r.kind = "update"
  <2>1. Change(r) = r.change
    BY <1>1 DEF Change
  <2>2. r.change \in Changes /\ r.table \in Specials /\ (r.table = "vault" => "special" \notin DOMAIN r.change)
    BY <1>1, ServedFacts
  <2> QED
    BY <1>1, <2>1, <2>2, RegistryAssumption DEF Claims, Specials
<1>2. CASE r.kind = "activate"
  <2>1. Change(r) = [f \in {"active"} |-> TRUE]
    BY <1>2 DEF Change
  <2> QED
    BY <1>2, <2>1 DEF Claims, Flags, Sets
<1>3. CASE r.kind \in {"delete", "deactivate"}
  <2>1. Change(r) = [f \in {"active"} |-> FALSE]
    BY <1>3 DEF Change
  <2> QED
    BY <2>1 DEF Flags, Sets
<1> QED
  BY <1>1, <1>2, <1>3 DEF Changing

-----------------------------------------------------------------------------
(* Plans.                                                                   *)

Steps == {"special", "keys", "number", "flush", "commit"}

\* A plan made of a list of operations starts with the first and goes on with the rest.
LEMMA EachFacts ==
  ASSUME NEW ops \in Seq(Steps), ops # <<>>, NEW row, NEW n
  PROVE  LET t == Each(ops, row, n)
         IN /\ t # <<>>
            /\ Head(t) = Do(Head(ops), row, n)
            /\ Tail(t) = Each(Tail(ops), row, n)
            /\ Tail(t) = <<>> <=> Tail(ops) = <<>>
<1> DEFINE S == {Do(ops[k], row, n) : k \in DOMAIN ops}
           t == Each(ops, row, n)
           u == Each(Tail(ops), row, n)
<1>1. /\ Len(ops) \in Nat \ {0} /\ DOMAIN ops = 1..Len(ops)
      /\ Head(ops) = ops[1]
      /\ Tail(ops) \in Seq(Steps) /\ Len(Tail(ops)) = Len(ops) - 1
      /\ \A k \in 1..Len(Tail(ops)) : Tail(ops)[k] = ops[k + 1]
  BY HeadTailProperties, EmptySeq
<1>2. t = [k \in 1..Len(ops) |-> Do(ops[k], row, n)]
  BY <1>1 DEF Each
<1>3. t \in Seq(S) /\ Len(t) = Len(ops)
  BY <1>1, <1>2
<1>4. u = [k \in 1..Len(ops) - 1 |-> Do(ops[k + 1], row, n)]
  BY <1>1 DEF Each
<1>5. u \in Seq(S) /\ Len(u) = Len(ops) - 1
  <2>1. \A k \in 1..Len(ops) - 1 : k + 1 \in DOMAIN ops
    BY <1>1
  <2>2. \A k \in 1..Len(ops) - 1 : Do(ops[k + 1], row, n) \in S
    BY <2>1
  <2>3. Len(ops) - 1 \in Nat
    BY <1>1
  <2> HIDE DEF S, u
  <2> QED
    BY <1>4, <2>2, <2>3
<1> HIDE DEF S, u
<1>6. t # <<>> /\ Head(t) = t[1] /\ t[1] = Do(ops[1], row, n)
  BY <1>1, <1>2, <1>3, EmptySeq
<1>7. /\ Tail(t) \in Seq(S) /\ Len(Tail(t)) = Len(t) - 1
      /\ \A k \in 1..Len(Tail(t)) : Tail(t)[k] = t[k + 1]
  BY <1>3, <1>6, HeadTailProperties
<1>8. Tail(t) = u
  <2>1. \A k \in 1..Len(Tail(t)) : Tail(t)[k] = u[k]
    BY <1>1, <1>2, <1>3, <1>4, <1>7
  <2> QED
    BY <1>1, <1>3, <1>5, <1>7, <2>1, SeqEqual
<1>9. u = <<>> <=> Tail(ops) = <<>>
  BY <1>1, <1>5, EmptySeq
<1> QED
  BY <1>1, <1>6, <1>8, <1>9 DEF u

\* The accesses of an import, one entry after the other.
LEMMA ImportFacts ==
  ASSUME NEW list \in Imports, NEW m \in 0..4 * Len(list) - 1
  PROVE  LET t == ImportAfter(list, m)
             n == (m \div 4) + 1
             o == Do(Entry[(m % 4) + 1], Customer(list[n]), n)
         IN /\ Len(list) \in Nat
            /\ n \in DOMAIN list /\ list[n] \in IdSets
            /\ t # <<>>
            /\ Head(t) = o
            /\ Tail(t) = ImportAfter(list, m + 1)
            /\ Tail(t) = <<>> <=> m + 1 = 4 * Len(list)
<1> DEFINE L == 4 * Len(list)
           e(j) == Do(Entry[(j % 4) + 1], Customer(list[(j \div 4) + 1]), (j \div 4) + 1)
           S == {e(j) : j \in Nat}
           t == ImportAfter(list, m)
           u == ImportAfter(list, m + 1)
<1>1. /\ list \in Seq(IdSets) /\ Len(list) \in Nat /\ DOMAIN list = 1..Len(list)
      /\ \A k \in 1..Len(list) : list[k] \in IdSets
      /\ L \in Nat /\ m \in Nat /\ m < L
  BY RegistryAssumption
<1>2. (m \div 4) + 1 \in 1..Len(list)
  BY <1>1
<1>3. /\ t = [k \in 1..L - m |-> e(m + k - 1)]
      /\ u = [k \in 1..L - (m + 1) |-> e((m + 1) + k - 1)]
  BY DEF ImportAfter
<1>4. (\A j \in Nat : e(j) \in S) /\ e(m) = Do(Entry[(m % 4) + 1], Customer(list[(m \div 4) + 1]), (m \div 4) + 1)
  OBVIOUS
<1> HIDE DEF e, S, L, t, u
<1>5. /\ t \in Seq(S) /\ Len(t) = L - m
      /\ u \in Seq(S) /\ Len(u) = L - (m + 1)
  <2>1. /\ \A k \in 1..L - m : m + k - 1 \in Nat
        /\ \A k \in 1..L - (m + 1) : (m + 1) + k - 1 \in Nat
        /\ L - m \in Nat /\ L - (m + 1) \in Nat
    BY <1>1
  <2>2. /\ \A k \in 1..L - m : e(m + k - 1) \in S
        /\ \A k \in 1..L - (m + 1) : e((m + 1) + k - 1) \in S
    BY <1>4, <2>1
  <2>3. PICK a \in Nat : a = L - m
    BY <2>1
  <2>4. PICK b \in Nat : b = L - (m + 1)
    BY <2>1
  <2>5. t \in Seq(S) /\ Len(t) = a
    BY <1>3, <2>2, <2>3
  <2>6. u \in Seq(S) /\ Len(u) = b
    BY <1>3, <2>2, <2>4
  <2> QED
    BY <2>3, <2>4, <2>5, <2>6
<1>6. t # <<>> /\ Head(t) = t[1] /\ t[1] = e(m)
  <2>1. t # <<>> /\ Head(t) = t[1]
    BY <1>1, <1>5, EmptySeq
  <2>2. 1 \in 1..L - m /\ m + 1 - 1 = m
    BY <1>1
  <2> QED
    BY <1>3, <2>1, <2>2
<1>7. Tail(t) = u
  <2>1. /\ Tail(t) \in Seq(S) /\ Len(Tail(t)) = Len(t) - 1
        /\ \A k \in 1..Len(Tail(t)) : Tail(t)[k] = t[k + 1]
    BY <1>5, <1>6, HeadTailProperties
  <2>2. ASSUME NEW k \in 1..Len(Tail(t)) PROVE Tail(t)[k] = u[k]
    <3>1. k + 1 \in 1..L - m /\ k \in 1..L - (m + 1) /\ m + (k + 1) - 1 = (m + 1) + k - 1
      BY <1>1, <1>5, <2>1
    <3> QED
      BY <1>3, <2>1, <3>1
  <2>3. Len(Tail(t)) = Len(u)
    BY <1>1, <1>5, <2>1
  <2> QED
    BY <1>5, <2>1, <2>2, <2>3, SeqEqual
<1>8. u = <<>> <=> m + 1 = L
  BY <1>1, <1>5, EmptySeq
<1> QED
  BY <1>1, <1>2, <1>4, <1>6, <1>7, <1>8 DEF u, L, t

\* What each access of an import is, and what comes after it.
LEMMA EntryFacts ==
  ASSUME NEW list \in Imports, NEW m \in 0..4 * Len(list) - 1
  PROVE  LET o == Head(ImportAfter(list, m))
         IN /\ o.op \in {"keys", "number", "flush", "commit"}
            /\ o.op = "keys" <=> m % 4 = 0
            /\ o.op = "number" <=> m % 4 = 1
            /\ o.op = "flush" <=> m % 4 = 2
            /\ o.op = "commit" <=> m % 4 = 3
            /\ o.n = (m \div 4) + 1
            /\ o.row = [keys |-> list[o.n], special |-> FALSE, active |-> TRUE]
<1> DEFINE n == (m \div 4) + 1
           o == Head(ImportAfter(list, m))
<1>1. o = Do(Entry[(m % 4) + 1], Customer(list[n]), n)
  BY ImportFacts
<1>2. o.op = Entry[(m % 4) + 1] /\ o.n = n /\ o.row = [keys |-> list[n], special |-> FALSE, active |-> TRUE]
  BY <1>1 DEF Do, Customer
<1>3. m % 4 \in 0..3
  <2>1. m \in Nat
    BY ImportFacts
  <2> QED
    BY <2>1
<1>4. Entry[1] = "keys" /\ Entry[2] = "number" /\ Entry[3] = "flush" /\ Entry[4] = "commit"
  BY DEF Entry
<1>5. PICK j \in 1..4 : j = (m % 4) + 1
  <2>1. m \in Nat
    BY ImportFacts
  <2> QED
    BY <1>3, <2>1
<1>6. o.op = Entry[j]
  BY <1>2, <1>5
<1>7. m % 4 = j - 1
  BY <1>3, <1>5
<1> HIDE DEF o
<1>8. j = 1 \/ j = 2 \/ j = 3 \/ j = 4
  OBVIOUS
<1>9. /\ o.op \in {"keys", "number", "flush", "commit"}
      /\ o.op = "keys" <=> j = 1
      /\ o.op = "number" <=> j = 2
      /\ o.op = "flush" <=> j = 3
      /\ o.op = "commit" <=> j = 4
  BY <1>4, <1>6, <1>8
<1>10. /\ j = 1 <=> m % 4 = 0
       /\ j = 2 <=> m % 4 = 1
       /\ j = 3 <=> m % 4 = 2
       /\ j = 4 <=> m % 4 = 3
  BY <1>7
<1> QED
  BY <1>2, <1>9, <1>10 DEF o, n

\* After an access of a creation comes the next one.
LEMMA CreateFacts ==
  ASSUME NEW r \in Served, r.kind = "create", NEW ops \in LeftToCreate(r)
  PROVE  LET next == Tail(ops)
         IN /\ ops \in Seq(Steps) /\ ops # <<>>
            /\ Head(ops) \in {"special", "keys", "number", "flush", "commit"}
            /\ next = <<>> <=> Head(ops) = "commit"
            /\ next # <<>> => next \in LeftToCreate(r) /\ next \in Seq(Steps)
            /\ Head(ops) = "flush" => next = <<"commit">>
            /\ Head(ops) = "special" => r.table \in Specials
            /\ Head(ops) = "number" => r.table = "customer"
            /\ next # <<>> /\ Head(next) = "flush" =>
                 IF r.table = "customer" THEN Head(ops) = "number"
                 ELSE r.row.special => Head(ops) = "special"
<1> DEFINE A == <<"commit">>
           B == <<"flush", "commit">>
           C == <<"special", "flush", "commit">>
           D == <<"keys", "special", "flush", "commit">>
           E == <<"special", "keys", "special", "flush", "commit">>
           F == <<"keys", "flush", "commit">>
           G == <<"number", "flush", "commit">>
           H == <<"keys", "number", "flush", "commit">>
<1>1. r.table \in Tables /\ (r.table = "customer" => ~ r.row.special)
  BY ServedFacts
<1>2. /\ ops \in {A, B, C, D, E, F, G, H}
      /\ ops \in {C, D, E} => r.row.special /\ r.table \in Specials
      /\ ops \in {G, H} => r.table = "customer"
      /\ ops = F => ~ r.row.special /\ r.table \in Specials
      /\ {A, B} \subseteq LeftToCreate(r)
  BY <1>1 DEF LeftToCreate, Tables, Specials
<1>3. ops = D => C \in LeftToCreate(r)
  BY <1>1 DEF LeftToCreate, Tables, Specials
<1>4. ops = E => D \in LeftToCreate(r)
  BY <1>1 DEF LeftToCreate, Tables, Specials
<1>5. ops = H => G \in LeftToCreate(r)
  BY <1>1 DEF LeftToCreate, Tables, Specials
<1>6. "customer" \notin Specials
  BY DEF Specials
<1>7. \A plan \in {A, B, C, D, E, F, G, H} : plan \in Seq(Steps) /\ plan # <<>>
  <2>1. A \in Seq(Steps) /\ B \in Seq(Steps) /\ C \in Seq(Steps)
    BY DEF Steps
  <2>2. D \in Seq(Steps) /\ F \in Seq(Steps)
    BY DEF Steps
  <2>3. E \in Seq(Steps)
    BY DEF Steps
  <2>4. G \in Seq(Steps) /\ H \in Seq(Steps)
    BY DEF Steps
  <2>5. /\ A # <<>> /\ B # <<>> /\ C # <<>> /\ D # <<>>
        /\ E # <<>> /\ F # <<>> /\ G # <<>> /\ H # <<>>
    OBVIOUS
  <2> HIDE DEF A, B, C, D, E, F, G, H
  <2> QED
    BY <2>1, <2>2, <2>3, <2>4, <2>5
<1>8. /\ Head(A) = "commit" /\ Head(B) = "flush" /\ Head(C) = "special" /\ Head(D) = "keys"
      /\ Head(E) = "special" /\ Head(F) = "keys" /\ Head(G) = "number" /\ Head(H) = "keys"
  OBVIOUS
<1>9. Tail(A) = <<>> /\ Tail(B) = A /\ Tail(C) = B /\ Tail(D) = C
  OBVIOUS
<1>10. Tail(E) = D /\ Tail(F) = B /\ Tail(G) = B /\ Tail(H) = G
  OBVIOUS
<1> HIDE DEF A, B, C, D, E, F, G, H
<1>a. CASE ops = A
  BY <1>7, <1>8, <1>9, <1>a
<1>b. CASE ops = B
  BY <1>2, <1>7, <1>8, <1>9, <1>b DEF A
<1>c. CASE ops = C
  BY <1>2, <1>6, <1>7, <1>8, <1>9, <1>c
<1>d. CASE ops = D
  BY <1>2, <1>3, <1>6, <1>7, <1>8, <1>9, <1>d
<1>e. CASE ops = E
  BY <1>2, <1>4, <1>6, <1>7, <1>8, <1>10, <1>e
<1>f. CASE ops = F
  BY <1>2, <1>6, <1>7, <1>8, <1>10, <1>f
<1>g. CASE ops = G
  BY <1>2, <1>6, <1>7, <1>8, <1>10, <1>g
<1>h. CASE ops = H
  BY <1>2, <1>5, <1>6, <1>7, <1>8, <1>10, <1>h
<1> QED
  BY <1>2, <1>a, <1>b, <1>c, <1>d, <1>e, <1>f, <1>g, <1>h

\* So it does after an access of a change.
LEMMA ChangePlanFacts ==
  ASSUME NEW ops \in LeftToChange
  PROVE  LET next == Tail(ops)
         IN /\ ops \in Seq(Steps) /\ ops # <<>>
            /\ Head(ops) \in {"special", "flush", "commit"}
            /\ next = <<>> <=> Head(ops) = "commit"
            /\ next # <<>> => next \in LeftToChange /\ next \in Seq(Steps)
            /\ Head(ops) = "flush" => next = <<"commit">>
            /\ next # <<>> /\ Head(next) = "flush" => Head(ops) = "special"
<1> DEFINE A == <<"commit">>
           B == <<"flush", "commit">>
           C == <<"special", "flush", "commit">>
           D == <<"special", "special", "flush", "commit">>
<1>1. /\ A \in Seq(Steps) /\ B \in Seq(Steps) /\ C \in Seq(Steps)
      /\ A # <<>> /\ B # <<>> /\ C # <<>>
  BY DEF Steps
<1>2. D \in Seq(Steps) /\ D # <<>>
  BY DEF Steps
<1>3. Head(A) = "commit" /\ Head(B) = "flush" /\ Head(C) = "special" /\ Head(D) = "special"
  OBVIOUS
<1>4. Tail(A) = <<>> /\ Tail(B) = A /\ Tail(C) = B /\ Tail(D) = C
  OBVIOUS
<1>5. LeftToChange = {A, B, C, D}
  BY DEF LeftToChange
<1> HIDE DEF A, B, C, D
<1>a. CASE ops = A
  BY <1>1, <1>3, <1>4, <1>a
<1>b. CASE ops = B
  BY <1>1, <1>3, <1>4, <1>5, <1>b DEF A
<1>c. CASE ops = C
  BY <1>1, <1>3, <1>4, <1>5, <1>c
<1>d. CASE ops = D
  BY <1>1, <1>2, <1>3, <1>4, <1>5, <1>d
<1> QED
  BY <1>5, <1>a, <1>b, <1>c, <1>d


-----------------------------------------------------------------------------
(* Sessions, and steps that leave the tables alone.                         *)

\* A session between two requests holds nothing.
LEMMA IdleFacts ==
  /\ SessionType(Idle)
  /\ Idle.todo = <<>> /\ Idle.write = <<>> /\ Idle.req = None
  /\ Idle.number = {}
BY DEF Idle, Begun, SessionType, Fields, Served, None

\* A session that has ended knows nothing, and meets nobody.
LEMMA IdleKnows ==
  ASSUME NEW tables, NEW raced, NEW u
  PROVE  /\ Knows(Idle, tables, raced)
         /\ Apart(Idle, u, raced)
         /\ Apart(u, Idle, raced)
<1>1. Idle.req.kind = "none"
  BY IdleFacts DEF None
<1>2. OnCourse(Idle, tables)
  BY <1>1, IdleFacts DEF OnCourse, Changing, FileKinds
<1> QED
  BY <1>1, <1>2, IdleFacts DEF Knows, KnowsWrite, KnowsNumber, KnowsImport, KnowsSpecial, KnowsClaim,
     Apart, Doing

\* A session as s, with `rest` still to do.
Follows(u, s, rest) ==
  /\ SessionType(u)
  /\ u.todo = rest
  /\ u.req = s.req /\ u.copy = s.copy /\ u.change = s.change
  /\ u.number = s.number /\ u.write = s.write
  /\ u.failed = s.failed /\ u.alone = s.alone

\* Goto ends the session when nothing is left to do, and otherwise moves it on to what follows.
LEMMA GotoFacts ==
  ASSUME NEW p, NEW s, NEW rest, SessionType(s), Goto(p, s, rest)
  PROVE  /\ rest = <<>> => session' = [session EXCEPT ![p] = Idle] /\ Ended(p, s, FALSE)
         /\ rest # <<>> =>
              \E u : Follows(u, s, rest) /\ session' = [session EXCEPT ![p] = u] /\ UNCHANGED imports
<1>1. CASE rest = <<>>
  BY <1>1 DEF Goto
<1>2. CASE rest # <<>>
  <2> DEFINE u == [s EXCEPT !.todo = rest]
  <2>1. session' = [session EXCEPT ![p] = u] /\ UNCHANGED imports
    BY <1>2 DEF Goto
  <2>2. /\ DOMAIN u = Fields /\ u.todo = rest
        /\ u.req = s.req /\ u.copy = s.copy /\ u.change = s.change
        /\ u.number = s.number /\ u.write = s.write
        /\ u.failed = s.failed /\ u.alone = s.alone
    BY DEF SessionType, Fields
  <2> HIDE DEF u
  <2>3. Follows(u, s, rest)
    BY <2>2 DEF SessionType, Follows
  <2> QED
    BY <1>2, <2>1, <2>3
<1> QED
  BY <1>1, <1>2

\* Apart is symmetric in the two sessions.
LEMMA ApartSymmetric ==
  ASSUME NEW s, NEW u, NEW raced, Apart(s, u, raced)
  PROVE  Apart(u, s, raced)
BY DEF Apart

\* A step that changes only its own session keeps the invariant if what that session then knows is true.
LEMMA CalmStep ==
  ASSUME RegistryInv, NEW p \in Sessions, NEW u, SessionType(u),
         session' = [session EXCEPT ![p] = u],
         Knows(u, rows, contended),
         \A q \in Sessions \ {p} : Apart(u, session[q], contended),
         UNCHANGED <<rows, contended, reopened>>, ImportGoesThrough'
  PROVE  RegistryInv'
<1>1. /\ DOMAIN session' = Sessions /\ session'[p] = u
      /\ \A q \in Sessions \ {p} : session'[q] = session[q]
  BY DEF RegistryInv, Typed
<1>2. Typed'
  BY <1>1 DEF RegistryInv, Typed, Rows
<1>3. UniqueKeys' /\ UncontendedSpecialIsUnique'
  BY DEF RegistryInv, UniqueKeys, UncontendedSpecialIsUnique, SpecialSeen, Rows
<1>4. \A q \in Sessions : Knows(session'[q], rows', contended')
  BY <1>1 DEF RegistryInv
<1>5. \A q, o \in Sessions : q # o => Apart(session'[q], session'[o], contended')
  <2> SUFFICES ASSUME NEW q \in Sessions, NEW o \in Sessions, q # o
               PROVE  Apart(session'[q], session'[o], contended)
    OBVIOUS
  <2>1. CASE q # p /\ o # p
    BY <1>1, <2>1 DEF RegistryInv
  <2>2. CASE q = p
    BY <1>1, <2>2
  <2>3. CASE o = p
    BY <1>1, <2>3, ApartSymmetric
  <2> QED
    BY <2>1, <2>2, <2>3
<1> QED
  BY <1>2, <1>3, <1>4, <1>5 DEF RegistryInv

\* A request that goes on meets nobody it has not met.
LEMMA GoOnStep ==
  ASSUME RegistryInv, NEW p \in Sessions, session[p].todo # <<>>,
         NEW u, SessionType(u), session' = [session EXCEPT ![p] = u],
         u.req = session[p].req, u.alone = session[p].alone, u.write = <<>>,
         Knows(u, rows, contended),
         UNCHANGED <<rows, contended, reopened, imports>>
  PROVE  RegistryInv'
<1>1. ASSUME NEW q \in Sessions \ {p} PROVE Apart(u, session[q], contended)
  <2>1. Apart(session[p], session[q], contended)
    BY DEF RegistryInv
  <2> QED
    BY <2>1 DEF Apart
<1>2. ImportGoesThrough'
  BY DEF RegistryInv, ImportGoesThrough, Rows
<1> QED
  BY <1>1, <1>2, CalmStep

\* What an import leaves when it ends is what it has done.
LEMMA ImportsGrow ==
  ASSUME ImportGoesThrough, NEW p, NEW s, NEW aborted, Ended(p, s, aborted),
         \A keys : Listed(rows["customer"], keys) => Listed(rows'["customer"], keys),
         s.req.kind = "import" =>
           IF aborted THEN ~ s.alone \/ ~ s.req.known
           ELSE \A n \in DOMAIN s.req.list : n \in s.failed \/ Listed(rows'["customer"], s.req.list[n])
  PROVE  ImportGoesThrough'
<1> DEFINE Through(i, customers) ==
             IF i.aborted THEN ~ i.alone \/ ~ i.known
             ELSE \A n \in DOMAIN i.list \ i.failed : Listed(customers, i.list[n])
<1>1. \A i \in imports : Through(i, rows["customer"])
  BY DEF ImportGoesThrough, Listed, Rows
<1>2. \A i \in imports : Through(i, rows'["customer"])
  BY <1>1
<1>3. s.req.kind = "import" =>
        Through([list |-> s.req.list, failed |-> s.failed, alone |-> s.alone,
                 known |-> s.req.known, aborted |-> aborted],
                rows'["customer"])
  OBVIOUS
<1> HIDE DEF Through
<1>4. \A i \in imports' : Through(i, rows'["customer"])
  BY <1>2, <1>3 DEF Ended
<1> QED
  BY <1>4 DEF Through, ImportGoesThrough, Listed, Rows

\* A request that ends here.
LEMMA EndStep ==
  ASSUME RegistryInv, NEW p \in Sessions, session' = [session EXCEPT ![p] = Idle],
         UNCHANGED <<rows, contended, reopened>>, ImportGoesThrough'
  PROVE  RegistryInv'
BY CalmStep, IdleFacts, IdleKnows

\* A busy session has something to do next.
LEMMA AtIs ==
  ASSUME NEW p, NEW op
  PROVE  /\ At(p, op) <=> Doing(session[p], op)
         /\ At(p, op) => Busy(p) /\ session[p].todo # <<>>
         /\ Busy(p) <=> session[p].todo # <<>>
         /\ Me(p) = Mine(session[p])
         /\ Table(p) = session[p].req.table
         /\ New(p) = Head(session[p].todo).row
BY DEF At, Busy, Doing, Me, Mine, Table, New

-----------------------------------------------------------------------------
(* The course of a request.                                                 *)

\* The plans of loading, reading and saving a row, operation by operation.
LEMMA ShortPlans ==
  /\ Loading # <<>> /\ Reading # <<>> /\ Saving # <<>>
  /\ Head(Loading).op = "load" /\ Head(Reading).op = "read" /\ Head(Saving).op = "save"
  /\ Tail(Loading) = <<>> /\ Tail(Reading) = Saving /\ Tail(Saving) = <<>>
BY DEF Loading, Reading, Saving, Do

\* What a request is about to do.
LEMMA HeadIs ==
  ASSUME NEW s, SessionType(s), NEW tables, OnCourse(s, tables), s.todo # <<>>
  PROVE  LET r == s.req
             o == Head(s.todo)
         IN /\ r.kind # "none"
            /\ r.kind = "create" =>
                 /\ o.op \in {"special", "keys", "number", "flush", "commit"}
                 /\ o.row = r.row
                 /\ o.op = "special" => r.table \in Specials
                 /\ o.op = "number" => r.table = "customer"
            /\ r.kind = "import" =>
                 /\ o.op \in {"keys", "number", "flush", "commit"}
                 /\ o.n \in DOMAIN r.list /\ r.list[o.n] \in IdSets
                 /\ o.row = [keys |-> r.list[o.n], special |-> FALSE, active |-> TRUE]
            /\ r.kind \in Changing =>
                 /\ o.op \in {"load", "special", "flush", "commit"}
                 /\ r.at \in DOMAIN tables[r.table]
                 /\ o.op # "load" => s.copy \in Row /\ s.change = Change(r)
            /\ r.kind \in FileKinds => o.op \in {"read", "save"} /\ r.at \in DOMAIN tables["customer"]
<1> DEFINE r == s.req
           o == Head(s.todo)
<1>1. r.kind # "none"
  BY DEF OnCourse, Changing, FileKinds
<1>2. CASE r.kind = "create"
  <2>1. PICK ops \in LeftToCreate(r) : s.todo = Each(ops, r.row, 1)
    BY <1>2 DEF OnCourse
  <2>2. r \in Served
    BY DEF SessionType
  <2>3. o = Do(Head(ops), r.row, 1)
    BY <1>2, <2>1, <2>2, CreateFacts, EachFacts
  <2>4. o.op = Head(ops) /\ o.row = r.row
    BY <2>3 DEF Do
  <2> QED
    BY <1>2, <2>2, <2>4, CreateFacts DEF Changing, FileKinds
<1>3. CASE r.kind = "import"
  <2>1. r.list \in Imports
    BY <1>3, ServedFacts DEF SessionType
  <2>2. PICK m \in 0..4 * Len(r.list) - 1 : s.todo = ImportAfter(r.list, m)
    BY <1>3 DEF OnCourse
  <2>3. (m \div 4) + 1 \in DOMAIN r.list /\ r.list[(m \div 4) + 1] \in IdSets
    BY <2>1, ImportFacts
  <2>4. /\ o.op \in {"keys", "number", "flush", "commit"}
        /\ o.n = (m \div 4) + 1
        /\ o.row = [keys |-> r.list[o.n], special |-> FALSE, active |-> TRUE]
    BY <2>1, <2>2, EntryFacts
  <2> QED
    BY <1>3, <2>3, <2>4 DEF Changing, FileKinds
<1>4. CASE r.kind \in Changing
  <2>1. /\ r.at \in DOMAIN tables[r.table]
        /\ \/ s.todo = Loading
           \/ /\ s.copy \in Row /\ s.change = Change(r)
              /\ \E ops \in LeftToChange : s.todo = Each(ops, s.copy, 1)
    BY <1>4 DEF OnCourse, Changing
  <2>2. ASSUME NEW ops \in LeftToChange, s.todo = Each(ops, s.copy, 1)
        PROVE  o.op \in {"special", "flush", "commit"}
    <3>1. o = Do(Head(ops), s.copy, 1)
      BY <2>2, ChangePlanFacts, EachFacts
    <3> QED
      BY <3>1, ChangePlanFacts DEF Do
  <2> QED
    BY <1>4, <2>1, <2>2, ShortPlans DEF Changing, FileKinds
<1>5. CASE r.kind \in FileKinds
  BY <1>5, ShortPlans DEF OnCourse, Changing, FileKinds
<1> QED
  BY <1>1, <1>2, <1>3, <1>4, <1>5, ServedFacts DEF SessionType

\* What it does after that.
LEMMA Onward ==
  ASSUME NEW s, SessionType(s), NEW tables, OnCourse(s, tables), s.todo # <<>>,
         Head(s.todo).op \notin {"load", "read", "save"},
         NEW u, u.todo = Tail(s.todo), u.todo # <<>>,
         u.req = s.req, u.copy = s.copy, u.change = s.change
  PROVE  LET r == s.req
             o == Head(s.todo)
             next == Head(u.todo)
         IN /\ OnCourse(u, tables)
            /\ o.op = "flush" => next.op = "commit"
            /\ next.op \notin {"load", "read", "save"}
            /\ r.kind = "create" =>
                 /\ next.op = "flush" =>
                      IF r.table = "customer" THEN o.op = "number"
                      ELSE r.row.special => o.op = "special"
                 /\ next.row = o.row
                 /\ o.op # "commit"
            /\ r.kind = "import" =>
                 /\ o.op = "keys" => next.op = "number"
                 /\ o.op = "number" => next.op = "flush"
                 /\ o.op = "commit" => next.op = "keys" /\ next.n = o.n + 1
                 /\ o.op # "commit" => next.n = o.n /\ next.row = o.row
            /\ r.kind \in Changing => o.op # "commit" /\ (next.op = "flush" => o.op = "special")
<1> DEFINE r == s.req
           o == Head(s.todo)
           next == Head(u.todo)
<1>1. r \in Served /\ r.kind \notin FileKinds /\ r.kind # "none"
  BY HeadIs DEF SessionType
<1>2. CASE r.kind = "create"
  <2>1. PICK ops \in LeftToCreate(r) : s.todo = Each(ops, r.row, 1)
    BY <1>2 DEF OnCourse
  <2>2. /\ o = Do(Head(ops), r.row, 1)
        /\ u.todo = Each(Tail(ops), r.row, 1)
        /\ Tail(ops) # <<>>
    BY <1>1, <1>2, <2>1, CreateFacts, EachFacts
  <2>3. Tail(ops) \in LeftToCreate(r) /\ Tail(ops) \in Seq(Steps)
    BY <1>1, <1>2, <2>1, <2>2, CreateFacts
  <2>4. next = Do(Head(Tail(ops)), r.row, 1)
    <3>1. PICK rest \in Seq(Steps) : rest = Tail(ops)
      BY <2>3
    <3>2. rest # <<>> /\ u.todo = Each(rest, r.row, 1)
      BY <2>2, <3>1
    <3>3. Head(Each(rest, r.row, 1)) = Do(Head(rest), r.row, 1)
      BY <3>2, EachFacts
    <3> QED
      BY <3>1, <3>2, <3>3
  <2>5. OnCourse(u, tables)
    BY <1>2, <2>2, <2>3 DEF OnCourse, Changing, FileKinds
  <2>6. /\ o.op = Head(ops) /\ o.row = r.row
        /\ next.op = Head(Tail(ops)) /\ next.row = r.row
    BY <2>2, <2>4 DEF Do
  <2>7. /\ Head(ops) # "commit"
        /\ Head(ops) = "flush" => Tail(ops) = <<"commit">>
        /\ Head(Tail(ops)) = "flush" =>
             IF r.table = "customer" THEN Head(ops) = "number"
             ELSE r.row.special => Head(ops) = "special"
    BY <1>1, <1>2, <2>2, CreateFacts
  <2>8. Head(Tail(ops)) \in Steps
    BY <2>2, <2>3, HeadTailProperties
  <2>9. Head(<<"commit">>) = "commit"
    OBVIOUS
  <2> QED
    BY <1>2, <2>5, <2>6, <2>7, <2>8, <2>9 DEF Changing, Steps
<1>3. CASE r.kind = "import"
  <2>1. r.list \in Imports
    BY <1>1, <1>3, ServedFacts
  <2>2. PICK m \in 0..4 * Len(r.list) - 1 : s.todo = ImportAfter(r.list, m)
    BY <1>3 DEF OnCourse
  <2>3. /\ u.todo = ImportAfter(r.list, m + 1)
        /\ m + 1 # 4 * Len(r.list)
        /\ Len(r.list) \in Nat
    BY <2>1, <2>2, ImportFacts
  <2>4. m + 1 \in 0..4 * Len(r.list) - 1
    BY <2>3
  <2>5. OnCourse(u, tables)
    BY <1>3, <2>3, <2>4 DEF OnCourse, Changing, FileKinds
  <2>6. /\ o.op \in {"keys", "number", "flush", "commit"}
        /\ o.op = "keys" <=> m % 4 = 0
        /\ o.op = "number" <=> m % 4 = 1
        /\ o.op = "flush" <=> m % 4 = 2
        /\ o.op = "commit" <=> m % 4 = 3
        /\ o.n = (m \div 4) + 1
        /\ o.row = [keys |-> r.list[o.n], special |-> FALSE, active |-> TRUE]
    BY <2>1, <2>2, EntryFacts
  <2>7. /\ next.op \in {"keys", "number", "flush", "commit"}
        /\ next.op = "keys" <=> (m + 1) % 4 = 0
        /\ next.op = "number" <=> (m + 1) % 4 = 1
        /\ next.op = "flush" <=> (m + 1) % 4 = 2
        /\ next.op = "commit" <=> (m + 1) % 4 = 3
        /\ next.n = ((m + 1) \div 4) + 1
        /\ next.row = [keys |-> r.list[next.n], special |-> FALSE, active |-> TRUE]
    BY <2>1, <2>3, <2>4, EntryFacts
  <2> HIDE DEF o, next, r
  <2>8. /\ m % 4 = 0 => (m + 1) % 4 = 1
        /\ m % 4 = 1 => (m + 1) % 4 = 2
        /\ m % 4 = 2 => (m + 1) % 4 = 3
        /\ m % 4 = 3 => (m + 1) % 4 = 0 /\ (m + 1) \div 4 = (m \div 4) + 1
        /\ m % 4 # 3 => (m + 1) \div 4 = m \div 4
    OBVIOUS
  <2>9. /\ o.op = "keys" => next.op = "number"
        /\ o.op = "number" => next.op = "flush"
        /\ o.op = "flush" => next.op = "commit"
        /\ o.op = "commit" => next.op = "keys"
    BY <2>6, <2>7, <2>8
  <2>10. /\ o.op = "commit" => next.n = o.n + 1
         /\ o.op # "commit" => next.n = o.n
    BY <2>6, <2>7, <2>8
  <2> QED
    BY <1>3, <2>5, <2>6, <2>7, <2>9, <2>10 DEF o, next, r, Changing
<1>4. CASE r.kind \in Changing
  <2>1. PICK ops \in LeftToChange : s.todo = Each(ops, s.copy, 1)
    BY <1>4, ShortPlans DEF OnCourse, Changing
  <2>2. /\ o = Do(Head(ops), s.copy, 1)
        /\ u.todo = Each(Tail(ops), s.copy, 1)
        /\ Tail(ops) # <<>>
    <3>1. ops \in Seq(Steps) /\ ops # <<>>
      BY ChangePlanFacts
    <3> QED
      BY <2>1, <3>1, EachFacts
  <2>3. Tail(ops) \in LeftToChange /\ Tail(ops) \in Seq(Steps)
    BY <2>2, ChangePlanFacts
  <2>4. next = Do(Head(Tail(ops)), s.copy, 1)
    <3>1. PICK rest \in Seq(Steps) : rest = Tail(ops)
      BY <2>3
    <3>2. rest # <<>> /\ u.todo = Each(rest, s.copy, 1)
      BY <2>2, <3>1
    <3>3. Head(Each(rest, s.copy, 1)) = Do(Head(rest), s.copy, 1)
      BY <3>2, EachFacts
    <3> QED
      BY <3>1, <3>2, <3>3
  <2>5. OnCourse(u, tables)
    <3>1. r.at \in DOMAIN tables[r.table] /\ s.copy \in Row /\ s.change = Change(r)
      BY <1>4, ShortPlans DEF OnCourse
    <3> QED
      BY <1>4, <2>2, <2>3, <3>1 DEF OnCourse, Changing, FileKinds
  <2>6. o.op = Head(ops) /\ next.op = Head(Tail(ops))
    BY <2>2, <2>4 DEF Do
  <2>7. /\ Head(ops) # "commit"
        /\ Head(ops) = "flush" => Tail(ops) = <<"commit">>
        /\ Head(Tail(ops)) = "flush" => Head(ops) = "special"
        /\ Head(Tail(ops)) \in {"special", "flush", "commit"}
    BY <2>2, <2>3, ChangePlanFacts
  <2>8. Head(<<"commit">>) = "commit"
    OBVIOUS
  <2> QED
    BY <1>4, <2>5, <2>6, <2>7, <2>8 DEF Changing
<1> QED
  BY <1>1, <1>2, <1>3, <1>4, ServedFacts

\* When nothing is left the request has committed, an import its last entry.
LEMMA AtTheEnd ==
  ASSUME NEW s, SessionType(s), NEW tables, OnCourse(s, tables), s.todo # <<>>,
         Head(s.todo).op \notin {"load", "read", "save"}, Tail(s.todo) = <<>>
  PROVE  /\ Head(s.todo).op = "commit"
         /\ s.req.kind = "import" => /\ DOMAIN s.req.list = 1..Head(s.todo).n
                                     /\ Head(s.todo).n \in Nat
<1> DEFINE r == s.req
           o == Head(s.todo)
<1>1. r \in Served /\ r.kind \notin FileKinds /\ r.kind # "none"
  BY HeadIs DEF SessionType
<1>2. CASE r.kind = "create"
  <2>1. PICK ops \in LeftToCreate(r) : s.todo = Each(ops, r.row, 1)
    BY <1>2 DEF OnCourse
  <2>2. o = Do(Head(ops), r.row, 1) /\ Tail(ops) = <<>>
    BY <1>1, <1>2, <2>1, CreateFacts, EachFacts
  <2> QED
    BY <1>1, <1>2, <2>2, CreateFacts DEF Do
<1>3. CASE r.kind = "import"
  <2>1. r.list \in Imports
    BY <1>1, <1>3, ServedFacts
  <2>2. PICK m \in 0..4 * Len(r.list) - 1 : s.todo = ImportAfter(r.list, m)
    BY <1>3 DEF OnCourse
  <2>3. m + 1 = 4 * Len(r.list) /\ Len(r.list) \in Nat
    BY <2>1, <2>2, ImportFacts
  <2>4. m % 4 = 3 /\ (m \div 4) + 1 = Len(r.list)
    BY <2>3
  <2>5. o.op = "commit" /\ o.n = Len(r.list)
    BY <2>1, <2>2, <2>4, EntryFacts
  <2>6. DOMAIN r.list = 1..Len(r.list)
    BY <2>1, RegistryAssumption
  <2> QED
    BY <2>3, <2>5, <2>6
<1>4. CASE r.kind \in Changing
  <2>1. PICK ops \in LeftToChange : s.todo = Each(ops, s.copy, 1)
    BY <1>4, ShortPlans DEF OnCourse, Changing
  <2>2. o = Do(Head(ops), s.copy, 1) /\ Tail(ops) = <<>>
    BY <2>1, ChangePlanFacts, EachFacts
  <2> QED
    BY <1>4, <2>2, ChangePlanFacts DEF Do, Changing
<1> QED
  BY <1>1, <1>2, <1>3, <1>4, ServedFacts

\* What a session knows before it has flushed.
LEMMA NothingFlushed ==
  ASSUME NEW s, NEW tables, NEW raced, Knows(s, tables, raced), ~ Doing(s, "commit")
  PROVE  s.write = <<>>
BY DEF Knows, KnowsWrite

\* The row a change is about is in its table.
LEMMA MineIs ==
  ASSUME RegistryInv, NEW p \in Sessions, session[p].todo # <<>>
  PROVE  LET s == session[p]
             t == s.req.table
         IN /\ SessionType(s) /\ Knows(s, rows, contended) /\ OnCourse(s, rows)
            /\ s.req \in Served /\ t \in Tables
            /\ rows[t] \in Seq(Row) /\ DOMAIN rows[t] = 1..Len(rows[t]) /\ Len(rows[t]) \in Nat
            /\ 0 \notin DOMAIN rows[t]
            /\ s.req.kind \in {"create", "import"} => Mine(s) = 0
            /\ s.req.kind \in Changing \cup FileKinds =>
                 /\ Mine(s) = s.req.at /\ s.req.at \in DOMAIN rows[t] /\ s.req.at # 0
                 /\ rows[t][s.req.at] \in Row
            /\ s.req.kind \in {"create", "import"} \cup Changing \cup FileKinds
<1> DEFINE s == session[p]
           t == s.req.table
<1>1. SessionType(s) /\ Knows(s, rows, contended) /\ OnCourse(s, rows) /\ s.req \in Served
  BY DEF RegistryInv, Typed, SessionType, Knows
<1>2. s.req.kind # "none"
  BY <1>1, HeadIs
<1>3. s.req.kind \in {"create", "import"} \cup Changing \cup FileKinds
  BY <1>1, <1>2, ServedFacts
<1>4. t \in Tables
  BY <1>1, <1>3, ServedFacts DEF Tables
<1>5. rows[t] \in Seq(Row)
  BY <1>4 DEF RegistryInv, Typed
<1>6. DOMAIN rows[t] = 1..Len(rows[t]) /\ Len(rows[t]) \in Nat /\ 0 \notin DOMAIN rows[t]
  BY <1>5
<1>7. s.req.kind \in {"create", "import"} => Mine(s) = 0
  BY DEF Mine
<1>8. s.req.kind \in Changing \cup FileKinds => Mine(s) = s.req.at
  BY DEF Mine, Changing, FileKinds
<1>9. s.req.kind \in Changing => s.req.at \in DOMAIN rows[t]
  BY <1>1, HeadIs
<1>10. s.req.kind \in FileKinds => s.req.at \in DOMAIN rows[t]
  BY <1>1, HeadIs, ServedFacts
<1>11. s.req.at \in DOMAIN rows[t] => s.req.at # 0 /\ rows[t][s.req.at] \in Row
  BY <1>5, <1>6
<1> HIDE DEF s, t
<1> QED
  BY <1>1, <1>3, <1>4, <1>5, <1>6, <1>7, <1>8, <1>9, <1>10, <1>11 DEF s, t

\* A step that ends a request that is no import.
LEMMA LeaveStep ==
  ASSUME RegistryInv, NEW p \in Sessions, session' = [session EXCEPT ![p] = Idle],
         UNCHANGED <<rows, contended, reopened>>,
         NEW s, NEW aborted, Ended(p, s, aborted), s.req.kind # "import"
  PROVE  RegistryInv'
<1>1. ImportGoesThrough'
  BY DEF RegistryInv, Ended, ImportGoesThrough, Rows
<1> QED
  BY <1>1, EndStep

\* A refusal: an import goes on with its next entry.
LEMMA RefuseStep ==
  ASSUME RegistryInv, NEW p \in Sessions, session[p].todo # <<>>, Refuse(p)
  PROVE  RegistryInv'
<1> DEFINE s == session[p]
           n == Head(s.todo).n
           list == s.req.list
           v == [s EXCEPT !.failed = @ \cup {n}, !.write = <<>>, !.number = {}]
<1>1. SessionType(s) /\ Knows(s, rows, contended) /\ OnCourse(s, rows) /\ s.req \in Served
  BY MineIs
<1>2. /\ Goto(p, v, NextEntries(p))
      /\ UNCHANGED <<rows, contended, reopened>>
  BY DEF Refuse, EntryOf
<1>3. /\ v.req = s.req /\ v.alone = s.alone /\ v.failed = s.failed \cup {n}
      /\ v.write = <<>> /\ v.number = {} /\ DOMAIN v = Fields
  BY <1>1 DEF SessionType, Fields
<1> HIDE DEF v
<1>4. SessionType(v)
  BY <1>1, <1>3 DEF SessionType
<1>5. CASE s.req.kind # "import"
  <2>1. NextEntries(p) = <<>>
    BY <1>5 DEF NextEntries
  <2>2. session' = [session EXCEPT ![p] = Idle] /\ Ended(p, v, FALSE)
    BY <1>2, <2>1 DEF Goto
  <2> QED
    BY <1>2, <1>3, <1>5, <2>2, LeaveStep
<1>6. CASE s.req.kind = "import"
  <2>1. /\ list \in Imports /\ s.req.table = "customer"
        /\ n \in DOMAIN list
        /\ DOMAIN list = 1..Len(list) /\ Len(list) \in Nat
    <3>1. list \in Imports /\ s.req.table = "customer"
      BY <1>1, <1>6, ServedFacts
    <3>2. n \in DOMAIN list
      BY <1>1, <1>6, HeadIs
    <3>3. list \in Seq(IdSets)
      BY <3>1, RegistryAssumption
    <3> QED
      BY <3>1, <3>2, <3>3
  <2>2. \A k \in DOMAIN list : k < n => k \in s.failed \/ Listed(rows["customer"], list[k])
    BY <1>1, <1>6 DEF Knows, KnowsImport
  <2>3. \A k \in DOMAIN list : k <= n => k \in v.failed \/ Listed(rows["customer"], list[k])
    BY <1>3, <2>1, <2>2
  <2>4. NextEntries(p) = ImportAfter(list, 4 * n)
    BY <1>6 DEF NextEntries, EntryOf
  <2>5. CASE NextEntries(p) = <<>>
    <3>1. session' = [session EXCEPT ![p] = Idle] /\ Ended(p, v, FALSE)
      BY <1>2, <2>5 DEF Goto
    <3>2. n = Len(list)
      <4>1. SUFFICES ASSUME n # Len(list) PROVE FALSE
        OBVIOUS
      <4>2. 4 * n \in 0..4 * Len(list) - 1
        BY <2>1, <4>1
      <4> QED
        BY <2>1, <2>4, <2>5, <4>2, ImportFacts
    <3>3. \A k \in DOMAIN v.req.list : k \in v.failed \/ Listed(rows'["customer"], v.req.list[k])
      BY <1>2, <1>3, <2>1, <2>3, <3>2
    <3>4. ImportGoesThrough'
      BY <1>2, <3>1, <3>3, ImportsGrow DEF RegistryInv
    <3> QED
      BY <1>2, <3>1, <3>4, EndStep
  <2>6. CASE NextEntries(p) # <<>>
    <3>0. PICK u : Follows(u, v, NextEntries(p)) /\ session' = [session EXCEPT ![p] = u] /\ UNCHANGED imports
      BY <1>2, <1>4, <2>6, GotoFacts
    <3>1. /\ session' = [session EXCEPT ![p] = u] /\ SessionType(u)
          /\ u.todo = NextEntries(p) /\ u.req = v.req /\ u.number = v.number /\ u.write = v.write
          /\ u.failed = v.failed /\ u.alone = v.alone /\ UNCHANGED imports
      BY <3>0 DEF Follows
    <3>2. n # Len(list)
      <4>1. SUFFICES ASSUME n = Len(list) PROVE FALSE
        OBVIOUS
      <4>2. 4 * Len(list) - 4 * n = 0
        BY <2>1, <4>1
      <4>3. ImportAfter(list, 4 * n) = <<>>
        BY <4>2 DEF ImportAfter
      <4> QED
        BY <2>4, <2>6, <4>3
    <3>3. 4 * n \in 0..4 * Len(list) - 1
      BY <2>1, <3>2
    <3>4. OnCourse(u, rows)
      BY <1>3, <1>6, <2>4, <3>1, <3>3 DEF OnCourse, Changing, FileKinds
    <3>5. (4 * n) % 4 = 0 /\ (4 * n) \div 4 = n
      BY <2>1
    <3>6. Head(u.todo).op = "keys" /\ Head(u.todo).n = n + 1
      BY <2>1, <2>4, <3>1, <3>3, <3>5, EntryFacts
    <3>7. KnowsWrite(u, rows) /\ KnowsClaim(u, rows, contended)
      BY <1>3, <3>1 DEF KnowsWrite, KnowsClaim
    <3>8. KnowsNumber(u) /\ KnowsSpecial(u, rows, contended)
      BY <1>3, <3>1, <3>6 DEF KnowsNumber, KnowsSpecial, Doing
    <3>9. KnowsImport(u, rows)
      <4>1. \A k \in DOMAIN list : k < n + 1 => k <= n
        BY <2>1
      <4> QED
        BY <1>3, <2>3, <3>1, <3>6, <4>1 DEF KnowsImport
    <3>10. Knows(u, rows, contended)
      BY <3>4, <3>7, <3>8, <3>9 DEF Knows
    <3> QED
      BY <1>2, <1>3, <3>1, <3>10, GoOnStep
  <2> QED
    BY <2>5, <2>6
<1> QED
  BY <1>5, <1>6

\* A request whose access leaves the tables alone goes on as v.
LEMMA ProceedStep ==
  ASSUME RegistryInv, NEW p \in Sessions, session[p].todo # <<>>,
         Head(session[p].todo).op \notin {"load", "read", "save", "commit"},
         NEW v, SessionType(v), v.req = session[p].req, v.alone = session[p].alone,
         v.copy = session[p].copy, v.change = session[p].change, v.failed = session[p].failed,
         Goto(p, v, Rest(p))
  PROVE  LET s == session[p]
             o == Head(s.todo)
         IN \E u : LET next == Head(u.todo)
            IN /\ Follows(u, v, Rest(p)) /\ session' = [session EXCEPT ![p] = u] /\ UNCHANGED imports
               /\ OnCourse(u, rows) /\ u.todo # <<>>
               /\ next.op \notin {"load", "read", "save"}
               /\ o.op = "flush" => next.op = "commit"
               /\ s.req.kind = "create" =>
                    /\ next.op = "flush" =>
                         IF s.req.table = "customer" THEN o.op = "number"
                         ELSE s.req.row.special => o.op = "special"
                    /\ next.row = o.row
               /\ s.req.kind = "import" =>
                    /\ o.op = "keys" => next.op = "number"
                    /\ o.op = "number" => next.op = "flush"
                    /\ next.n = o.n /\ next.row = o.row
               /\ s.req.kind \in Changing => (next.op = "flush" => o.op = "special")
<1> DEFINE s == session[p]
           o == Head(s.todo)
<1>1. SessionType(s) /\ OnCourse(s, rows)
  BY MineIs
<1>2. Rest(p) = Tail(s.todo)
  BY DEF Rest
<1>3. Rest(p) # <<>>
  BY <1>1, <1>2, AtTheEnd
<1>4. PICK u : Follows(u, v, Rest(p)) /\ session' = [session EXCEPT ![p] = u] /\ UNCHANGED imports
  BY <1>3, GotoFacts
<1>5. u.todo = Tail(s.todo) /\ u.todo # <<>> /\ u.req = s.req /\ u.copy = s.copy /\ u.change = s.change
  BY <1>2, <1>3, <1>4 DEF Follows
<1>6. LET next == Head(u.todo)
      IN /\ OnCourse(u, rows)
         /\ o.op = "flush" => next.op = "commit"
         /\ next.op \notin {"load", "read", "save"}
         /\ s.req.kind = "create" =>
              /\ next.op = "flush" =>
                   IF s.req.table = "customer" THEN o.op = "number"
                   ELSE s.req.row.special => o.op = "special"
              /\ next.row = o.row
         /\ s.req.kind = "import" =>
              /\ o.op = "keys" => next.op = "number"
              /\ o.op = "number" => next.op = "flush"
              /\ next.n = o.n /\ next.row = o.row
         /\ s.req.kind \in Changing => (next.op = "flush" => o.op = "special")
  <2>1. o = Head(s.todo) /\ o.op \notin {"load", "read", "save", "commit"} /\ s.todo # <<>>
    OBVIOUS
  <2> HIDE DEF s, o
  <2>2. Head(s.todo).op \notin {"load", "read", "save"}
    BY <2>1
  <2>3. LET r == s.req
            a == Head(s.todo)
            next == Head(u.todo)
        IN /\ OnCourse(u, rows)
           /\ a.op = "flush" => next.op = "commit"
           /\ next.op \notin {"load", "read", "save"}
           /\ r.kind = "create" =>
                /\ next.op = "flush" =>
                     IF r.table = "customer" THEN a.op = "number"
                     ELSE r.row.special => a.op = "special"
                /\ next.row = a.row
                /\ a.op # "commit"
           /\ r.kind = "import" =>
                /\ a.op = "keys" => next.op = "number"
                /\ a.op = "number" => next.op = "flush"
                /\ a.op = "commit" => next.op = "keys" /\ next.n = a.n + 1
                /\ a.op # "commit" => next.n = a.n /\ next.row = a.row
           /\ r.kind \in Changing => a.op # "commit" /\ (next.op = "flush" => a.op = "special")
    BY <1>1, <1>5, <2>1, <2>2, Onward
  <2> QED
    BY <2>1, <2>3
<1> QED
  BY <1>4, <1>5, <1>6

\* CheckSpecial keeps the invariant.
LEMMA CheckSpecialSafe ==
  ASSUME RegistryInv, NEW p \in Sessions, CheckSpecial(p)
  PROVE  RegistryInv'
<1> DEFINE s == session[p]
           t == s.req.table
<1>1. s.todo # <<>> /\ Head(s.todo).op = "special" /\ Doing(s, "special") /\ Me(p) = Mine(s) /\ Table(p) = t
  BY AtIs DEF CheckSpecial, Doing
<1>2. /\ SessionType(s) /\ Knows(s, rows, contended) /\ OnCourse(s, rows) /\ s.req \in Served
      /\ 0 \notin DOMAIN rows[t]
      /\ s.req.kind = "create" => Mine(s) = 0
      /\ s.req.kind \in Changing => Mine(s) = s.req.at /\ s.req.at # 0
  BY <1>1, MineIs
<1>3. CASE SpecialSeen(Table(p)) \subseteq {Me(p)}
  <2>1. Goto(p, s, Rest(p)) /\ UNCHANGED <<rows, contended, reopened>>
    BY <1>3 DEF CheckSpecial
  <2>2. s.req.kind \in {"create"} \cup Changing
    BY <1>1, <1>2, HeadIs, MineIs
  <2>3. s.req.kind = "create" => t # "customer"
    BY <1>1, <1>2, HeadIs DEF Specials
  <2>4. PICK u : /\ Follows(u, s, Rest(p)) /\ session' = [session EXCEPT ![p] = u] /\ UNCHANGED imports
                 /\ OnCourse(u, rows) /\ u.todo # <<>>
    BY <1>1, <1>2, <2>1, ProceedStep
  <2>5. SessionType(u) /\ u.req = s.req /\ u.copy = s.copy /\ u.change = s.change
        /\ u.number = s.number /\ u.write = <<>> /\ u.alone = s.alone
    <3>1. s.write = <<>>
      BY <1>1, <1>2, NothingFlushed DEF Doing
    <3> QED
      BY <2>4, <3>1 DEF Follows
  <2>6. KnowsWrite(u, rows) /\ KnowsClaim(u, rows, contended)
    BY <2>5 DEF KnowsWrite, KnowsClaim
  <2>7. KnowsNumber(u)
    <3>1. s.number # {} => t = "customer"
      BY <1>2 DEF Knows, KnowsNumber
    <3>2. Mine(u) = Mine(s)
      BY <2>5 DEF Mine
    <3> QED
      BY <1>2, <2>2, <2>3, <2>5, <3>1, <3>2 DEF KnowsNumber
  <2>8. KnowsImport(u, rows)
    BY <2>2, <2>5 DEF KnowsImport, Changing
  <2>9. KnowsSpecial(u, rows, contended)
    <3>1. SpecialSeen(t) = SpecialIn(rows[t], t)
      BY DEF SpecialSeen, SpecialIn, Rows
    <3>2. SpecialIn(rows[t], t) \subseteq {Mine(s)} /\ SpecialIn(rows[t], t) \subseteq DOMAIN rows[t]
      BY <1>1, <1>3, <3>1 DEF SpecialIn
    <3> HIDE DEF s, t
    <3>3. s.req.kind = "create" => SpecialIn(rows[t], t) = {}
      BY <1>2, <3>2
    <3>4. s.req.kind \in Changing => SpecialIn(rows[t], t) \subseteq {s.req.at}
      BY <1>2, <3>2
    <3> QED
      BY <2>5, <3>3, <3>4 DEF KnowsSpecial, t
  <2>10. Knows(u, rows, contended)
    BY <2>4, <2>6, <2>7, <2>8, <2>9 DEF Knows
  <2> QED
    BY <1>1, <2>1, <2>4, <2>5, <2>10, GoOnStep
<1>4. CASE ~ (SpecialSeen(Table(p)) \subseteq {Me(p)})
  BY <1>1, <1>4, RefuseStep DEF CheckSpecial
<1> QED
  BY <1>3, <1>4

\* CheckKeys keeps the invariant.
LEMMA CheckKeysSafe ==
  ASSUME RegistryInv, NEW p \in Sessions, CheckKeys(p)
  PROVE  RegistryInv'
<1> DEFINE s == session[p]
           t == s.req.table
           o == Head(s.todo)
<1>1. s.todo # <<>> /\ o.op = "keys" /\ Doing(s, "keys") /\ Table(p) = t /\ New(p) = o.row
  BY AtIs DEF CheckKeys, Doing
<1>2. SessionType(s) /\ Knows(s, rows, contended) /\ OnCourse(s, rows) /\ s.req \in Served
  BY <1>1, MineIs
<1>3. CASE ~ Taken(Table(p), New(p).keys)
  <2>1. Goto(p, s, Rest(p)) /\ UNCHANGED <<rows, contended, reopened>>
    BY <1>3 DEF CheckKeys
  <2>2. s.req.kind \in {"create", "import"}
    BY <1>1, <1>2, HeadIs, MineIs
  <2>3. PICK u : LET next == Head(u.todo)
                 IN /\ Follows(u, s, Rest(p)) /\ session' = [session EXCEPT ![p] = u] /\ UNCHANGED imports
                    /\ OnCourse(u, rows) /\ u.todo # <<>>
                    /\ s.req.kind = "create" => (next.op = "flush" => t # "customer" /\ ~ s.req.row.special)
                    /\ s.req.kind = "import" => next.op = "number" /\ next.n = o.n /\ next.row = o.row
    BY <1>1, <1>2, <2>1, ProceedStep
  <2>4. SessionType(u) /\ u.req = s.req /\ u.number = s.number /\ u.write = <<>> /\ u.alone = s.alone
        /\ u.failed = s.failed
    <3>1. s.write = <<>>
      BY <1>1, <1>2, NothingFlushed DEF Doing
    <3> QED
      BY <2>3, <3>1 DEF Follows
  <2>5. KnowsWrite(u, rows) /\ KnowsClaim(u, rows, contended)
    BY <2>4 DEF KnowsWrite, KnowsClaim
  <2>6. KnowsNumber(u)
    <3>1. s.number # {} => t = "customer"
      BY <1>2 DEF Knows, KnowsNumber
    <3> QED
      BY <2>2, <2>3, <2>4, <3>1 DEF KnowsNumber, Doing
  <2>7. KnowsImport(u, rows)
    <3>1. s.req.kind = "import" => ~ TakenIn(rows["customer"], o.row.keys)
      BY <1>1, <1>2, <1>3, ServedFacts DEF Taken, TakenIn, Rows
    <3>2. s.req.kind = "import" =>
            \A n \in DOMAIN s.req.list : n < o.n => n \in s.failed \/ Listed(rows["customer"], s.req.list[n])
      BY <1>2 DEF Knows, KnowsImport
    <3> HIDE DEF s, o, t
    <3> QED
      BY <2>3, <2>4, <3>1, <3>2 DEF KnowsImport
  <2>8. KnowsSpecial(u, rows, contended)
    BY <2>2, <2>3, <2>4, <1>2, ServedFacts DEF KnowsSpecial, Doing, Changing, Specials
  <2>9. Knows(u, rows, contended)
    BY <2>3, <2>5, <2>6, <2>7, <2>8 DEF Knows
  <2> QED
    BY <1>1, <2>1, <2>3, <2>4, <2>9, GoOnStep
<1>4. CASE Taken(Table(p), New(p).keys)
  BY <1>1, <1>4, RefuseStep DEF CheckKeys
<1> QED
  BY <1>3, <1>4

\* DrawNumber keeps the invariant.
LEMMA DrawNumberSafe ==
  ASSUME RegistryInv, NEW p \in Sessions, DrawNumber(p)
  PROVE  RegistryInv'
<1> DEFINE s == session[p]
           t == s.req.table
           o == Head(s.todo)
<1>1. s.todo # <<>> /\ o.op = "number" /\ Doing(s, "number")
  BY AtIs DEF DrawNumber, Doing
<1>2. SessionType(s) /\ Knows(s, rows, contended) /\ OnCourse(s, rows) /\ s.req \in Served
  BY <1>1, MineIs
<1>3. ASSUME NEW n \in Numbers, ~ Taken("customer", {n}),
             Goto(p, [s EXCEPT !.number = {n}], Rest(p)), UNCHANGED <<rows, contended, reopened>>
      PROVE  RegistryInv'
  <2> DEFINE v == [s EXCEPT !.number = {n}]
  <2>1. /\ DOMAIN v = Fields /\ v.req = s.req /\ v.alone = s.alone /\ v.failed = s.failed
        /\ v.copy = s.copy /\ v.change = s.change /\ v.write = s.write /\ v.number = {n}
    BY <1>2 DEF SessionType, Fields
  <2>2. Goto(p, v, Rest(p))
    BY <1>3
  <2> HIDE DEF v
  <2>3. SessionType(v)
    BY <1>2, <2>1 DEF SessionType
  <2>4. s.req.kind \in {"create", "import"} /\ t = "customer"
    BY <1>1, <1>2, HeadIs, MineIs, ServedFacts
  <2>5. PICK u : LET next == Head(u.todo)
                 IN /\ Follows(u, v, Rest(p)) /\ session' = [session EXCEPT ![p] = u] /\ UNCHANGED imports
                    /\ OnCourse(u, rows) /\ u.todo # <<>>
                    /\ s.req.kind = "import" => next.op = "flush" /\ next.n = o.n /\ next.row = o.row
    BY <1>1, <1>2, <2>1, <2>2, <2>3, ProceedStep
  <2>6. SessionType(u) /\ u.req = s.req /\ u.number = {n} /\ u.write = <<>> /\ u.alone = s.alone
        /\ u.failed = s.failed
    <3>1. s.write = <<>>
      BY <1>1, <1>2, NothingFlushed DEF Doing
    <3> QED
      BY <2>1, <2>5, <3>1 DEF Follows
  <2>7. KnowsWrite(u, rows) /\ KnowsClaim(u, rows, contended)
    BY <2>6 DEF KnowsWrite, KnowsClaim
  <2>8. KnowsNumber(u) /\ KnowsSpecial(u, rows, contended)
    BY <2>4, <2>6 DEF KnowsNumber, KnowsSpecial, Specials
  <2>9. KnowsImport(u, rows)
    <3>1. ~ TakenIn(rows["customer"], {n})
      BY <1>3 DEF Taken, TakenIn, Rows
    <3>2. s.req.kind = "import" =>
            /\ \A k \in DOMAIN s.req.list : k < o.n => k \in s.failed \/ Listed(rows["customer"], s.req.list[k])
            /\ s.alone => ~ TakenIn(rows["customer"], o.row.keys)
      BY <1>1, <1>2 DEF Knows, KnowsImport
    <3> HIDE DEF s, o, t
    <3> QED
      BY <2>5, <2>6, <3>1, <3>2 DEF KnowsImport
  <2>10. Knows(u, rows, contended)
    BY <2>5, <2>7, <2>8, <2>9 DEF Knows
  <2> QED
    BY <1>1, <1>3, <2>5, <2>6, <2>10, GoOnStep
<1>4. CASE Refuse(p)
  BY <1>1, <1>4, RefuseStep
<1> QED
  BY <1>3, <1>4 DEF DrawNumber

\* Load keeps the invariant.
LEMMA LoadSafe ==
  ASSUME RegistryInv, NEW p \in Sessions, Load(p)
  PROVE  RegistryInv'
<1> DEFINE s == session[p]
           r == s.req
           copy == rows[r.table][r.at]
           change == Change(r)
           ops == IF ~ Sets(change, "special") \/ copy.special THEN <<"flush", "commit">>
                  ELSE IF r.table = "currency" THEN <<"special", "special", "flush", "commit">>
                  ELSE <<"special", "flush", "commit">>
           v == [s EXCEPT !.copy = copy, !.change = change]
<1>1. s.todo # <<>> /\ Head(s.todo).op = "load" /\ Doing(s, "load")
  BY AtIs DEF Load, Doing
<1>2. /\ SessionType(s) /\ Knows(s, rows, contended) /\ OnCourse(s, rows) /\ r \in Served
      /\ r.kind \in Changing => Mine(s) # 0 /\ copy \in Row
  BY <1>1, MineIs
<1>3. r.kind \in Changing /\ r.at \in DOMAIN rows[r.table]
  BY <1>1, <1>2, HeadIs, MineIs
<1>4. s.write = <<>>
  BY <1>1, <1>2, NothingFlushed DEF Doing
<1>5. CASE MayChange(r, copy)
  <2>1. Goto(p, v, Each(ops, copy, 1)) /\ UNCHANGED <<rows, contended, reopened>>
    BY <1>5 DEF Load
  <2>2. /\ DOMAIN v = Fields /\ v.req = r /\ v.alone = s.alone /\ v.failed = s.failed
        /\ v.copy = copy /\ v.change = change /\ v.write = <<>> /\ v.number = s.number
    BY <1>2, <1>4 DEF SessionType, Fields
  <2> HIDE DEF v
  <2>3. SessionType(v)
    BY <1>2, <2>2 DEF SessionType
  <2>4. /\ ops \in LeftToChange
        /\ Sets(change, "special") /\ ~ copy.special => Head(ops) # "flush"
    <3>1. CASE ~ Sets(change, "special") \/ copy.special
      <4>1. ops = <<"flush", "commit">>
        BY <3>1
      <4> QED
        BY <3>1, <4>1 DEF LeftToChange
    <3>2. CASE Sets(change, "special") /\ ~ copy.special /\ r.table = "currency"
      <4>1. ops = <<"special", "special", "flush", "commit">>
        BY <3>2
      <4>2. Head(<<"special", "special", "flush", "commit">>) = "special"
        OBVIOUS
      <4> QED
        BY <3>2, <4>1, <4>2 DEF LeftToChange
    <3>3. CASE Sets(change, "special") /\ ~ copy.special /\ r.table # "currency"
      <4>1. ops = <<"special", "flush", "commit">>
        BY <3>3
      <4>2. Head(<<"special", "flush", "commit">>) = "special"
        OBVIOUS
      <4> QED
        BY <3>3, <4>1, <4>2 DEF LeftToChange
    <3> QED
      BY <3>1, <3>2, <3>3
  <2> HIDE DEF ops
  <2>5. ops \in Seq(Steps) /\ ops # <<>>
    BY <2>4, ChangePlanFacts
  <2>6. Each(ops, copy, 1) # <<>> /\ Head(Each(ops, copy, 1)) = Do(Head(ops), copy, 1)
    BY <2>5, EachFacts
  <2>7. PICK u : Follows(u, v, Each(ops, copy, 1)) /\ session' = [session EXCEPT ![p] = u] /\ UNCHANGED imports
    BY <2>1, <2>3, <2>6, GotoFacts
  <2>8. /\ SessionType(u) /\ u.todo = Each(ops, copy, 1) /\ u.req = r /\ u.copy = copy /\ u.change = change
        /\ u.number = s.number /\ u.write = <<>> /\ u.alone = s.alone
    BY <2>2, <2>7 DEF Follows
  <2>9. OnCourse(u, rows)
    BY <1>2, <1>3, <2>4, <2>8 DEF OnCourse, Changing, FileKinds
  <2>10. Doing(u, "flush") => Head(ops) = "flush"
    BY <2>6, <2>8 DEF Doing, Do
  <2>11. KnowsWrite(u, rows) /\ KnowsClaim(u, rows, contended)
    BY <2>8 DEF KnowsWrite, KnowsClaim
  <2>12. KnowsNumber(u) /\ KnowsImport(u, rows)
    <3>1. s.number # {} => r.table = "customer"
      BY <1>2 DEF Knows, KnowsNumber
    <3>2. Mine(u) = Mine(s)
      BY <2>8 DEF Mine
    <3> QED
      BY <1>2, <1>3, <2>8, <3>1, <3>2 DEF KnowsNumber, KnowsImport, Changing
  <2>13. KnowsSpecial(u, rows, contended)
    BY <1>3, <2>4, <2>8, <2>10 DEF KnowsSpecial, Changing
  <2>14. Knows(u, rows, contended)
    BY <2>9, <2>11, <2>12, <2>13 DEF Knows
  <2> QED
    BY <1>1, <2>1, <2>7, <2>8, <2>14, GoOnStep
<1>6. CASE ~ MayChange(r, copy)
  BY <1>1, <1>6, RefuseStep DEF Load
<1> QED
  BY <1>5, <1>6

\* BranchHoldsMoney keeps the invariant.
LEMMA BranchHoldsMoneySafe ==
  ASSUME RegistryInv, NEW p \in Sessions, BranchHoldsMoney(p)
  PROVE  RegistryInv'
BY AtIs, RefuseStep DEF BranchHoldsMoney

\* Crash keeps the invariant.
LEMMA CrashSafe ==
  ASSUME RegistryInv, NEW p \in Sessions, Crash(p)
  PROVE  RegistryInv'
<1>1. /\ session' = [session EXCEPT ![p] = Idle]
      /\ UNCHANGED <<rows, contended, reopened, imports>>
  BY DEF Crash, ghosts
<1>2. ImportGoesThrough'
  BY <1>1 DEF RegistryInv, ImportGoesThrough, Rows
<1> QED
  BY <1>1, <1>2, EndStep

-----------------------------------------------------------------------------
(* The files of customers leave the tables alone.                           *)

\* Read keeps the invariant.
LEMMA ReadSafe ==
  ASSUME RegistryInv, NEW p \in Sessions, Read(p)
  PROVE  RegistryInv'
<1> DEFINE s == session[p]
           r == s.req
           v == [s EXCEPT !.copy = files[Me(p)]]
<1>1. s.todo # <<>> /\ Head(s.todo).op = "read" /\ Doing(s, "read")
  BY AtIs DEF Read, Doing
<1>2. /\ SessionType(s) /\ Knows(s, rows, contended) /\ OnCourse(s, rows) /\ r \in Served
      /\ r.kind \in FileKinds => Mine(s) # 0
  BY <1>1, MineIs
<1>3. r.kind \in FileKinds /\ r.at \in DOMAIN rows["customer"]
  BY <1>1, <1>2, HeadIs, MineIs
<1>4. s.write = <<>>
  BY <1>1, <1>2, NothingFlushed DEF Doing
<1>5. CASE Refuse(p)
  BY <1>1, <1>5, RefuseStep
<1>6. CASE Goto(p, v, Rest(p)) /\ UNCHANGED <<rows, contended, reopened>>
  <2>1. /\ DOMAIN v = Fields /\ v.req = r /\ v.alone = s.alone
        /\ v.write = <<>> /\ v.number = s.number
    BY <1>2, <1>4 DEF SessionType, Fields
  <2> HIDE DEF v
  <2>2. SessionType(v)
    BY <1>2, <2>1 DEF SessionType
  <2>3. Rest(p) = Saving
    <3>1. s.todo \in {Reading, Saving}
      BY <1>2, <1>3 DEF OnCourse
    <3>2. s.todo = Reading
      BY <1>1, <3>1, ShortPlans
    <3> QED
      BY <3>2, ShortPlans DEF Rest
  <2>4. PICK u : Follows(u, v, Saving) /\ session' = [session EXCEPT ![p] = u] /\ UNCHANGED imports
    <3>1. Goto(p, v, Saving) /\ Saving # <<>>
      BY <1>6, <2>3, ShortPlans DEF v
    <3> QED
      BY <2>2, <3>1, GotoFacts
  <2>5. /\ SessionType(u) /\ u.todo = Saving /\ u.req = r
        /\ u.number = s.number /\ u.write = <<>> /\ u.alone = s.alone
    BY <2>1, <2>4 DEF Follows
  <2>6. OnCourse(u, rows)
    BY <1>3, <2>5 DEF OnCourse, Changing, FileKinds
  <2>7. KnowsWrite(u, rows) /\ KnowsClaim(u, rows, contended)
    BY <2>5 DEF KnowsWrite, KnowsClaim
  <2>8. KnowsNumber(u) /\ KnowsImport(u, rows) /\ KnowsSpecial(u, rows, contended)
    <3>1. s.number # {} => r.table = "customer"
      BY <1>2 DEF Knows, KnowsNumber
    <3>2. ~ Doing(u, "flush")
      BY <2>5, ShortPlans DEF Doing
    <3> QED
      BY <1>3, <2>5, <3>1, <3>2 DEF KnowsNumber, KnowsImport, KnowsSpecial, FileKinds
  <2>9. Knows(u, rows, contended)
    BY <2>6, <2>7, <2>8 DEF Knows
  <2> QED
    BY <1>1, <1>6, <2>4, <2>5, <2>9, GoOnStep
<1> QED
  BY <1>5, <1>6 DEF Read

\* Save keeps the invariant.
LEMMA SaveSafe ==
  ASSUME RegistryInv, NEW p \in Sessions, Save(p)
  PROVE  RegistryInv'
<1> DEFINE s == session[p]
<1>1. s.todo # <<>> /\ Head(s.todo).op = "save"
  BY AtIs DEF Save, Doing
<1>2. SessionType(s) /\ OnCourse(s, rows)
  BY <1>1, MineIs
<1>3. s.req.kind \in FileKinds
  BY <1>1, <1>2, HeadIs, MineIs
<1>4. CASE Refuse(p)
  BY <1>1, <1>4, RefuseStep
<1>5. CASE Goto(p, s, Rest(p)) /\ UNCHANGED <<rows, contended, reopened>>
  <2>1. Rest(p) = <<>>
    <3>1. s.todo \in {Reading, Saving}
      BY <1>2, <1>3 DEF OnCourse
    <3>2. s.todo = Saving
      BY <1>1, <3>1, ShortPlans
    <3> QED
      BY <3>2, ShortPlans DEF Rest
  <2>2. session' = [session EXCEPT ![p] = Idle] /\ Ended(p, s, FALSE)
    BY <1>5, <2>1 DEF Goto
  <2> QED
    BY <1>3, <1>5, <2>2, LeaveStep DEF FileKinds
<1> QED
  BY <1>4, <1>5 DEF Save

-----------------------------------------------------------------------------
(* The flush.                                                               *)

\* Adding the drawn number to a row's keys yields a row and leaves its flags alone.
LEMMA WithNumber ==
  ASSUME NEW A, NEW row \in [keys : A, special : BOOLEAN, active : BOOLEAN],
         NEW number, row.keys \cup number \in Keys
  PROVE  LET w == [row EXCEPT !.keys = @ \cup number]
         IN /\ w \in Row
            /\ w.keys = row.keys \cup number /\ w.special = row.special /\ w.active = row.active
BY DEF Row

\* The keys of rows are sets of codes, or of a customer's ids with its number.
LEMMA NewRowFacts ==
  ASSUME RegistryInv, NEW p \in Sessions, session[p].todo # <<>>,
         Head(session[p].todo).op = "flush", Mine(session[p]) = 0
  PROVE  LET s == session[p]
             o == Head(s.todo)
         IN /\ s.req.kind \in {"create", "import"}
            /\ [o.row EXCEPT !.keys = @ \cup s.number] \in Row
            /\ [o.row EXCEPT !.keys = @ \cup s.number].keys = o.row.keys \cup s.number
            /\ [o.row EXCEPT !.keys = @ \cup s.number].special = o.row.special
            /\ s.req.kind = "create" => o.row = s.req.row
            /\ s.req.kind = "import" => ~ o.row.special
<1> DEFINE s == session[p]
           o == Head(s.todo)
           w == [o.row EXCEPT !.keys = @ \cup s.number]
<1>1. SessionType(s) /\ Knows(s, rows, contended) /\ OnCourse(s, rows) /\ s.req \in Served
  BY MineIs
<1>2. s.req.kind \in {"create", "import"}
  BY MineIs
<1>3. /\ s.req.kind = "create" => o.row = s.req.row
      /\ s.req.kind = "import" =>
           /\ s.req.list[o.n] \in IdSets
           /\ o.row = [keys |-> s.req.list[o.n], special |-> FALSE, active |-> TRUE]
  BY <1>1, HeadIs
<1>4. s.number \in {{}} \cup {{n} : n \in Numbers}
  BY <1>1 DEF SessionType
<1>5. Doing(s, "flush")
  BY DEF Doing
<1>6. /\ s.number # {} => s.req.table = "customer"
      /\ s.req.table = "customer" => s.number # {}
  BY <1>1, <1>5 DEF Knows, KnowsNumber
<1>7. /\ o.row \in [keys : {{c} : c \in Codes} \cup IdSets, special : BOOLEAN, active : BOOLEAN]
      /\ s.req.table \in Specials => o.row.keys \in {{c} : c \in Codes}
      /\ s.req.table = "customer" => o.row.keys \in IdSets
      /\ s.req.table \in Tables
  <2>1. CASE s.req.kind = "create"
    BY <1>1, <1>3, <2>1, ServedFacts
  <2>2. CASE s.req.kind = "import"
    <3>1. s.req.table = "customer"
      BY <1>1, <2>2, ServedFacts
    <3>2. PICK ids \in IdSets : o.row = [keys |-> ids, special |-> FALSE, active |-> TRUE]
      BY <1>3, <2>2
    <3> HIDE DEF s, o
    <3> QED
      BY <3>1, <3>2 DEF Specials, Tables
  <2> QED
    BY <1>2, <2>1, <2>2
<1> HIDE DEF s, o
<1>9. o.row.keys \cup s.number \in Keys
  <2>1. CASE s.req.table = "customer"
    <3>1. PICK n \in Numbers : s.number = {n}
      BY <1>4, <1>6, <2>1
    <3>2. o.row.keys \in IdSets
      BY <1>7, <2>1
    <3> QED
      BY <3>1, <3>2 DEF Keys
  <2>2. CASE s.req.table # "customer"
    <3>1. s.number = {} /\ o.row.keys \in {{c} : c \in Codes}
      BY <1>6, <1>7, <2>2 DEF Tables, Specials
    <3> QED
      BY <3>1 DEF Keys
  <2> QED
    BY <2>1, <2>2
<1>10. w \in Row /\ w.keys = o.row.keys \cup s.number /\ w.special = o.row.special
  BY <1>7, <1>9, WithNumber
<1> HIDE DEF w
<1>11. s.req.kind = "import" => ~ o.row.special
  BY <1>3
<1> QED
  BY <1>2, <1>3, <1>10, <1>11 DEF s, o, w

\* A changed row keeps its keys, and gains a flag only if the change sets it.
LEMMA ChangedFacts ==
  ASSUME NEW row \in Row, NEW copy \in Row, NEW change, DOMAIN change \subseteq Flags,
         \A f \in DOMAIN change : change[f] \in BOOLEAN
  PROVE  LET w == Changed(row, copy, change)
         IN /\ w \in Row /\ w.keys = row.keys
            /\ w.special /\ ~ row.special => Sets(change, "special") /\ ~ copy.special
            /\ w.active /\ ~ row.active => Sets(change, "active")
<1>1. row.special \in BOOLEAN /\ row.active \in BOOLEAN /\ copy.special \in BOOLEAN /\ copy.active \in BOOLEAN
  BY DEF Row
<1> DEFINE sp == IF "special" \in DOMAIN change /\ change.special # copy.special
                 THEN change.special ELSE row.special
           ac == IF "active" \in DOMAIN change /\ change.active # copy.active
                 THEN change.active ELSE row.active
<1>2. sp \in BOOLEAN /\ (sp /\ ~ row.special => Sets(change, "special") /\ ~ copy.special)
  BY <1>1 DEF Sets
<1>3. ac \in BOOLEAN /\ (ac /\ ~ row.active => Sets(change, "active"))
  BY <1>1 DEF Sets
<1>4. Changed(row, copy, change) = [keys |-> row.keys, special |-> sp, active |-> ac]
  BY DEF Changed
<1>5. row.keys \in Keys
  BY DEF Row
<1> HIDE DEF sp, ac
<1> QED
  BY <1>2, <1>3, <1>4, <1>5 DEF Row

\* What p is about to write is a row, new or changed, that it knows to be alright.
LEMMA WrittenFacts ==
  ASSUME RegistryInv, NEW p \in Sessions, session[p].todo # <<>>,
         Head(session[p].todo).op = "flush"
  PROVE  LET s == session[p]
             t == s.req.table
             w == Written(p)
         IN /\ w \in Row
            /\ s.req.kind \in {"create", "import"} \cup Changing
            /\ Mine(s) # 0 =>
                 /\ s.req.kind \in Changing /\ Mine(s) = s.req.at
                 /\ w = Changed(rows[t][Mine(s)], s.copy, s.change)
            /\ Mine(s) = 0 => w.keys = Head(s.todo).row.keys \cup s.number
            /\ w.special /\ (w.active \/ t = "vault") /\ t \in Specials \ contended
                 /\ (t = "currency" => SpecialIn(rows[t], t) \subseteq {Mine(s)}) =>
                 \/ Mine(s) # 0 /\ Mine(s) \in SpecialIn(rows[t], t)
                 \/ /\ Claims(s.req)
                    /\ \/ SpecialIn(rows[t], t) \subseteq {Mine(s)}
                       \/ t = "branch" /\ Mine(s) # 0 /\ w.active /\ ~ rows[t][Mine(s)].active
<1> DEFINE s == session[p]
           r == s.req
           t == r.table
           w == Written(p)
           seen == SpecialIn(rows[t], t)
<1>1. /\ SessionType(s) /\ Knows(s, rows, contended) /\ OnCourse(s, rows) /\ r \in Served
      /\ r.kind \in {"create", "import"} => Mine(s) = 0
      /\ r.kind \in Changing \cup FileKinds =>
           Mine(s) = r.at /\ r.at \in DOMAIN rows[t] /\ r.at # 0 /\ rows[t][r.at] \in Row
      /\ r.kind \in {"create", "import"} \cup Changing \cup FileKinds
      /\ t \in Tables
  BY MineIs
<1>2. r.kind \notin FileKinds
  BY <1>1, HeadIs
<1>3. Doing(s, "flush")
  BY DEF Doing
<1>4. CASE Mine(s) = 0
  <2>1. r.kind \in {"create", "import"}
    BY <1>1, <1>2, <1>4
  <2>2. w = [Head(s.todo).row EXCEPT !.keys = @ \cup s.number]
    BY <1>4, AtIs DEF Written
  <2>3. /\ w \in Row /\ w.keys = Head(s.todo).row.keys \cup s.number
        /\ w.special = Head(s.todo).row.special
        /\ r.kind = "create" => w.special = r.row.special
        /\ r.kind = "import" => ~ w.special
    BY <1>4, <2>2, NewRowFacts
  <2>4. ASSUME w.special, t \in Specials \ contended
        PROVE  Claims(r) /\ seen \subseteq {Mine(s)}
    <3>1. r.kind = "create" /\ r.row.special
      BY <2>1, <2>3, <2>4
    <3>2. Claims(r)
      BY <3>1 DEF Claims
    <3>3. seen = {}
      BY <1>1, <1>3, <2>4, <3>1 DEF Knows, KnowsSpecial
    <3> QED
      BY <3>2, <3>3
  <2> HIDE DEF w, seen
  <2> QED
    BY <1>4, <2>1, <2>3, <2>4 DEF w, seen
<1>5. CASE Mine(s) # 0
  <2>1. r.kind \in Changing /\ Mine(s) = r.at /\ r.at \in DOMAIN rows[t] /\ rows[t][r.at] \in Row
    BY <1>1, <1>2, <1>5
  <2>2. w = Changed(rows[t][r.at], s.copy, s.change)
    BY <1>5, <2>1, AtIs DEF Written
  <2>3. s.copy \in Row /\ s.change = Change(r)
    BY <1>1, <2>1, HeadIs
  <2>4. /\ DOMAIN s.change \subseteq Flags
        /\ \A f \in DOMAIN s.change : s.change[f] \in BOOLEAN
        /\ "special" \in DOMAIN s.change => r.table \in {"branch", "currency"}
        /\ Sets(s.change, "special") \/ Sets(s.change, "active") => Claims(r)
    BY <1>1, <2>1, <2>3, ChangeFacts
  <2> DEFINE row == rows[t][r.at]
  <2>5. /\ w \in Row
        /\ w.special /\ ~ row.special => Sets(s.change, "special") /\ ~ s.copy.special
        /\ w.active /\ ~ row.active => Sets(s.change, "active")
    <3> HIDE DEF w, row
    <3>1. row \in Row /\ w = Changed(row, s.copy, s.change)
      BY <2>1, <2>2 DEF row
    <3> QED
      BY <2>3, <2>4, <3>1, ChangedFacts
  <2>6. ASSUME w.special, w.active \/ t = "vault", t \in Specials \ contended,
               t = "currency" => seen \subseteq {Mine(s)}
        PROVE  \/ Mine(s) \in seen
               \/ /\ Claims(r)
                  /\ \/ seen \subseteq {Mine(s)}
                     \/ t = "branch" /\ w.active /\ ~ row.active
    <3>1. CASE ~ row.special
      <4>1. Sets(s.change, "special") /\ ~ s.copy.special
        BY <2>5, <2>6, <3>1
      <4>2. seen \subseteq {r.at}
        BY <1>1, <1>3, <2>1, <2>6, <4>1 DEF Knows, KnowsSpecial
      <4> QED
        BY <2>1, <2>4, <4>1, <4>2
    <3>2. CASE row.special /\ (row.active \/ t = "vault")
      BY <2>1, <3>2 DEF SpecialIn
    <3>3. CASE row.special /\ ~ row.active /\ t # "vault"
      <4>1. Claims(r) /\ w.active
        BY <2>4, <2>5, <2>6, <3>3
      <4>2. t = "branch" \/ t = "currency"
        BY <2>6, <3>3 DEF Specials
      <4> QED
        BY <2>6, <3>3, <4>1, <4>2
    <3> QED
      BY <3>1, <3>2, <3>3
  <2> HIDE DEF w, seen
  <2> QED
    BY <1>5, <2>1, <2>2, <2>5, <2>6 DEF w, seen
<1> QED
  BY <1>4, <1>5

\* An import to a branch that exists, and that nobody disturbs, is not undone
\* by the database.
LEMMA AbortSafe ==
  ASSUME RegistryInv, NEW p \in Sessions, session[p].todo # <<>>,
         Head(session[p].todo).op = "flush",
         \/ TriggerRefuses(p) \/ NoSuchBranch(session[p].req)
         \/ Me(p) = 0 /\ Taken(Table(p), Written(p).keys),
         Abort(p)
  PROVE  RegistryInv'
<1> DEFINE s == session[p]
           o == Head(s.todo)
<1>1. SessionType(s) /\ Knows(s, rows, contended) /\ OnCourse(s, rows) /\ s.req \in Served
  BY MineIs
<1>2. CASE NextEntries(p) = <<>>
  BY <1>2, RefuseStep DEF Abort
<1>3. CASE NextEntries(p) # <<>>
  <2>1. /\ session' = [session EXCEPT ![p] = Idle] /\ Ended(p, s, TRUE)
        /\ UNCHANGED <<rows, contended, reopened>>
    BY <1>3 DEF Abort
  <2>2. s.req.kind = "import"
    BY <1>3 DEF NextEntries
  <2>3. s.req.table = "customer" /\ Mine(s) = 0 /\ Me(p) = 0 /\ Table(p) = "customer"
    BY <1>1, <2>2, ServedFacts, AtIs, MineIs
  <2>4. Taken("customer", Written(p).keys) \/ ~ s.req.known
    BY <2>3 DEF TriggerRefuses, NoSuchBranch
  <2>5. Written(p).keys = o.row.keys \cup s.number
    BY <2>3, WrittenFacts
  <2>6. ~ s.alone \/ ~ s.req.known
    <3>1. s.alone => ~ TakenIn(rows["customer"], o.row.keys) /\ ~ TakenIn(rows["customer"], s.number)
      BY <1>1, <2>2 DEF Knows, KnowsImport
    <3>2. TakenIn(rows["customer"], o.row.keys) \/ TakenIn(rows["customer"], s.number) \/ ~ s.req.known
      BY <2>4, <2>5 DEF Taken, TakenIn, Rows
    <3> QED
      BY <3>1, <3>2
  <2>7. ImportGoesThrough'
    BY <2>1, <2>6, ImportsGrow DEF RegistryInv
  <2> QED
    BY <2>1, <2>7, EndStep
<1> QED
  BY <1>2, <1>3

\* Flush keeps the invariant.
LEMMA FlushSafe ==
  ASSUME RegistryInv, NEW p \in Sessions, Flush(p)
  PROVE  RegistryInv'
<1> DEFINE s == session[p]
           r == s.req
           t == r.table
           o == Head(s.todo)
           w == [at |-> Me(p), row |-> Written(p)]
           v == [s EXCEPT !.write = <<w>>]
<1>1. s.todo # <<>> /\ o.op = "flush" /\ Doing(s, "flush") /\ Me(p) = Mine(s) /\ Table(p) = t
  BY AtIs DEF Flush, Doing
<1>2. /\ SessionType(s) /\ Knows(s, rows, contended) /\ OnCourse(s, rows) /\ r \in Served
      /\ r.kind \in {"create", "import"} \cup Changing \cup FileKinds
      /\ t \in Tables
  BY <1>1, MineIs
<1>3. CASE Me(p) # 0 /\ ~ Writes(p)
  <2>1. Goto(p, s, Rest(p)) /\ UNCHANGED <<rows, contended, reopened>>
    BY <1>3 DEF Flush
  <2>2. r.kind \in Changing
    BY <1>1, <1>3, WrittenFacts
  <2>3. PICK u : /\ Follows(u, s, Rest(p)) /\ session' = [session EXCEPT ![p] = u] /\ UNCHANGED imports
                 /\ OnCourse(u, rows) /\ Head(u.todo).op = "commit"
    BY <1>1, <1>2, <2>1, ProceedStep
  <2>4. SessionType(u) /\ u.req = r /\ u.number = s.number /\ u.write = <<>> /\ u.alone = s.alone
    <3>1. s.write = <<>>
      BY <1>1, <1>2, NothingFlushed DEF Doing
    <3> QED
      BY <2>3, <3>1 DEF Follows
  <2>5. KnowsWrite(u, rows) /\ KnowsClaim(u, rows, contended)
    BY <2>4 DEF KnowsWrite, KnowsClaim
  <2>6. KnowsNumber(u) /\ KnowsImport(u, rows) /\ KnowsSpecial(u, rows, contended)
    <3>1. s.number # {} => t = "customer"
      BY <1>2 DEF Knows, KnowsNumber
    <3>2. ~ Doing(u, "flush")
      BY <2>3 DEF Doing
    <3> QED
      BY <2>2, <2>4, <3>1, <3>2 DEF KnowsNumber, KnowsImport, KnowsSpecial, Changing
  <2>7. Knows(u, rows, contended)
    BY <2>3, <2>5, <2>6 DEF Knows
  <2> QED
    BY <1>1, <2>1, <2>3, <2>4, <2>7, GoOnStep
<1>4. CASE /\ ~ (Me(p) # 0 /\ ~ Writes(p))
           /\ \/ TriggerRefuses(p) \/ NoSuchBranch(r)
              \/ Me(p) = 0 /\ Taken(Table(p), Written(p).keys)
  <2>1. Abort(p)
    BY <1>4 DEF Flush
  <2> QED
    BY <1>1, <1>4, <2>1, AbortSafe
<1>5. CASE /\ ~ (Me(p) # 0 /\ ~ Writes(p))
           /\ ~ TriggerRefuses(p) /\ ~ NoSuchBranch(r)
           /\ ~ (Me(p) = 0 /\ Taken(Table(p), Written(p).keys))
  <2>1. ~ MustWait(p) /\ Goto(p, v, Rest(p)) /\ UNCHANGED <<rows, contended, reopened>>
    BY <1>5 DEF Flush
  <2>2. /\ DOMAIN v = Fields /\ v.req = r /\ v.alone = s.alone /\ v.failed = s.failed
        /\ v.copy = s.copy /\ v.change = s.change /\ v.number = s.number /\ v.write = <<w>>
    BY <1>2 DEF SessionType, Fields
  <2> DEFINE row == Written(p)
             seen == SpecialIn(rows[t], t)
  <2>3. row \in Row /\ Mine(s) \in Nat
    <3>1. r.kind \in Changing \cup FileKinds => Mine(s) = r.at /\ r.at \in Nat
      BY <1>1, <1>2, MineIs, ServedFacts
    <3>2. r.kind \in {"create", "import"} => Mine(s) = 0
      BY <1>1, MineIs
    <3> QED
      BY <1>1, <1>2, <3>1, <3>2, WrittenFacts
  <2>4. w.at = Mine(s) /\ w.row = row /\ w \in Write
    BY <1>1, <2>3 DEF Write
  <2> HIDE DEF v, w
  <2>5. SessionType(v)
    <3>1. <<w>>[1] = w /\ <<w>> # <<>>
      OBVIOUS
    <3> QED
      BY <1>2, <2>2, <2>4, <3>1 DEF SessionType
  <2>6. PICK u : /\ Follows(u, v, Rest(p)) /\ session' = [session EXCEPT ![p] = u] /\ UNCHANGED imports
                 /\ OnCourse(u, rows) /\ u.todo # <<>> /\ Head(u.todo).op = "commit"
                 /\ r.kind = "import" => Head(u.todo).n = o.n /\ Head(u.todo).row = o.row
    BY <1>1, <1>2, <2>1, <2>2, <2>5, ProceedStep
  <2>7. /\ SessionType(u) /\ u.req = r /\ u.number = s.number /\ u.write = <<w>> /\ u.alone = s.alone
        /\ u.copy = s.copy /\ u.change = s.change /\ u.failed = s.failed
        /\ u.write[1] = w /\ u.write # <<>> /\ Mine(u) = Mine(s)
    BY <2>2, <2>6 DEF Follows, Mine
  <2>8. Doing(u, "commit") /\ ~ Doing(u, "flush")
    BY <2>6 DEF Doing
  <2>9. KnowsWrite(u, rows)
    <3>1. Mine(s) = 0 => ~ TakenIn(rows[t], row.keys)
      BY <1>1, <1>5 DEF Taken, TakenIn, Rows
    <3>2. Mine(s) # 0 => row = Changed(rows[t][Mine(s)], s.copy, s.change)
      BY <1>1, WrittenFacts
    <3> HIDE DEF row
    <3> QED
      BY <2>4, <2>7, <2>8, <3>1, <3>2 DEF KnowsWrite
  <2>10. KnowsNumber(u) /\ KnowsSpecial(u, rows, contended)
    <3>1. s.number # {} => t = "customer"
      BY <1>2 DEF Knows, KnowsNumber
    <3> QED
      BY <2>7, <2>8, <3>1 DEF KnowsNumber, KnowsSpecial
  <2>11. KnowsImport(u, rows)
    <3>1. r.kind = "import" => o.row.keys \subseteq row.keys
      BY <1>1, MineIs, WrittenFacts
    <3>2. r.kind = "import" =>
            \A n \in DOMAIN r.list : n < o.n => n \in s.failed \/ Listed(rows["customer"], r.list[n])
      BY <1>2 DEF Knows, KnowsImport
    <3> HIDE DEF s, r, o, row
    <3> QED
      BY <2>4, <2>6, <2>7, <3>1, <3>2 DEF KnowsImport
  <2>12. KnowsClaim(u, rows, contended)
    <3>1. t = "currency" /\ row.special => seen \subseteq {Mine(s)}
      <4>1. SpecialSeen("currency") = SpecialIn(rows["currency"], "currency")
        BY DEF SpecialSeen, SpecialIn, Rows
      <4> QED
        BY <1>1, <1>5, <4>1 DEF TriggerRefuses
    <3>2. row.special /\ (row.active \/ t = "vault") /\ t \in Specials \ contended =>
            \/ Mine(s) # 0 /\ Mine(s) \in seen
            \/ /\ Claims(r)
               /\ \/ seen \subseteq {Mine(s)}
                  \/ t = "branch" /\ Mine(s) # 0 /\ row.active /\ ~ rows[t][Mine(s)].active
      BY <1>1, <3>1, WrittenFacts
    <3> HIDE DEF s, r, o, row, seen
    <3> QED
      BY <2>4, <2>7, <3>2 DEF KnowsClaim, t, seen
  <2>13. Knows(u, rows, contended)
    BY <2>6, <2>9, <2>10, <2>11, <2>12 DEF Knows
  <2>14. ASSUME NEW q \in Sessions \ {p} PROVE Apart(u, session[q], contended)
    <3> DEFINE z == session[q]
    <3>1. Apart(s, z, contended)
      BY DEF RegistryInv
    <3>2. z.todo # <<>> /\ z.req.table = t /\ z.write # <<>> =>
            IF Mine(s) = 0 THEN z.write[1].at = 0 => z.write[1].row.keys \cap row.keys = {}
            ELSE z.write[1].at # Mine(s)
      BY <1>1, <2>1 DEF MustWait, Others, Pending, Busy
    <3>3. z.write[1].row.keys \cap row.keys = row.keys \cap z.write[1].row.keys
      OBVIOUS
    <3> HIDE DEF z, row, s, r
    <3>4. z.todo # <<>> /\ z.req.table = t =>
            /\ Claims(r) /\ Claims(z.req) => t \in contended
            /\ Registers(r) /\ Registers(z.req) => ~ s.alone /\ ~ z.alone
      BY <1>1, <3>1 DEF Apart, r
    <3>5. z.todo # <<>> /\ z.req.table = t /\ z.write # <<>> =>
            IF w.at = 0 THEN z.write[1].at = 0 => w.row.keys \cap z.write[1].row.keys = {}
            ELSE z.write[1].at # w.at
      BY <2>4, <3>2, <3>3
    <3> QED
      BY <2>7, <3>4, <3>5 DEF Apart, z
  <2>15. ImportGoesThrough'
    BY <2>1, <2>6 DEF RegistryInv, ImportGoesThrough, Rows
  <2> QED
    BY <2>1, <2>6, <2>7, <2>13, <2>14, <2>15, CalmStep
<1> QED
  BY <1>3, <1>4, <1>5

-----------------------------------------------------------------------------
(* The commit.                                                              *)

\* The tables once the row w is stored in table t, at c.
Stored(tables, next, t, w, c) ==
  /\ \A x \in Tables \ {t} : next[x] = tables[x]
  /\ next[t] \in Seq(Row)
  /\ DOMAIN next[t] = DOMAIN tables[t] \cup {c}
  /\ next[t][c] = w.row
  /\ \A k \in DOMAIN tables[t] \ {c} : next[t][k] = tables[t][k]
  /\ w.at = 0 => c \notin DOMAIN tables[t] /\ ~ TakenIn(tables[t], w.row.keys)
  /\ w.at # 0 => c = w.at /\ c \in DOMAIN tables[t] /\ w.row.keys = tables[t][c].keys
  /\ c # 0

\* No row loses its keys.
LEMMA StoredKeys ==
  ASSUME NEW tables, NEW next, NEW t \in Tables, NEW w, NEW c, Stored(tables, next, t, w, c)
  PROVE  \A x \in Tables :
           /\ DOMAIN tables[x] \subseteq DOMAIN next[x]
           /\ \A k \in DOMAIN tables[x] : next[x][k].keys = tables[x][k].keys
           /\ \A keys : Listed(tables[x], keys) => Listed(next[x], keys)
<1>1. ASSUME NEW x \in Tables
      PROVE  /\ DOMAIN tables[x] \subseteq DOMAIN next[x]
             /\ \A k \in DOMAIN tables[x] : next[x][k].keys = tables[x][k].keys
  <2>1. CASE x # t
    BY <2>1 DEF Stored
  <2>2. CASE x = t
    <3>1. ASSUME NEW k \in DOMAIN tables[t] PROVE next[t][k].keys = tables[t][k].keys
      <4>1. CASE k = c
        BY <4>1 DEF Stored
      <4>2. CASE k # c
        BY <4>2 DEF Stored
      <4> QED
        BY <4>1, <4>2
    <3> QED
      BY <2>2, <3>1 DEF Stored
  <2> QED
    BY <2>1, <2>2
<1> QED
  BY <1>1 DEF Listed

\* Only the row that was stored may be special now and was not before.
LEMMA StoredSpecial ==
  ASSUME NEW tables, NEW next, NEW t, NEW w, NEW c, Stored(tables, next, t, w, c)
  PROVE  LET seen  == SpecialIn(tables[t], t)
             after == SpecialIn(next[t], t)
         IN /\ after \subseteq seen \cup {c}
            /\ seen \ {c} \subseteq after
            /\ c \in after => w.row.special /\ (w.row.active \/ t = "vault")
BY DEF Stored, SpecialIn

\* A session on course with nothing left to do serves no request.
LEMMA IdleIsNone ==
  ASSUME NEW s, SessionType(s), NEW tables, OnCourse(s, tables), s.todo = <<>>
  PROVE  s.req.kind = "none"
<1> DEFINE r == s.req
<1>1. r \in Served
  BY DEF SessionType
<1>2. r.kind # "create"
  <2> SUFFICES ASSUME r.kind = "create" PROVE FALSE
    OBVIOUS
  <2>1. PICK ops \in LeftToCreate(r) : s.todo = Each(ops, r.row, 1)
    BY DEF OnCourse
  <2>2. ops \in Seq(Steps) /\ ops # <<>>
    BY <1>1, CreateFacts
  <2> QED
    BY <2>1, <2>2, EachFacts
<1>3. r.kind # "import"
  <2> SUFFICES ASSUME r.kind = "import" PROVE FALSE
    OBVIOUS
  <2>1. PICK m \in 0..4 * Len(r.list) - 1 : s.todo = ImportAfter(r.list, m)
    BY DEF OnCourse
  <2> QED
    BY <1>1, <2>1, ServedFacts, ImportFacts
<1>4. r.kind \notin Changing
  <2> SUFFICES ASSUME r.kind \in Changing PROVE FALSE
    OBVIOUS
  <2>1. PICK ops \in LeftToChange : s.todo = Each(ops, s.copy, 1)
    BY ShortPlans DEF OnCourse
  <2>2. ops \in Seq(Steps) /\ ops # <<>>
    BY ChangePlanFacts
  <2> QED
    BY <2>1, <2>2, EachFacts
<1>5. r.kind \notin FileKinds
  BY ShortPlans DEF OnCourse
<1> QED
  BY <1>1, <1>2, <1>3, <1>4, <1>5, ServedFacts

\* What a session knows of tables that are as they were stays so.
LEMMA KnowsElsewhere ==
  ASSUME NEW tables, NEW next, NEW raced, NEW z, SessionType(z), Knows(z, tables, raced),
         z.todo # <<>> => next[z.req.table] = tables[z.req.table]
  PROVE  Knows(z, next, raced)
<1>1. OnCourse(z, tables) /\ z.req \in Served
  BY DEF Knows, SessionType
<1>2. CASE z.todo # <<>>
  <2>1. next[z.req.table] = tables[z.req.table]
    BY <1>2
  <2>2. z.req.kind \in {"import"} \cup FileKinds => z.req.table = "customer"
    BY <1>1, ServedFacts
  <2>3. OnCourse(z, next)
    BY <1>1, <2>1, <2>2 DEF OnCourse
  <2>4. KnowsWrite(z, next) /\ KnowsClaim(z, next, raced) /\ KnowsSpecial(z, next, raced)
    BY <2>1 DEF Knows, KnowsWrite, KnowsClaim, KnowsSpecial
  <2>5. KnowsImport(z, next)
    BY <2>1, <2>2 DEF Knows, KnowsImport
  <2> QED
    BY <2>3, <2>4, <2>5 DEF Knows
<1>3. CASE z.todo = <<>>
  <2>1. z.req.kind = "none" /\ ~ Doing(z, "commit") /\ ~ Doing(z, "flush")
    BY <1>1, <1>3, IdleIsNone DEF Doing
  <2>2. z.write = <<>>
    BY <2>1, NothingFlushed
  <2>3. OnCourse(z, next)
    BY <1>3, <2>1 DEF OnCourse, Changing, FileKinds
  <2> QED
    BY <2>1, <2>2, <2>3 DEF Knows, KnowsWrite, KnowsClaim, KnowsSpecial, KnowsImport
<1> QED
  BY <1>2, <1>3

\* The commit of s takes nothing from what z knows.
LEMMA KnowsBeside ==
  ASSUME NEW tables, NEW next, NEW raced, NEW s, NEW z, SessionType(s), SessionType(z),
         Knows(s, tables, raced), Knows(z, tables, raced), Apart(s, z, raced),
         s.todo # <<>>, s.write # <<>>, s.req.table \in Tables,
         0 \notin DOMAIN tables[s.req.table],
         NEW c, Stored(tables, next, s.req.table, s.write[1], c)
  PROVE  Knows(z, next, raced)
<1> DEFINE t == s.req.table
           w == s.write[1]
           seen == SpecialIn(tables[t], t)
           after == SpecialIn(next[t], t)
           x == z.write[1]
<1>1. CASE z.todo # <<>> /\ z.req.table = t
  <2>1. OnCourse(z, tables) /\ z.req \in Served /\ s.req \in Served
    BY DEF Knows, SessionType
  <2>2. /\ DOMAIN tables[t] \subseteq DOMAIN next[t]
        /\ \A k \in DOMAIN tables[t] : next[t][k].keys = tables[t][k].keys
        /\ \A keys : Listed(tables[t], keys) => Listed(next[t], keys)
    <3>1. t \in Tables /\ Stored(tables, next, t, w, c)
      OBVIOUS
    <3> HIDE DEF t, w
    <3> QED
      BY <3>1, StoredKeys
  <2>3. z.req.kind \in {"import"} \cup FileKinds => t = "customer"
    BY <1>1, <2>1, ServedFacts
  <2>4. OnCourse(z, next)
    BY <1>1, <2>1, <2>2, <2>3 DEF OnCourse
  <2>5. /\ w.at = Mine(s)
        /\ w.at = 0 => s.req.kind \in {"create", "import"}
    <3>1. w.at = Mine(s)
      BY DEF Knows, KnowsWrite
    <3>2. OnCourse(s, tables) /\ s.req.kind # "none"
      BY HeadIs DEF Knows
    <3>3. s.req.kind \in {"create", "import"} \cup Changing \cup FileKinds
      BY <2>1, <3>2, ServedFacts
    <3>4. s.req.kind \in Changing => s.req.at # 0 /\ Mine(s) = s.req.at
      BY <3>2, HeadIs DEF Changing, Mine
    <3>5. s.req.kind \in FileKinds => s.req.at # 0 /\ Mine(s) = s.req.at
      <4>1. s.req.kind \in FileKinds => s.req.at \in DOMAIN tables["customer"] /\ t = "customer"
        BY <2>1, <3>2, HeadIs, ServedFacts
      <4>2. s.req.kind \in FileKinds => Mine(s) = s.req.at
        BY DEF FileKinds, Mine
      <4> QED
        BY <4>1, <4>2
    <3> QED
      BY <3>1, <3>3, <3>4, <3>5
  <2>6. ASSUME z.write # <<>>, x.at # 0
        PROVE  x.at \in DOMAIN tables[t] /\ x.at # c /\ next[t][x.at] = tables[t][x.at]
    <3>1. x.at = Mine(z)
      BY <2>6 DEF Knows, KnowsWrite
    <3>2. z.req.kind \notin {"create", "import"} /\ Mine(z) = z.req.at
      BY <2>6, <3>1 DEF Mine
    <3>3. z.req.kind \in Changing \cup FileKinds
      BY <1>1, <2>1, <3>2, HeadIs, ServedFacts
    <3>4. x.at \in DOMAIN tables[t]
      BY <1>1, <2>1, <2>3, <3>1, <3>2, <3>3, HeadIs
    <3>5. x.at # c
      <4>1. CASE w.at = 0
        BY <3>4, <4>1 DEF Stored
      <4>2. CASE w.at # 0
        BY <1>1, <2>6, <4>2 DEF Stored, Apart
      <4> QED
        BY <4>1, <4>2
    <3> QED
      BY <3>4, <3>5 DEF Stored
  <2>7. KnowsWrite(z, next)
    <3>1. ASSUME z.write # <<>>, x.at = 0 PROVE ~ TakenIn(next[t], x.row.keys)
      <4>1. ~ TakenIn(tables[t], x.row.keys)
        BY <1>1, <3>1 DEF Knows, KnowsWrite
      <4>2. w.at = 0 => w.row.keys \cap x.row.keys = {}
        BY <1>1, <3>1 DEF Apart
      <4>3. ASSUME NEW k \in DOMAIN next[t] PROVE next[t][k].keys \cap x.row.keys = {}
        <5>1. CASE k \in DOMAIN tables[t]
          BY <2>2, <4>1, <5>1 DEF TakenIn
        <5>2. CASE k \notin DOMAIN tables[t]
          BY <4>2, <5>2 DEF Stored
        <5> QED
          BY <5>1, <5>2
      <4> QED
        BY <4>3 DEF TakenIn
    <3> HIDE DEF x
    <3>2. z.write # <<>> =>
            /\ Doing(z, "commit") /\ x.at = Mine(z)
            /\ x.at # 0 => x.row = Changed(tables[t][x.at], z.copy, z.change)
      BY <1>1 DEF Knows, KnowsWrite, x
    <3> HIDE DEF t
    <3> QED
      BY <1>1, <2>6, <3>1, <3>2 DEF KnowsWrite, x
  <2>8. KnowsImport(z, next)
    <3> DEFINE o == Head(z.todo)
    <3>1. ASSUME z.req.kind = "import", z.alone, NEW keys, ~ TakenIn(tables[t], keys)
          PROVE  ~ TakenIn(next[t], keys)
      <4>1. t = "customer" /\ Registers(z.req)
        BY <1>1, <2>3, <3>1 DEF Registers
      <4>2. ~ Registers(s.req)
        BY <1>1, <3>1, <4>1 DEF Apart
      <4>3. w.at # 0
        BY <2>5, <4>1, <4>2 DEF Registers
      <4>4. DOMAIN next[t] = DOMAIN tables[t]
        BY <4>3 DEF Stored
      <4> QED
        BY <2>2, <3>1, <4>4 DEF TakenIn
    <3>2. z.req.kind = "import" =>
            /\ t = "customer"
            /\ \A n \in DOMAIN z.req.list : n < o.n => n \in z.failed \/ Listed(tables[t], z.req.list[n])
            /\ z.alone /\ o.op \in {"number", "flush"} => ~ TakenIn(tables[t], o.row.keys)
            /\ z.alone /\ o.op = "flush" => ~ TakenIn(tables[t], z.number)
            /\ o.op = "commit" => z.write # <<>> /\ o.row.keys \subseteq z.write[1].row.keys
      BY <2>3 DEF Knows, KnowsImport
    <3> HIDE DEF o, t
    <3>3. z.req.kind = "import" =>
            /\ \A n \in DOMAIN z.req.list : n < o.n => n \in z.failed \/ Listed(next[t], z.req.list[n])
            /\ z.alone /\ o.op \in {"number", "flush"} => ~ TakenIn(next[t], o.row.keys)
            /\ z.alone /\ o.op = "flush" => ~ TakenIn(next[t], z.number)
      BY <2>2, <3>1, <3>2
    <3> QED
      BY <3>2, <3>3 DEF KnowsImport, o
  <2>9. ASSUME Claims(z.req), t \in Specials \ raced PROVE after \subseteq seen
    <3>1. ~ Claims(s.req)
      BY <1>1, <2>9 DEF Apart
    <3>2. w.row.special /\ (w.row.active \/ t = "vault") => w.at # 0 /\ w.at \in seen
      BY <2>9, <3>1 DEF Knows, KnowsClaim
    <3>3. c \in after => w.row.special /\ (w.row.active \/ t = "vault")
      BY StoredSpecial
    <3>4. w.at # 0 => c = w.at
      BY DEF Stored
    <3>5. after \subseteq seen \cup {c}
      BY StoredSpecial
    <3> HIDE DEF after, seen, w
    <3> QED
      BY <3>2, <3>3, <3>4, <3>5
  <2>10. KnowsSpecial(z, next, raced)
    <3>1. CASE Claims(z.req) /\ t \in Specials \ raced
      <4>1. after \subseteq seen
        BY <2>9, <3>1
      <4>2. Doing(z, "flush") =>
              /\ z.req.kind = "create" /\ z.req.row.special => seen = {}
              /\ z.req.kind \in Changing /\ Sets(z.change, "special") /\ ~ z.copy.special =>
                   seen \subseteq {z.req.at}
        BY <1>1, <3>1 DEF Knows, KnowsSpecial
      <4> HIDE DEF seen, after
      <4>3. Doing(z, "flush") =>
              /\ z.req.kind = "create" /\ z.req.row.special => after = {}
              /\ z.req.kind \in Changing /\ Sets(z.change, "special") /\ ~ z.copy.special =>
                   after \subseteq {z.req.at}
        BY <4>1, <4>2
      <4> QED
        BY <1>1, <4>3 DEF KnowsSpecial, after
    <3>2. CASE t \notin Specials \ raced
      BY <1>1, <3>2 DEF KnowsSpecial
    <3>3. CASE ~ Claims(z.req)
      <4>1. ~ (z.req.kind = "create" /\ z.req.row.special)
        BY <3>3 DEF Claims
      <4>2. z.req.kind \in Changing /\ Doing(z, "flush") => z.change = Change(z.req)
        BY <1>1, <2>1, HeadIs DEF Doing
      <4>3. ~ (z.req.kind \in Changing /\ Doing(z, "flush") /\ Sets(z.change, "special"))
        BY <2>1, <3>3, <4>2, ChangeFacts
      <4> QED
        BY <4>1, <4>3 DEF KnowsSpecial
    <3> QED
      BY <3>1, <3>2, <3>3
  <2>11. KnowsClaim(z, next, raced)
    <3> SUFFICES ASSUME z.write # <<>>, t \in Specials \ raced, x.row.special, x.row.active \/ t = "vault"
                 PROVE  \/ x.at # 0 /\ x.at \in after
                        \/ /\ Claims(z.req)
                           /\ \/ after \subseteq {x.at}
                              \/ t = "branch" /\ x.at # 0 /\ x.row.active /\ ~ next[t][x.at].active
      BY <1>1 DEF KnowsClaim
    <3>1. \/ x.at # 0 /\ x.at \in seen
          \/ /\ Claims(z.req)
             /\ \/ seen \subseteq {x.at}
                \/ t = "branch" /\ x.at # 0 /\ x.row.active /\ ~ tables[t][x.at].active
      BY <1>1 DEF Knows, KnowsClaim
    <3>2. x.at # 0 => x.at # c /\ next[t][x.at] = tables[t][x.at]
      BY <2>6
    <3>3. seen \ {c} \subseteq after
      BY StoredSpecial
    <3>4. Claims(z.req) => after \subseteq seen
      BY <2>9
    <3> HIDE DEF seen, after, x, t
    <3> QED
      BY <3>1, <3>2, <3>3, <3>4
  <2> QED
    BY <2>4, <2>7, <2>8, <2>10, <2>11 DEF Knows
<1>2. CASE z.todo # <<>> => z.req.table # t
  <2>1. z.todo # <<>> => z.req.table \in Tables
    <3>1. z.todo # <<>> => z.req.kind # "none"
      BY HeadIs DEF Knows
    <3> QED
      BY <3>1, ServedFacts DEF SessionType, Tables
  <2> QED
    BY <1>2, <2>1, KnowsElsewhere DEF Stored
<1> QED
  BY <1>1, <1>2

\* Keys stay unique, and special rows.
LEMMA StoredUnique ==
  ASSUME UniqueKeys, NEW t \in Tables, NEW w, NEW c, Stored(rows, rows', t, w, c)
  PROVE  UniqueKeys'
<1> SUFFICES ASSUME NEW x \in Tables, NEW j \in DOMAIN rows'[x], NEW k \in DOMAIN rows'[x],
                    rows'[x][j].keys \cap rows'[x][k].keys # {}
             PROVE  j = k
  BY DEF UniqueKeys, Rows
<1>1. \A i, l \in DOMAIN rows[x] : rows[x][i].keys \cap rows[x][l].keys # {} => i = l
  BY DEF UniqueKeys, Rows
<1>2. \A i \in DOMAIN rows[x] : rows'[x][i].keys = rows[x][i].keys
  BY StoredKeys
<1>3. CASE j \in DOMAIN rows[x] /\ k \in DOMAIN rows[x]
  <2>1. rows'[x][j].keys = rows[x][j].keys /\ rows'[x][k].keys = rows[x][k].keys
    BY <1>2, <1>3
  <2> QED
    BY <1>1, <1>3, <2>1
<1>4. CASE ~ (j \in DOMAIN rows[x] /\ k \in DOMAIN rows[x])
  <2>1. x = t /\ w.at = 0
    BY <1>4 DEF Stored
  <2>2. /\ rows'[x][c].keys = w.row.keys
        /\ \A i \in DOMAIN rows[x] : rows[x][i].keys \cap w.row.keys = {}
        /\ j = c \/ j \in DOMAIN rows[x]
        /\ k = c \/ k \in DOMAIN rows[x]
    BY <2>1 DEF Stored, TakenIn
  <2>3. CASE j = c /\ k = c
    BY <2>3
  <2>4. CASE j = c /\ k # c
    <3>1. k \in DOMAIN rows[x] /\ rows'[x][k].keys = rows[x][k].keys
      BY <1>2, <2>2, <2>4
    <3>2. rows'[x][j].keys = w.row.keys
      BY <2>2, <2>4
    <3>3. rows[x][k].keys \cap w.row.keys = {}
      BY <2>2, <3>1
    <3> QED
      BY <3>1, <3>2, <3>3
  <2>5. CASE j # c /\ k = c
    <3>1. j \in DOMAIN rows[x] /\ rows'[x][j].keys = rows[x][j].keys
      BY <1>2, <2>2, <2>5
    <3>2. rows'[x][k].keys = w.row.keys
      BY <2>2, <2>5
    <3>3. rows[x][j].keys \cap w.row.keys = {}
      BY <2>2, <3>1
    <3> QED
      BY <3>1, <3>2, <3>3
  <2>6. CASE j # c /\ k # c
    BY <1>4, <2>2, <2>6
  <2> QED
    BY <2>3, <2>4, <2>5, <2>6
<1> QED
  BY <1>3, <1>4

\* A special row that nobody raced for has met no other, unless it was there
\* before or is a branch opened again.
LEMMA StoredSpecialUnique ==
  ASSUME RegistryInv, NEW p \in Sessions, session[p].todo # <<>>, session[p].write # <<>>,
         NEW c, Stored(rows, rows', session[p].req.table, session[p].write[1], c),
         contended' = contended,
         reopened' = IF session[p].req.table = "branch" /\ Reopens(session[p].write[1])
                     THEN reopened \cup {session[p].write[1].at} ELSE reopened
  PROVE  UncontendedSpecialIsUnique'
<1> DEFINE s == session[p]
           t == s.req.table
           w == s.write[1]
           seen == SpecialIn(rows[t], t)
           after == SpecialIn(rows'[t], t)
           out(x, shut) == IF x = "branch" THEN shut ELSE {}
<1> SUFFICES ASSUME NEW x \in Specials \ contended,
                    NEW j \in SpecialIn(rows'[x], x) \ out(x, reopened'),
                    NEW k \in SpecialIn(rows'[x], x) \ out(x, reopened')
             PROVE  j = k
  BY DEF UncontendedSpecialIsUnique, SpecialSeen, SpecialIn, Rows, Specials
<1>1. \A i, l \in SpecialIn(rows[x], x) \ out(x, reopened) : i = l
  BY DEF RegistryInv, UncontendedSpecialIsUnique, SpecialSeen, SpecialIn, Rows, Specials
<1>2. reopened \subseteq reopened'
  OBVIOUS
<1>3. CASE x # t
  <2>1. rows'[x] = rows[x]
    BY <1>3 DEF Stored, Specials, Tables
  <2> QED
    BY <1>1, <1>2, <2>1
<1>4. CASE x = t
  <2>1. Knows(s, rows, contended)
    BY DEF RegistryInv
  <2>2. /\ after \subseteq seen \cup {c}
        /\ c \in after => w.row.special /\ (w.row.active \/ t = "vault")
    BY StoredSpecial
  <2>3. w.at # 0 => c = w.at
    BY DEF Stored
  <2>4. w.row.special /\ (w.row.active \/ t = "vault") =>
          \/ w.at # 0 /\ w.at \in seen
          \/ seen \subseteq {w.at}
          \/ t = "branch" /\ w.at # 0 /\ w.row.active /\ ~ rows[t][w.at].active
    BY <1>4, <2>1 DEF Knows, KnowsClaim
  <2>5. 0 \notin seen
    BY MineIs DEF SpecialIn
  <2>6. CASE after \subseteq seen
    <3> HIDE DEF after, seen
    <3>1. j \in seen \ out(x, reopened) /\ k \in seen \ out(x, reopened)
      BY <1>2, <1>4, <2>6 DEF after
    <3> QED
      BY <1>1, <1>4, <3>1 DEF seen
  <2>7. CASE c \in after /\ c \notin seen
    <3>1. w.row.special /\ (w.row.active \/ t = "vault")
      BY <2>2, <2>7
    <3>2. CASE seen \subseteq {w.at}
      <4>1. w.at # 0 => seen = {}
        BY <2>3, <2>7, <3>2
      <4>2. w.at = 0 => seen = {}
        BY <2>5, <3>2
      <4>3. after \subseteq {c}
        BY <2>2, <4>1, <4>2
      <4> HIDE DEF after
      <4> QED
        BY <1>4, <4>3 DEF after
    <3>3. CASE t = "branch" /\ w.at # 0 /\ w.row.active /\ ~ rows[t][w.at].active
      <4>1. reopened' = reopened \cup {c}
        BY <2>3, <3>1, <3>3 DEF Reopens
      <4>2. j \in seen \ out(x, reopened) /\ k \in seen \ out(x, reopened)
        <5> HIDE DEF after, seen
        <5>1. j \in after /\ k \in after /\ j # c /\ k # c /\ j \notin reopened /\ k \notin reopened
          BY <1>4, <3>3, <4>1 DEF after
        <5> QED
          BY <2>2, <5>1
      <4> QED
        BY <1>1, <1>4, <4>2
    <3> QED
      BY <2>3, <2>4, <2>7, <3>1, <3>2, <3>3
  <2> QED
    BY <2>2, <2>6, <2>7
<1> QED
  BY <1>3, <1>4

\* Storing the write in hand keeps the invariant; Flush and Commit both do it.
LEMMA StoreStep ==
  ASSUME RegistryInv, NEW p \in Sessions, session[p].todo # <<>>, session[p].write # <<>>,
         NEW c, Stored(rows, rows', session[p].req.table, session[p].write[1], c),
         rows' \in [Tables -> Seq(Row)],
         contended' = contended,
         reopened' = IF session[p].req.table = "branch" /\ Reopens(session[p].write[1])
                     THEN reopened \cup {session[p].write[1].at} ELSE reopened,
         NEW u, SessionType(u), session' = [session EXCEPT ![p] = u], u.write = <<>>,
         u.todo # <<>> => u.req = session[p].req /\ u.alone = session[p].alone,
         Knows(u, rows', contended), ImportGoesThrough'
  PROVE  RegistryInv'
<1> DEFINE s == session[p]
           t == s.req.table
           w == s.write[1]
<1>1. /\ DOMAIN session' = Sessions /\ session'[p] = u
      /\ \A q \in Sessions \ {p} : session'[q] = session[q]
  BY DEF RegistryInv, Typed
<1>2. SessionType(s) /\ Knows(s, rows, contended) /\ t \in Tables /\ 0 \notin DOMAIN rows[t]
  BY MineIs
<1>3. Typed'
  <2>1. \A x \in Tables : DOMAIN rows[x] \subseteq DOMAIN rows'[x]
    <3> HIDE DEF w, t
    <3>1. Stored(rows, rows', t, w, c)
      BY DEF w, t
    <3> QED
      BY <1>2, <3>1, StoredKeys
  <2>2. reopened' \subseteq DOMAIN rows'["branch"]
    <3>1. DOMAIN rows["branch"] \subseteq DOMAIN rows'["branch"]
      BY <2>1 DEF Tables
    <3>2. reopened \subseteq DOMAIN rows["branch"]
      BY DEF RegistryInv, Typed, Rows
    <3>3. t = "branch" /\ Reopens(w) => w.at \in DOMAIN rows["branch"]
      BY DEF Reopens, Stored
    <3> HIDE DEF w, t
    <3> QED
      BY <3>1, <3>2, <3>3 DEF w, t
  <2>3. \A q \in Sessions : SessionType(session'[q])
    BY <1>1 DEF RegistryInv, Typed
  <2> QED
    BY <1>1, <2>2, <2>3 DEF RegistryInv, Typed, Rows
<1>4. UniqueKeys' /\ UncontendedSpecialIsUnique'
  BY <1>2, StoredUnique, StoredSpecialUnique DEF RegistryInv
<1>5. \A q \in Sessions : Knows(session'[q], rows', contended')
  <2>1. ASSUME NEW q \in Sessions \ {p} PROVE Knows(session[q], rows', contended)
    <3>1. /\ SessionType(session[q]) /\ Knows(session[q], rows, contended)
          /\ Apart(s, session[q], contended)
      BY DEF RegistryInv, Typed
    <3> QED
      BY <1>2, <3>1, KnowsBeside
  <2> QED
    BY <1>1, <2>1
<1>6. \A q, o \in Sessions : q # o => Apart(session'[q], session'[o], contended')
  <2>1. ASSUME NEW q \in Sessions \ {p} PROVE Apart(u, session[q], contended)
    <3>1. Apart(s, session[q], contended)
      BY DEF RegistryInv
    <3> QED
      BY <3>1 DEF Apart
  <2> SUFFICES ASSUME NEW q \in Sessions, NEW o \in Sessions, q # o
               PROVE  Apart(session'[q], session'[o], contended)
    OBVIOUS
  <2>2. CASE q # p /\ o # p
    BY <1>1, <2>2 DEF RegistryInv
  <2>3. CASE q = p
    BY <1>1, <2>1, <2>3
  <2>4. CASE o = p
    BY <1>1, <2>1, <2>4, ApartSymmetric
  <2> QED
    BY <2>2, <2>3, <2>4
<1> QED
  BY <1>3, <1>4, <1>5, <1>6 DEF RegistryInv

\* The row that p commits is stored.
LEMMA CommitStores ==
  ASSUME RegistryInv, NEW p \in Sessions, session[p].todo # <<>>, session[p].write # <<>>,
         LET t == session[p].req.table
             w == session[p].write[1]
         IN rows' = [rows EXCEPT ![t] = IF w.at = 0 THEN Append(@, w.row) ELSE [@ EXCEPT ![w.at] = w.row]]
  PROVE  /\ rows' \in [Tables -> Seq(Row)]
         /\ \E c : Stored(rows, rows', session[p].req.table, session[p].write[1], c)
<1> DEFINE s == session[p]
           t == s.req.table
           w == s.write[1]
           old == rows[t]
           new == IF w.at = 0 THEN Append(old, w.row) ELSE [old EXCEPT ![w.at] = w.row]
<1>1. /\ SessionType(s) /\ Knows(s, rows, contended) /\ t \in Tables /\ s.req \in Served
      /\ old \in Seq(Row) /\ DOMAIN old = 1..Len(old) /\ Len(old) \in Nat /\ 0 \notin DOMAIN old
      /\ s.req.kind \in Changing \cup FileKinds => Mine(s) \in DOMAIN old /\ old[Mine(s)] \in Row
      /\ s.req.kind \in {"create", "import"} \cup Changing \cup FileKinds
      /\ s.req.kind \in {"create", "import"} => Mine(s) = 0
  BY MineIs
<1>2. rows \in [Tables -> Seq(Row)]
  BY DEF RegistryInv, Typed
<1>3. rows' = [rows EXCEPT ![t] = new]
  OBVIOUS
<1>4. w.row \in Row /\ w.at = Mine(s)
  BY <1>1 DEF SessionType, Write, Knows, KnowsWrite
<1>5. /\ w.at = 0 => ~ TakenIn(old, w.row.keys)
      /\ w.at # 0 => w.row = Changed(old[w.at], s.copy, s.change)
  BY <1>1 DEF Knows, KnowsWrite
<1> DEFINE c == IF w.at = 0 THEN Len(old) + 1 ELSE w.at
<1>6. /\ new \in Seq(Row)
      /\ DOMAIN new = DOMAIN old \cup {c}
      /\ new[c] = w.row
      /\ \A k \in DOMAIN old \ {c} : new[k] = old[k]
      /\ c # 0
      /\ w.at = 0 => c \notin DOMAIN old
      /\ w.at # 0 => c = w.at /\ c \in DOMAIN old /\ w.row.keys = old[c].keys
  <2> HIDE DEF old, w, s
  <2>1. CASE w.at = 0
    <3>1. /\ Append(old, w.row) \in Seq(Row) /\ Len(Append(old, w.row)) = Len(old) + 1
          /\ \A k \in 1..Len(old) : Append(old, w.row)[k] = old[k]
          /\ Append(old, w.row)[Len(old) + 1] = w.row
      BY <1>1, <1>4, AppendProperties
    <3>2. new = Append(old, w.row) /\ c = Len(old) + 1
      BY <2>1
    <3>3. DOMAIN new = 1..Len(old) + 1
      BY <1>1, <3>1, <3>2
    <3> HIDE DEF new, c
    <3> QED
      BY <1>1, <2>1, <3>1, <3>2, <3>3
  <2>2. CASE w.at # 0
    <3>1. w.at \in DOMAIN old
      BY <1>1, <1>4, <2>2
    <3>2. new = [old EXCEPT ![w.at] = w.row] /\ c = w.at
      BY <2>2
    <3>3. new \in Seq(Row) /\ DOMAIN new = DOMAIN old
      <4>1. /\ [old EXCEPT ![w.at] = w.row] \in Seq(Row)
            /\ Len([old EXCEPT ![w.at] = w.row]) = Len(old)
        BY <1>1, <1>4, <3>1, ExceptSeq
      <4>2. new \in Seq(Row) /\ Len(new) = Len(old)
        BY <3>2, <4>1
      <4> HIDE DEF new
      <4> QED
        BY <1>1, <4>2
    <3>4. w.row.keys = old[w.at].keys
      BY <1>5, <2>2 DEF Changed
    <3> HIDE DEF new, c
    <3> QED
      BY <1>1, <2>2, <3>1, <3>2, <3>3, <3>4
  <2> QED
    BY <2>1, <2>2
<1> HIDE DEF new, c
<1>7. /\ rows' \in [Tables -> Seq(Row)]
      /\ rows'[t] = new
      /\ \A x \in Tables \ {t} : rows'[x] = rows[x]
  BY <1>1, <1>2, <1>3, <1>6
<1>8. Stored(rows, rows', t, w, c)
  <2> HIDE DEF w, s
  <2> QED
    BY <1>5, <1>6, <1>7 DEF Stored
<1> QED
  BY <1>7, <1>8

\* Commit keeps the invariant.
LEMMA CommitSafe ==
  ASSUME RegistryInv, NEW p \in Sessions, Commit(p)
  PROVE  RegistryInv'
<1> DEFINE s == session[p]
           r == s.req
           t == r.table
           o == Head(s.todo)
           w == s.write[1]
           v == [s EXCEPT !.write = <<>>, !.number = {}]
<1>1. s.todo # <<>> /\ o.op = "commit" /\ Doing(s, "commit") /\ Table(p) = t
  BY AtIs DEF Commit, Doing
<1>2. /\ SessionType(s) /\ Knows(s, rows, contended) /\ OnCourse(s, rows) /\ r \in Served
      /\ r.kind \in {"create", "import"} \cup Changing \cup FileKinds
  BY <1>1, MineIs
<1>3. /\ DOMAIN v = Fields /\ v.req = r /\ v.alone = s.alone /\ v.failed = s.failed
      /\ v.copy = s.copy /\ v.change = s.change /\ v.write = <<>> /\ v.number = {}
  BY <1>2 DEF SessionType, Fields
<1>4. Goto(p, v, Rest(p)) /\ contended' = contended
  BY DEF Commit
<1> HIDE DEF v
<1>5. SessionType(v)
  BY <1>2, <1>3 DEF SessionType
<1>6. Rest(p) = Tail(s.todo)
  BY DEF Rest
<1>7. Rest(p) = <<>> => session' = [session EXCEPT ![p] = Idle] /\ Ended(p, v, FALSE)
  BY <1>4, <1>5, GotoFacts
<1>8. ASSUME Rest(p) # <<>>
      PROVE  /\ r.kind = "import"
             /\ \E u : /\ Follows(u, v, Rest(p)) /\ session' = [session EXCEPT ![p] = u] /\ UNCHANGED imports
                       /\ OnCourse(u, rows) /\ Head(u.todo).op = "keys" /\ Head(u.todo).n = o.n + 1
  <2>1. PICK u : Follows(u, v, Rest(p)) /\ session' = [session EXCEPT ![p] = u] /\ UNCHANGED imports
    BY <1>4, <1>5, <1>8, GotoFacts
  <2>2. u.todo = Tail(s.todo) /\ u.todo # <<>> /\ u.req = r /\ u.copy = s.copy /\ u.change = s.change
    BY <1>3, <1>6, <1>8, <2>1 DEF Follows
  <2>3. o = Head(s.todo) /\ o.op = "commit" /\ r = s.req
    BY <1>1
  <2> HIDE DEF s, o, r
  <2>4. Head(s.todo).op \notin {"load", "read", "save"}
    BY <2>3
  <2>5. /\ OnCourse(u, rows)
        /\ r.kind # "create" /\ r.kind \notin Changing
        /\ r.kind = "import" => Head(u.todo).op = "keys" /\ Head(u.todo).n = o.n + 1
    <3>1. LET a == Head(s.todo)
              next == Head(u.todo)
          IN /\ OnCourse(u, rows)
             /\ a.op = "flush" => next.op = "commit"
             /\ next.op \notin {"load", "read", "save"}
             /\ s.req.kind = "create" =>
                  /\ next.op = "flush" =>
                       IF s.req.table = "customer" THEN a.op = "number"
                       ELSE s.req.row.special => a.op = "special"
                  /\ next.row = a.row
                  /\ a.op # "commit"
             /\ s.req.kind = "import" =>
                  /\ a.op = "keys" => next.op = "number"
                  /\ a.op = "number" => next.op = "flush"
                  /\ a.op = "commit" => next.op = "keys" /\ next.n = a.n + 1
                  /\ a.op # "commit" => next.n = a.n /\ next.row = a.row
             /\ s.req.kind \in Changing => a.op # "commit" /\ (next.op = "flush" => a.op = "special")
      <4>1. /\ SessionType(s) /\ OnCourse(s, rows) /\ s.todo # <<>>
            /\ u.todo = Tail(s.todo) /\ u.todo # <<>>
            /\ u.req = s.req /\ u.copy = s.copy /\ u.change = s.change
        BY <1>1, <1>2, <2>2, <2>3
      <4> QED
        BY <2>4, <4>1, Onward
    <3> QED
      BY <2>3, <3>1
  <2>6. r.kind \notin FileKinds
    BY <1>1, <1>2, <2>3, HeadIs
  <2>7. r.kind = "import"
    BY <1>2, <2>5, <2>6
  <2> QED
    BY <2>1, <2>5, <2>7 DEF s
<1>9. CASE s.write = <<>>
  <2>1. UNCHANGED <<rows, contended, reopened>>
    BY <1>9 DEF Commit
  <2>2. r.kind # "import"
    BY <1>1, <1>2, <1>9 DEF Knows, KnowsImport
  <2>3. Rest(p) = <<>>
    BY <1>8, <2>2
  <2> QED
    BY <1>3, <1>7, <2>1, <2>2, <2>3, LeaveStep
<1>10. CASE s.write # <<>>
  <2>1. /\ rows' = [rows EXCEPT ![t] = IF w.at = 0 THEN Append(@, w.row) ELSE [@ EXCEPT ![w.at] = w.row]]
        /\ reopened' = IF t = "branch" /\ Reopens(w) THEN reopened \cup {w.at} ELSE reopened
    BY <1>1, <1>10 DEF Commit
  <2>2. rows' \in [Tables -> Seq(Row)]
    BY <1>1, <1>10, <2>1, CommitStores
  <2>3. PICK c : Stored(rows, rows', t, w, c)
    BY <1>1, <1>10, <2>1, CommitStores
  <2>4. t \in Tables
    BY <1>1, MineIs
  <2>5. /\ \A x \in Tables : DOMAIN rows[x] \subseteq DOMAIN rows'[x]
        /\ \A x \in Tables : \A keys : Listed(rows[x], keys) => Listed(rows'[x], keys)
    <3> HIDE DEF w, t
    <3> QED
      BY <2>3, <2>4, StoredKeys
  <2>6. r.kind = "import" => \A n \in DOMAIN r.list : n <= o.n => n \in s.failed \/ Listed(rows'["customer"], r.list[n])
    <3> SUFFICES ASSUME r.kind = "import", NEW n \in DOMAIN r.list, n <= o.n
                 PROVE  n \in s.failed \/ Listed(rows'["customer"], r.list[n])
      OBVIOUS
    <3>1. t = "customer" /\ "customer" \in Tables /\ r.list \in Imports
      BY <1>2, ServedFacts DEF Tables
    <3>2. n \in Nat /\ o.n \in Nat
      <4>1. o.n \in DOMAIN r.list
        BY <1>1, <1>2, HeadIs
      <4>2. r.list \in Seq(IdSets)
        BY <3>1, RegistryAssumption
      <4> QED
        BY <4>1, <4>2
    <3>3. CASE n < o.n
      <4>1. n \in s.failed \/ Listed(rows["customer"], r.list[n])
        BY <1>2, <3>3 DEF Knows, KnowsImport
      <4> QED
        BY <2>5, <3>1, <4>1
    <3>4. CASE n = o.n
      <4>1. o.row.keys \subseteq w.row.keys
        BY <1>1, <1>2 DEF Knows, KnowsImport
      <4>2. o.row.keys = r.list[n]
        <5>1. o.row = [keys |-> r.list[o.n], special |-> FALSE, active |-> TRUE]
          BY <1>1, <1>2, HeadIs
        <5> HIDE DEF o, r
        <5> QED
          BY <3>4, <5>1
      <4>3. rows'["customer"][c] = w.row /\ c \in DOMAIN rows'["customer"]
        BY <2>3, <3>1 DEF Stored
      <4> QED
        BY <4>1, <4>2, <4>3 DEF Listed
    <3> QED
      BY <3>2, <3>3, <3>4
  <2>7. CASE Rest(p) = <<>>
    <3>1. session' = [session EXCEPT ![p] = Idle] /\ Ended(p, v, FALSE)
      BY <1>7, <2>7
    <3>2. r.kind = "import" => \A n \in DOMAIN r.list : n \in s.failed \/ Listed(rows'["customer"], r.list[n])
      <4> SUFFICES ASSUME r.kind = "import", NEW n \in DOMAIN r.list
                   PROVE  n \in s.failed \/ Listed(rows'["customer"], r.list[n])
        OBVIOUS
      <4>1. DOMAIN r.list = 1..o.n /\ o.n \in Nat
        BY <1>1, <1>2, <1>6, <2>7, AtTheEnd
      <4>2. n <= o.n
        BY <4>1
      <4> QED
        BY <2>6, <4>2
    <3>3. ImportGoesThrough'
      <4>1. \A keys : Listed(rows["customer"], keys) => Listed(rows'["customer"], keys)
        BY <2>5 DEF Tables
      <4> QED
        BY <1>3, <3>1, <3>2, <4>1, ImportsGrow DEF RegistryInv
    <3> QED
      BY <1>1, <1>4, <1>10, <2>1, <2>2, <2>3, <3>1, <3>3, IdleFacts, IdleKnows, StoreStep
  <2>8. CASE Rest(p) # <<>>
    <3>1. r.kind = "import"
      BY <1>8, <2>8
    <3>2. PICK u : /\ Follows(u, v, Rest(p)) /\ session' = [session EXCEPT ![p] = u] /\ UNCHANGED imports
                   /\ OnCourse(u, rows) /\ Head(u.todo).op = "keys" /\ Head(u.todo).n = o.n + 1
      BY <1>8, <2>8
    <3>3. /\ SessionType(u) /\ u.req = r /\ u.alone = s.alone /\ u.failed = s.failed
          /\ u.write = <<>> /\ u.number = {}
      BY <1>3, <3>2 DEF Follows
    <3>4. t = "customer" /\ "customer" \in Tables /\ r.list \in Seq(IdSets) /\ o.n \in DOMAIN r.list
      BY <1>1, <1>2, <3>1, HeadIs, ServedFacts, RegistryAssumption DEF Tables
    <3>5. OnCourse(u, rows')
      BY <3>1, <3>2, <3>3 DEF OnCourse, Changing, FileKinds
    <3>6. KnowsWrite(u, rows') /\ KnowsClaim(u, rows', contended)
      BY <3>3 DEF KnowsWrite, KnowsClaim
    <3>7. KnowsNumber(u) /\ KnowsSpecial(u, rows', contended)
      BY <3>2, <3>3 DEF KnowsNumber, KnowsSpecial, Doing
    <3>8. KnowsImport(u, rows')
      <4>1. \A n \in DOMAIN r.list : n < o.n + 1 => n <= o.n
        BY <3>4
      <4>2. \A n \in DOMAIN r.list : n < o.n + 1 => n \in u.failed \/ Listed(rows'["customer"], r.list[n])
        BY <2>6, <3>1, <3>3, <4>1
      <4> QED
        BY <3>2, <3>3, <4>2 DEF KnowsImport
    <3>9. Knows(u, rows', contended)
      BY <3>5, <3>6, <3>7, <3>8 DEF Knows
    <3>10. ImportGoesThrough'
      <4>1. \A keys : Listed(rows["customer"], keys) => Listed(rows'["customer"], keys)
        BY <2>5 DEF Tables
      <4> QED
        BY <3>2, <4>1 DEF RegistryInv, ImportGoesThrough, Listed, Rows
    <3> QED
      BY <1>1, <1>4, <1>10, <2>1, <2>2, <2>3, <3>2, <3>3, <3>9, <3>10, StoreStep
  <2> QED
    BY <2>7, <2>8
<1> QED
  BY <1>9, <1>10

-----------------------------------------------------------------------------
(* A request begins.                                                        *)

\* Reading is the plan of a read and a save.
LEMMA ReadingIs == Each(<<"read", "save">>, NoRow, 1) = Reading
<1> DEFINE ops == <<"read", "save">>
           a == Do("read", NoRow, 1)
           b == Do("save", NoRow, 1)
           t == Each(ops, NoRow, 1)
<1>1. DOMAIN ops = 1..2 /\ ops[1] = "read" /\ ops[2] = "save"
  OBVIOUS
<1>2. t = [k \in 1..2 |-> Do(ops[k], NoRow, 1)]
  BY <1>1 DEF Each
<1> HIDE DEF ops, t
<1>3. t[1] = a /\ t[2] = b
  BY <1>1, <1>2
<1> HIDE DEF a, b
<1>4. \A k \in 1..2 : k = 1 \/ k = 2
  OBVIOUS
<1>5. t \in Seq({a, b}) /\ Len(t) = 2
  <2>1. \A k \in 1..2 : Do(ops[k], NoRow, 1) \in {a, b}
    BY <1>2, <1>3, <1>4
  <2> QED
    BY <1>2, <2>1
<1>6. Reading = <<a, b>>
  BY DEF Reading, a, b
<1>7. <<a, b>> \in Seq({a, b}) /\ Len(<<a, b>>) = 2 /\ <<a, b>>[1] = a /\ <<a, b>>[2] = b
  OBVIOUS
<1> DEFINE u == <<a, b>>
<1> HIDE DEF u
<1>8. u \in Seq({a, b}) /\ Len(u) = 2 /\ u[1] = a /\ u[2] = b
  BY <1>7 DEF u
<1>9. t = u
  <2>1. \A k \in 1..2 : t[k] = u[k]
    BY <1>3, <1>4, <1>8
  <2> QED
    BY <1>5, <1>8, <2>1, SeqEqual
<1> QED
  BY <1>6, <1>9 DEF t, ops, u

\* A creation's plan is one of the lists of operations LeftToCreate names.
LEMMA CreationFacts ==
  ASSUME NEW r \in Served, r.kind = "create"
  PROVE  \E ops \in LeftToCreate(r) :
           /\ Creation(r) = Each(ops, r.row, 1)
           /\ Head(ops) = "flush" => r.table = "vault" /\ ~ r.row.special
<1>1. r.table \in Tables /\ (r.table = "customer" => ~ r.row.special) /\ r.row.special \in BOOLEAN
  BY ServedFacts
<1> DEFINE A(ops) == ops \in LeftToCreate(r) /\ Creation(r) = Each(ops, r.row, 1)
<1>2. CASE r.table = "customer"
  <2>1. A(<<"keys", "number", "flush", "commit">>)
    BY <1>2 DEF Creation, LeftToCreate
  <2>2. Head(<<"keys", "number", "flush", "commit">>) = "keys"
    OBVIOUS
  <2> QED
    BY <2>1, <2>2
<1>3. CASE r.table = "vault" /\ ~ r.row.special
  <2>1. A(<<"flush", "commit">>)
    BY <1>3 DEF Creation, LeftToCreate
  <2> QED
    BY <1>3, <2>1
<1>4. CASE r.table = "vault" /\ r.row.special
  <2>1. A(<<"special", "flush", "commit">>)
    BY <1>4 DEF Creation, LeftToCreate
  <2>2. Head(<<"special", "flush", "commit">>) = "special"
    OBVIOUS
  <2> QED
    BY <2>1, <2>2
<1>5. CASE r.table = "branch" /\ r.row.special
  <2>1. A(<<"keys", "special", "flush", "commit">>)
    BY <1>5 DEF Creation, LeftToCreate
  <2>2. Head(<<"keys", "special", "flush", "commit">>) = "keys"
    OBVIOUS
  <2> QED
    BY <2>1, <2>2
<1>6. CASE r.table = "currency" /\ r.row.special
  <2>1. A(<<"special", "keys", "special", "flush", "commit">>)
    BY <1>6 DEF Creation, LeftToCreate
  <2>2. Head(<<"special", "keys", "special", "flush", "commit">>) = "special"
    OBVIOUS
  <2> QED
    BY <2>1, <2>2
<1>7. CASE r.table \in {"branch", "currency"} /\ ~ r.row.special
  <2>1. A(<<"keys", "flush", "commit">>)
    BY <1>7 DEF Creation, LeftToCreate
  <2>2. Head(<<"keys", "flush", "commit">>) = "keys"
    OBVIOUS
  <2> QED
    BY <2>1, <2>2
<1> QED
  BY <1>1, <1>2, <1>3, <1>4, <1>5, <1>6, <1>7 DEF Tables

\* A session that has just begun a request has the right type and knows nothing false.
LEMMA BegunFacts ==
  ASSUME NEW r \in Served, r.kind # "none", NEW tables, NEW raced, NEW alone \in BOOLEAN,
         r.kind \in Changing \cup FileKinds => r.at \in DOMAIN tables[r.table]
  PROVE  LET s == [Begun(r) EXCEPT !.alone = alone]
         IN /\ SessionType(s) /\ s.req = r /\ s.write = <<>> /\ s.alone = alone
            /\ Knows(s, tables, raced)
<1> DEFINE s == [Begun(r) EXCEPT !.alone = alone]
<1>1. /\ DOMAIN s = Fields /\ s.req = r /\ s.todo = Program(r) /\ s.number = {}
      /\ s.write = <<>> /\ s.failed = {} /\ s.alone = alone
  BY DEF Begun, Fields
<1> HIDE DEF s
<1>2. SessionType(s)
  BY <1>1 DEF SessionType
<1>3. KnowsWrite(s, tables) /\ KnowsClaim(s, tables, raced)
  BY <1>1 DEF KnowsWrite, KnowsClaim
<1>4. r.kind \in {"create", "import"} \cup Changing \cup FileKinds
  BY ServedFacts
<1>5. CASE r.kind = "create"
  <2>1. Program(r) = Creation(r)
    BY <1>5 DEF Program
  <2>2. PICK ops \in LeftToCreate(r) : /\ Creation(r) = Each(ops, r.row, 1)
                                       /\ Head(ops) = "flush" => r.table = "vault" /\ ~ r.row.special
    BY <1>5, CreationFacts
  <2>3. ops \in Seq(Steps) /\ ops # <<>>
    BY <1>5, CreateFacts
  <2>4. Head(s.todo).op = Head(ops)
    <3>1. Head(Each(ops, r.row, 1)) = Do(Head(ops), r.row, 1)
      BY <2>3, EachFacts
    <3> QED
      BY <1>1, <2>1, <2>2, <3>1 DEF Do
  <2>5. OnCourse(s, tables)
    BY <1>1, <1>5, <2>1, <2>2 DEF OnCourse, Changing, FileKinds
  <2>6. KnowsNumber(s) /\ KnowsImport(s, tables) /\ KnowsSpecial(s, tables, raced)
    BY <1>1, <1>5, <2>2, <2>4 DEF KnowsNumber, KnowsImport, KnowsSpecial, Doing, Changing
  <2> QED
    BY <1>1, <1>2, <1>3, <2>5, <2>6 DEF Knows, s
<1>6. CASE r.kind = "import"
  <2>1. Program(r) = ImportAfter(r.list, 0)
    BY <1>6 DEF Program
  <2>2. r.list \in Imports
    BY <1>6, ServedFacts
  <2>3. r.list \in Seq(IdSets) /\ r.list # <<>>
    BY <2>2, RegistryAssumption
  <2>4. Len(r.list) \in Nat \ {0} /\ DOMAIN r.list = 1..Len(r.list)
    BY <2>3, EmptySeq
  <2>5. 0 \in 0..4 * Len(r.list) - 1
    BY <2>4
  <2>6. 0 % 4 = 0 /\ 0 \div 4 = 0
    OBVIOUS
  <2>7. Head(s.todo).op = "keys" /\ Head(s.todo).n = 1
    <3>1. PICK m \in 0..4 * Len(r.list) - 1 : m = 0
      BY <2>5
    <3>2. /\ Head(ImportAfter(r.list, m)).op = "keys" <=> m % 4 = 0
          /\ Head(ImportAfter(r.list, m)).n = (m \div 4) + 1
      BY <2>2, EntryFacts
    <3>3. m % 4 = 0 /\ (m \div 4) + 1 = 1
      BY <2>6, <3>1
    <3>4. s.todo = ImportAfter(r.list, m)
      BY <1>1, <2>1, <3>1
    <3> QED
      BY <3>2, <3>3, <3>4
  <2>8. OnCourse(s, tables)
    BY <1>1, <1>6, <2>1, <2>5 DEF OnCourse, Changing, FileKinds
  <2>9. KnowsNumber(s) /\ KnowsSpecial(s, tables, raced)
    BY <1>1, <2>7 DEF KnowsNumber, KnowsSpecial, Doing
  <2>10. KnowsImport(s, tables)
    <3>1. \A n \in DOMAIN r.list : ~ (n < 1)
      BY <2>4
    <3> QED
      BY <1>1, <2>7, <3>1 DEF KnowsImport
  <2> QED
    BY <1>1, <1>2, <1>3, <2>8, <2>9, <2>10 DEF Knows, s
<1>7. CASE r.kind \in Changing
  <2>1. Program(r) = Loading
    BY <1>7 DEF Program, Changing, Loading
  <2>2. OnCourse(s, tables)
    BY <1>1, <1>7, <2>1 DEF OnCourse, Changing, FileKinds
  <2>3. ~ Doing(s, "flush")
    BY <1>1, <2>1, ShortPlans DEF Doing
  <2>4. KnowsNumber(s) /\ KnowsImport(s, tables) /\ KnowsSpecial(s, tables, raced)
    BY <1>1, <1>7, <2>3 DEF KnowsNumber, KnowsImport, KnowsSpecial, Changing
  <2> QED
    BY <1>1, <1>2, <1>3, <2>2, <2>4 DEF Knows, s
<1>8. CASE r.kind \in FileKinds
  <2>1. Program(r) = Reading
    <3>1. Program(r) = Each(<<"read", "save">>, NoRow, 1)
      BY <1>8 DEF Program, FileKinds
    <3> QED
      BY <3>1, ReadingIs
  <2>2. r.table = "customer"
    BY <1>8, ServedFacts
  <2>3. OnCourse(s, tables)
    BY <1>1, <1>8, <2>1, <2>2 DEF OnCourse, Changing, FileKinds
  <2>4. ~ Doing(s, "flush")
    BY <1>1, <2>1, ShortPlans DEF Doing
  <2>5. KnowsNumber(s) /\ KnowsImport(s, tables) /\ KnowsSpecial(s, tables, raced)
    BY <1>1, <1>8, <2>4 DEF KnowsNumber, KnowsImport, KnowsSpecial, FileKinds
  <2> QED
    BY <1>1, <1>2, <1>3, <2>3, <2>5 DEF Knows, s
<1> QED
  BY <1>4, <1>5, <1>6, <1>7, <1>8

\* A session that is told it is not alone, when more tables may be contended.
Warned(y, z) ==
  /\ SessionType(y)
  /\ y.req = z.req /\ y.todo = z.todo /\ y.copy = z.copy /\ y.change = z.change
  /\ y.number = z.number /\ y.write = z.write /\ y.failed = z.failed
  /\ y.alone => z.alone

\* Marking a session as not alone leaves what it knows true.
LEMMA WarnedKnows ==
  ASSUME NEW y, NEW z, Warned(y, z), NEW tables, NEW raced, NEW after, raced \subseteq after,
         Knows(z, tables, raced)
  PROVE  Knows(y, tables, after)
<1>1. OnCourse(y, tables)
  BY DEF Warned, Knows, OnCourse
<1>2. KnowsWrite(y, tables)
  BY DEF Warned, Knows, KnowsWrite, Mine, Doing
<1>3. KnowsNumber(y)
  BY DEF Warned, Knows, KnowsNumber, Mine, Doing
<1>4. KnowsImport(y, tables)
  BY DEF Warned, Knows, KnowsImport
<1>5. KnowsSpecial(y, tables, after)
  BY DEF Warned, Knows, KnowsSpecial, Doing
<1>6. KnowsClaim(y, tables, after)
  BY DEF Warned, Knows, KnowsClaim
<1> QED
  BY <1>1, <1>2, <1>3, <1>4, <1>5, <1>6 DEF Knows

\* Marking sessions as not alone leaves any two of them apart.
LEMMA WarnedApart ==
  ASSUME NEW y, NEW z, Warned(y, z), NEW u, NEW v, Warned(u, v), NEW raced, NEW after,
         raced \subseteq after, Apart(z, v, raced)
  PROVE  Apart(y, u, after)
BY DEF Warned, Apart

\* Begin keeps the invariant.
LEMMA BeginSafe ==
  ASSUME RegistryInv, NEW p \in Sessions, NEW r \in Served, r.kind # "none",
         r.kind \in Changing \cup FileKinds => r.at \in DOMAIN rows[r.table],
         Begin(p, r)
  PROVE  RegistryInv'
<1> DEFINE near == {q \in Sessions : Busy(q) /\ Overlaps(r, q)}
           alone == near = {}
           u == [Begun(r) EXCEPT !.alone = alone]
<1>1. /\ session[p].todo = <<>> /\ p \notin near
      /\ session' = [q \in Sessions |->
                       IF q = p THEN u
                       ELSE IF q \in near THEN [session[q] EXCEPT !.alone = FALSE]
                       ELSE session[q]]
      /\ contended' = IF Claims(r) /\ \E q \in near : Claims(session[q].req)
                      THEN contended \cup {r.table} ELSE contended
      /\ rows' = rows /\ reopened' = reopened /\ imports' = imports
  BY DEF Begin, Busy
<1>2. SessionType(u) /\ u.req = r /\ u.write = <<>> /\ u.alone = alone /\ Knows(u, rows, contended')
  <2> HIDE DEF near
  <2>1. alone \in BOOLEAN
    OBVIOUS
  <2> QED
    BY <2>1, BegunFacts
<1>3. \A q \in near : q \in Sessions /\ session[q].todo # <<>> /\ Overlaps(r, q)
  BY DEF Busy
<1>4. \A q \in Sessions : session[q].todo # <<>> /\ Overlaps(r, q) => q \in near
  BY DEF Busy
<1> HIDE DEF near, u
<1>5. r.table \in Tables
  BY ServedFacts DEF Tables, Specials
<1>6. contended \subseteq contended' /\ contended' \subseteq Tables
  BY <1>1, <1>5 DEF RegistryInv, Typed
<1>7. ASSUME NEW q \in Sessions \ {p}
      PROVE  Warned(session'[q], session[q]) /\ (q \in near => ~ session'[q].alone)
  <2> DEFINE z == session[q]
             y == [z EXCEPT !.alone = FALSE]
  <2>1. SessionType(z)
    BY DEF RegistryInv, Typed
  <2>2. CASE q \in near
    <3>1. session'[q] = y
      BY <1>1, <2>2
    <3>2. /\ DOMAIN y = Fields /\ y.alone = FALSE
          /\ y.req = z.req /\ y.todo = z.todo /\ y.copy = z.copy /\ y.change = z.change
          /\ y.number = z.number /\ y.write = z.write /\ y.failed = z.failed
      BY <2>1 DEF SessionType, Fields
    <3> HIDE DEF y, z
    <3>3. SessionType(y)
      BY <2>1, <3>2 DEF SessionType
    <3>4. Warned(y, z)
      BY <3>2, <3>3 DEF Warned
    <3> QED
      BY <3>1, <3>2, <3>4 DEF z
  <2>3. CASE q \notin near
    <3>1. session'[q] = z
      BY <1>1, <2>3
    <3>2. Warned(z, z)
      BY <2>1 DEF Warned
    <3> QED
      BY <2>3, <3>1, <3>2
  <2> QED
    BY <2>2, <2>3
<1>8. DOMAIN session' = Sessions /\ session'[p] = u
  BY <1>1
<1>9. Typed'
  <2>1. \A q \in Sessions : SessionType(session'[q])
    BY <1>2, <1>7, <1>8 DEF Warned
  <2> QED
    BY <1>1, <1>6, <1>8, <2>1 DEF RegistryInv, Typed, Rows
<1>10. UniqueKeys' /\ ImportGoesThrough'
  BY <1>1 DEF RegistryInv, UniqueKeys, ImportGoesThrough, Rows
<1>11. UncontendedSpecialIsUnique'
  BY <1>1, <1>6 DEF RegistryInv, UncontendedSpecialIsUnique, SpecialSeen, Rows
<1>12. \A q \in Sessions : Knows(session'[q], rows', contended')
  <2>1. ASSUME NEW q \in Sessions \ {p} PROVE Knows(session'[q], rows, contended')
    BY <1>6, <1>7, WarnedKnows DEF RegistryInv
  <2> QED
    BY <1>1, <1>2, <1>8, <2>1
<1>13. ASSUME NEW q \in Sessions \ {p} PROVE Apart(u, session'[q], contended')
  <2> DEFINE z == session[q]
             y == session'[q]
  <2>1. /\ y.req = z.req /\ y.todo = z.todo /\ SessionType(z)
        /\ q \in near => ~ y.alone
    BY <1>7 DEF Warned, RegistryInv, Typed
  <2>2. ASSUME y.todo # <<>>, y.req.table = r.table
        PROVE  /\ Claims(r) /\ Claims(y.req) => r.table \in contended'
               /\ Registers(r) /\ Registers(y.req) => ~ alone /\ ~ y.alone
    <3>1. Registers(r) = Registers(y.req) => q \in near
      BY <1>4, <2>1, <2>2 DEF Overlaps
    <3>2. Claims(r) /\ Claims(y.req) => ~ Registers(r) /\ ~ Registers(y.req)
      BY <2>1, ClaimFacts DEF SessionType
    <3>3. Registers(r) \in BOOLEAN /\ Registers(y.req) \in BOOLEAN
      BY DEF Registers
    <3>4. Claims(r) /\ Claims(y.req) => q \in near
      BY <3>1, <3>2, <3>3
    <3>5. Claims(r) /\ Claims(y.req) => r.table \in contended'
      BY <1>1, <2>1, <3>4
    <3>6. Registers(r) /\ Registers(y.req) => q \in near
      BY <3>1, <3>3
    <3> QED
      BY <2>1, <3>5, <3>6
  <2> HIDE DEF alone, y
  <2> QED
    BY <1>2, <2>2 DEF Apart, y
<1>14. \A q, o \in Sessions : q # o => Apart(session'[q], session'[o], contended')
  <2> SUFFICES ASSUME NEW q \in Sessions, NEW o \in Sessions, q # o
               PROVE  Apart(session'[q], session'[o], contended')
    OBVIOUS
  <2>1. CASE q # p /\ o # p
    <3>1. Apart(session[q], session[o], contended)
      BY DEF RegistryInv
    <3> QED
      BY <1>6, <1>7, <2>1, <3>1, WarnedApart
  <2>2. CASE q = p
    BY <1>8, <1>13, <2>2
  <2>3. CASE o = p
    BY <1>8, <1>13, <2>3, ApartSymmetric
  <2> QED
    BY <2>1, <2>2, <2>3
<1> QED
  BY <1>9, <1>10, <1>11, <1>12, <1>14 DEF RegistryInv

-----------------------------------------------------------------------------
(* Every step keeps the invariant.                                          *)

\* The rows of a table are numbered.
LEMMA RowsAreNumbered ==
  ASSUME RegistryInv, NEW t \in Tables
  PROVE  DOMAIN rows[t] \subseteq Nat
<1>1. rows[t] \in Seq(Row)
  BY DEF RegistryInv, Typed
<1> QED
  BY <1>1

\* Every request that may be made is one a session can serve.
LEMMA RequestFacts ==
  ASSUME RegistryInv, NEW r \in Requests
  PROVE  /\ r \in Served /\ r.kind # "none"
         /\ r.kind \in Changing \cup FileKinds => r.at \in DOMAIN rows[r.table]
<1>1. CASE r \in Creates
  <2>1. r.kind = "create"
    BY <1>1 DEF Creates
  <2> QED
    BY <1>1, <2>1 DEF Served, Changing, FileKinds
<1>2. CASE r \in Updates
  <2>1. PICK t \in Specials : r \in [kind : {"update"}, table : {t}, at : Rows(t), change : Changes]
    BY <1>2 DEF Updates, Specials
  <2>2. r.table = "vault" => "special" \notin DOMAIN r.change
    BY <1>2 DEF Updates
  <2> QED
    <3>1. DOMAIN rows[t] \subseteq Nat
      BY RowsAreNumbered DEF Specials, Tables
    <3>2. r \in [kind : {"update"}, table : Specials, at : Nat, change : Changes]
      BY <2>1, <3>1 DEF Rows
    <3> QED
      BY <2>1, <2>2, <3>2 DEF Served, Rows
<1>3. CASE r \in Switches
  <2>1. /\ DOMAIN rows["currency"] \subseteq Nat /\ DOMAIN rows["branch"] \subseteq Nat
        /\ DOMAIN rows["customer"] \subseteq Nat
    BY RowsAreNumbered DEF Tables
  <2> QED
    BY <1>3, <2>1 DEF Switches, Served, Rows
<1>4. CASE r \in [kind : {"import"}, table : {"customer"}, list : Imports, known : BOOLEAN]
  BY <1>4 DEF Served, Changing, FileKinds
<1> QED
  BY <1>1, <1>2, <1>3, <1>4 DEF Requests

\* Every request on a customer's files is one a session can serve.
LEMMA FileRequestFacts ==
  ASSUME RegistryInv, NEW r \in FileRequests
  PROVE  /\ r \in Served /\ r.kind # "none"
         /\ r.kind \in Changing \cup FileKinds => r.at \in DOMAIN rows[r.table]
<1>1. DOMAIN rows["customer"] \subseteq Nat
  BY RowsAreNumbered DEF Tables
<1> QED
  BY <1>1 DEF FileRequests, Served, Rows, Changing, FileKinds

\* Every step keeps the invariant.
LEMMA NextKeepsInv ==
  ASSUME RegistryInv, [FilesNext]_<<vars, fileVars>>
  PROVE  RegistryInv'
<1>1. ASSUME NEW p \in Sessions, Step(p) PROVE RegistryInv'
  BY <1>1, CheckSpecialSafe, CheckKeysSafe, DrawNumberSafe, LoadSafe, BranchHoldsMoneySafe, FlushSafe,
     CommitSafe DEF Step
<1>2. ASSUME NEW p \in Sessions, Crash(p) PROVE RegistryInv'
  BY <1>2, CrashSafe
<1>3. ASSUME NEW p \in Sessions, NEW r \in Requests, Begin(p, r) PROVE RegistryInv'
  BY <1>3, RequestFacts, BeginSafe
<1>4. ASSUME NEW p \in Sessions, Read(p) \/ Save(p) PROVE RegistryInv'
  BY <1>4, ReadSafe, SaveSafe
<1>5. ASSUME NEW p \in Sessions, NEW r \in FileRequests, BeginFile(p, r) PROVE RegistryInv'
  BY <1>5, FileRequestFacts, BeginSafe DEF BeginFile
<1>6. CASE UNCHANGED <<vars, fileVars>>
  BY <1>6 DEF RegistryInv, Typed, UniqueKeys, UncontendedSpecialIsUnique, ImportGoesThrough, SpecialSeen,
     Rows, vars, ghosts
<1> QED
  BY <1>1, <1>2, <1>3, <1>4, <1>5, <1>6 DEF FilesNext, Next

\* The invariant holds initially.
LEMMA InitInv == FilesInit => RegistryInv
<1> SUFFICES ASSUME FilesInit PROVE RegistryInv
  OBVIOUS
<1>1. /\ rows = Opening /\ session = [p \in Sessions |-> Idle]
      /\ contended = {} /\ reopened = {} /\ imports = {}
  BY DEF FilesInit, Init
<1>2. Typed
  BY <1>1, IdleFacts, RegistryAssumption DEF Typed
<1>3. \A t \in Tables : \A j, k \in DOMAIN rows[t] :
        \/ j = k
        \/ /\ rows[t][j].keys \cap rows[t][k].keys = {}
           /\ ~ (rows[t][j].special /\ rows[t][k].special)
  BY <1>1, RegistryAssumption
<1>4. UniqueKeys
  BY <1>3 DEF UniqueKeys, Rows
<1>5. UncontendedSpecialIsUnique
  BY <1>3 DEF UncontendedSpecialIsUnique, SpecialSeen, Rows, Tables
<1>6. ImportGoesThrough
  BY <1>1 DEF ImportGoesThrough
<1>7. \A p \in Sessions : Knows(session[p], rows, contended)
  BY <1>1, IdleKnows
<1>8. \A p, q \in Sessions : p # q => Apart(session[p], session[q], contended)
  BY <1>1, IdleKnows
<1> QED
  BY <1>2, <1>4, <1>5, <1>6, <1>7, <1>8 DEF RegistryInv

\* The inductive invariant: each request is on its course, what its checks found
\* still is so where no other request could have interfered, and no two requests
\* have one row or one key in hand.
THEOREM RegistryInvariant == FilesSpec => []RegistryInv
<1>1. RegistryInv /\ [FilesNext]_<<vars, fileVars>> => RegistryInv'
  BY NextKeepsInv
<1> QED
  BY <1>1, InitInv, PTL DEF FilesSpec

\* The tables hold rows of their columns, whose unique keys are unique: a code, a
\* customer's number, email, phone or document belongs to one row of its table,
\* though create and import check before they insert and others insert between.
THEOREM KeysAreUnique == FilesSpec => []TypeOK
<1>1. RegistryInv => TypeOK
  BY DEF RegistryInv, Typed, UniqueKeys, TypeOK
<1> QED
  BY <1>1, RegistryInvariant, PTL

\* One main branch, one main vault and one base currency, where no two requests
\* tried to make one at one time and no closed main branch was opened again.
THEOREM SpecialIsUnique == FilesSpec => []UncontendedSpecialIsUnique
<1>1. RegistryInv => UncontendedSpecialIsUnique
  BY DEF RegistryInv
<1> QED
  BY <1>1, RegistryInvariant, PTL

\* An import that nobody disturbs is answered, and registers whom it does not
\* report, however long the list and whatever else is in the tables.
THEOREM ImportsGoThrough == FilesSpec => []ImportGoesThrough
<1>1. RegistryInv => ImportGoesThrough
  BY DEF RegistryInv
<1> QED
  BY <1>1, RegistryInvariant, PTL
=============================================================================
