------------------------ MODULE CustomerFilesProofs ------------------------
(***************************************************************************)
(* The files of customers are right whatever the number of customers,      *)
(* levels and sessions, however their requests interleave with each other  *)
(* and with the rest of Registry, and wherever they crash.                 *)
(***************************************************************************)
EXTENDS CustomerFiles, TLAPS

Reading == <<Do("read", NoRow, 1), Do("save", NoRow, 1)>>
Saving  == <<Do("save", NoRow, 1)>>

FileKinds == {"verify", "assess", "document"}

OnFile(p) == session[p].req.kind \in FileKinds

(* What the types must say for the steps on files to be understood.  Of the
   other requests only the fields of their sessions matter.                 *)
FilesTypeOK ==
  /\ DOMAIN rows = Tables
  /\ rows["customer"] \in Seq({rows["customer"][k] : k \in Rows("customer")})
  /\ files \in [Rows("customer") -> File]
  /\ word \in [Rows("customer") -> [risk : Levels, by : Verifiers]]
  /\ DOMAIN session = Sessions
  /\ \A p \in Sessions : DOMAIN session[p] = DOMAIN Idle

\* A request on a file goes through its two steps on a customer there is.
OnCourse(p) ==
  /\ session[p].req.at \in Rows("customer")
  /\ session[p].req.kind = "verify" => session[p].req.level \in Levels \cup {"null"}
  /\ session[p].req.kind = "assess" => session[p].req.level \in Levels
  /\ session[p].todo \in {Reading, Saving}

\* What a session that is about to write knows of the file: its documents are
\* not taken away, and nobody changed the assessment unless the file is shared.
Knows(p) ==
  LET at == session[p].req.at
  IN session[p].todo = Saving =>
       /\ session[p].copy \in File
       /\ session[p].req.kind = "verify" => files[at].documents > 0
       /\ Assesses(session[p].req) /\ at \notin shared =>
            Assessment(session[p].copy) = Assessment(files[at])

\* Two sessions that assess one customer have made it shared.
SharedIsKnown ==
  \A p, q \in Sessions :
    /\ p # q
    /\ Assesses(session[p].req) /\ Assesses(session[q].req)
    /\ session[p].req.at = session[q].req.at
    => session[p].req.at \in shared

FilesInv ==
  /\ FilesTypeOK
  /\ \A p \in Sessions : OnFile(p) => OnCourse(p) /\ Knows(p)
  /\ SharedIsKnown
  /\ VerifiedWithDocuments
  /\ UnsharedFileIsTheLastWord

-----------------------------------------------------------------------------
(* A step of Registry by p leaves the requests on files alone, and loses no
   customer.                                                                *)
NoRowLost ==
  /\ DOMAIN rows' = Tables
  /\ rows'["customer"] \in Seq({rows'["customer"][k] : k \in DOMAIN rows'["customer"]})
  /\ Rows("customer") \subseteq DOMAIN rows'["customer"]

Moves(p) ==
  \E s : /\ session' = [session EXCEPT ![p] = s]
         /\ DOMAIN s = DOMAIN Idle
         /\ s.req.kind \notin FileKinds

(* Every step of a request that is not about a file moves its own session and
   keeps the customers (Registry: the checks, Load, Flush, Commit).         *)
LEMMA RegistryStep ==
  ASSUME FilesInv, NEW p \in Sessions, Step(p)
  PROVE  NoRowLost /\ Moves(p)
<1>1. session[p].req.kind \notin FileKinds
  <2>1. ~ (At(p, "read") \/ At(p, "save"))
    BY DEF Step, CheckSpecial, CheckKeys, DrawNumber, Load, BranchHoldsMoney, Flush, Commit, At
  <2>2. Head(Reading).op = "read" /\ Head(Saving).op = "save" /\ Reading # <<>> /\ Saving # <<>>
    BY DEF Reading, Saving, Do
  <2> QED
    BY <2>1, <2>2 DEF FilesInv, OnFile, OnCourse, At, Busy
<1>2. ASSUME NEW s, NEW rest, Goto(p, s, rest), DOMAIN s = DOMAIN Idle, s.req = session[p].req
      PROVE  Moves(p)
  <2>1. DOMAIN [s EXCEPT !.todo = rest] = DOMAIN Idle /\ [s EXCEPT !.todo = rest].req = s.req
    BY <1>2 DEF Idle, Begun
  <2>2. Idle.req.kind \notin FileKinds
    BY DEF Idle, Begun, FileKinds
  <2> QED
    BY <1>1, <1>2, <2>1, <2>2 DEF Goto, Moves
<1>3. DOMAIN session[p] = DOMAIN Idle
  BY DEF FilesInv, FilesTypeOK
<1>4. UNCHANGED rows => NoRowLost
  BY DEF FilesInv, FilesTypeOK, NoRowLost, Rows
<1>5. Refuse(p) => NoRowLost /\ Moves(p)
  BY <1>2, <1>3, <1>4 DEF Refuse, Idle, Begun
<1>6. Abort(p) => NoRowLost /\ Moves(p)
  <2>1. Idle.req.kind \notin FileKinds
    BY DEF Idle, Begun, FileKinds
  <2> QED
    BY <1>4, <1>5, <2>1 DEF Abort, Moves
<1>7. Goto(p, session[p], Rest(p)) => Moves(p)
  BY <1>2, <1>3
<1>8. CASE CheckSpecial(p) \/ CheckKeys(p) \/ BranchHoldsMoney(p)
  BY <1>4, <1>5, <1>7, <1>8 DEF CheckSpecial, CheckKeys, BranchHoldsMoney
<1>9. CASE DrawNumber(p)
  <2>1. ASSUME NEW n \in Numbers, Goto(p, [session[p] EXCEPT !.number = {n}], Rest(p))
        PROVE  Moves(p)
    BY <1>2, <1>3, <2>1 DEF Idle, Begun
  <2> QED
    BY <1>4, <1>5, <1>9, <2>1 DEF DrawNumber
<1>10. CASE Load(p)
  <2>1. ASSUME NEW copy, NEW change, NEW rest,
               Goto(p, [session[p] EXCEPT !.copy = copy, !.change = change], rest)
        PROVE  Moves(p)
    BY <1>2, <1>3, <2>1 DEF Idle, Begun
  <2> QED
    BY <1>4, <1>5, <1>10, <2>1 DEF Load
<1>11. CASE Flush(p)
  <2>1. ASSUME NEW write, Goto(p, [session[p] EXCEPT !.write = write], Rest(p))
        PROVE  Moves(p)
    BY <1>2, <1>3, <2>1 DEF Idle, Begun
  <2> QED
    BY <1>4, <1>6, <1>7, <1>11, <2>1 DEF Flush
<1>12. CASE Commit(p)
  <2>1. Moves(p)
    BY <1>2, <1>3, <1>12 DEF Commit, Idle, Begun
  <2>2. NoRowLost
    <3> DEFINE t == Table(p)
               w == session[p].write[1]
               old == rows["customer"]
               S == {old[k] : k \in DOMAIN old}
    <3>1. CASE session[p].write = <<>>
      BY <1>4, <1>12, <3>1 DEF Commit
    <3>2. CASE session[p].write # <<>>
      <4>1. rows' = [rows EXCEPT ![t] = IF w.at = 0 THEN Append(@, w.row)
                                        ELSE [@ EXCEPT ![w.at] = w.row]]
        BY <1>12, <3>2 DEF Commit
      <4>2. DOMAIN rows' = Tables /\ "customer" \in Tables /\ old \in Seq(S)
        BY <4>1 DEF FilesInv, FilesTypeOK, Tables, Rows
      <4>3. rows'["customer"] \in {old, Append(old, w.row), [old EXCEPT ![w.at] = w.row]}
        BY <4>1, <4>2 DEF FilesInv, FilesTypeOK
      <4>4. DOMAIN old \subseteq DOMAIN rows'["customer"]
        BY <4>2, <4>3
      <4>5. rows'["customer"] \in Seq(S \cup {w.row})
        <5>1. old \in Seq(S \cup {w.row}) /\ w.row \in S \cup {w.row}
          BY <4>2
        <5>2. Append(old, w.row) \in Seq(S \cup {w.row})
          BY <5>1
        <5>3. [old EXCEPT ![w.at] = w.row] \in Seq(S \cup {w.row})
          <6> HIDE DEF S, old, w
          <6>1. Len(old) \in Nat /\ old \in [1..Len(old) -> S \cup {w.row}]
            BY <5>1
          <6>2. [old EXCEPT ![w.at] = w.row] \in [1..Len(old) -> S \cup {w.row}]
            BY <6>1
          <6> QED
            BY <6>1, <6>2
        <5> QED
          BY <4>3, <5>1, <5>2, <5>3
      <4>6. rows'["customer"] \in Seq({rows'["customer"][k] : k \in DOMAIN rows'["customer"]})
        BY <4>5
      <4> QED
        BY <4>2, <4>4, <4>6 DEF NoRowLost, Rows
    <3> QED
      BY <3>1, <3>2
  <2> QED
    BY <2>1, <2>2
<1> QED
  BY <1>8, <1>9, <1>10, <1>11, <1>12 DEF Step

-----------------------------------------------------------------------------
(* What an alert tells, as an action.                                      *)
AlertsTell ==
  \A k \in Rows("customer") :
    Len(files'[k].alerts) > Len(files[k].alerts) /\ k \notin shared =>
      files'[k].alerts[Len(files'[k].alerts)] = [old |-> files[k].risk, new |-> files'[k].risk]

(* The step on the files themselves: Save merges what a session read into the
   file as it is by now, which is what it read unless the file is shared.   *)
LEMMA FilesStep == FilesInv /\ [FilesNext]_<<vars, fileVars>> => FilesInv' /\ AlertsTell
<1> SUFFICES ASSUME FilesInv, [FilesNext]_<<vars, fileVars>> PROVE FilesInv' /\ AlertsTell
  OBVIOUS
<1> USE DEF Rows
<1>f. /\ Head(Reading).op = "read" /\ Head(Saving).op = "save"
      /\ Tail(Reading) = Saving /\ Tail(Saving) = <<>>
      /\ Reading # <<>> /\ Saving # <<>> /\ Reading # Saving
  BY DEF Reading, Saving, Do
<1>i. DOMAIN Idle = {"req", "todo", "copy", "change", "number", "write", "failed", "alone"}
      /\ Idle.req.kind = "none"
  BY DEF Idle, Begun
<1>fresh. Fresh \in File /\ Assessment(Fresh) = [risk |-> "low", by |-> "nobody"]
          /\ Assessment(Fresh) \in [risk : Levels, by : Verifiers]
          /\ ~ Fresh.verified
  BY CustomerFilesAssumption DEF Fresh, File, Verifiers, Assessment
<1>1. CASE UNCHANGED <<vars, fileVars>>
  BY <1>1 DEF vars, ghosts, fileVars, FilesInv, FilesTypeOK, OnFile, OnCourse, Knows, SharedIsKnown,
     VerifiedWithDocuments, UnsharedFileIsTheLastWord, AlertsTell
<1>2. ASSUME NEW p \in Sessions, NoRowLost, Moves(p), Follow
      PROVE  FilesInv' /\ AlertsTell
  <2>1. PICK s : /\ session' = [session EXCEPT ![p] = s]
                /\ DOMAIN s = DOMAIN Idle
                /\ s.req.kind \notin FileKinds
    BY <1>2 DEF Moves
  <2>2. /\ DOMAIN session' = Sessions
        /\ session'[p] = s
        /\ \A q \in Sessions \ {p} : session'[q] = session[q]
    BY <2>1 DEF FilesInv, FilesTypeOK
  <2>3. \A k \in Rows("customer") : files'[k] = files[k] /\ word'[k] = word[k]
    BY <1>2 DEF NoRowLost, Follow, FilesInv, FilesTypeOK
  <2>4. \A k \in Rows("customer")' \ Rows("customer") :
          files'[k] = Fresh /\ word'[k] = Assessment(Fresh)
    BY <1>2 DEF Follow, FilesInv, FilesTypeOK
  <2>5. FilesTypeOK'
    <3>1. files' \in [Rows("customer")' -> File]
      BY <1>2, <1>fresh DEF Follow, FilesInv, FilesTypeOK
    <3>2. word' \in [Rows("customer")' -> [risk : Levels, by : Verifiers]]
      BY <1>2, <1>fresh DEF Follow, FilesInv, FilesTypeOK
    <3>3. \A q \in Sessions : DOMAIN session'[q] = DOMAIN Idle
      BY <2>1, <2>2 DEF FilesInv, FilesTypeOK
    <3> QED
      BY <1>2, <2>2, <3>1, <3>2, <3>3 DEF NoRowLost, FilesTypeOK, Idle, Begun
  <2>6. \A q \in Sessions : OnFile(q)' => q # p /\ OnFile(q)
    BY <2>1, <2>2 DEF OnFile
  <2>7. \A q \in Sessions : OnFile(q)' => OnCourse(q)' /\ Knows(q)'
    <3> SUFFICES ASSUME NEW q \in Sessions, OnFile(q)' PROVE OnCourse(q)' /\ Knows(q)'
      OBVIOUS
    <3>1. q # p /\ OnCourse(q) /\ Knows(q) /\ session'[q] = session[q]
      BY <2>2, <2>6 DEF FilesInv
    <3>2. shared' = shared /\ files'[session[q].req.at] = files[session[q].req.at]
      BY <1>2, <2>3, <3>1 DEF Follow, OnCourse
    <3>3. OnCourse(q)'
      BY <1>2, <3>1 DEF OnCourse, NoRowLost
    <3> QED
      BY <3>1, <3>2, <3>3 DEF Knows
  <2>8. SharedIsKnown'
    BY <1>2, <2>1, <2>2 DEF SharedIsKnown, FilesInv, Follow, Assesses, FileKinds
  <2>9. VerifiedWithDocuments' /\ UnsharedFileIsTheLastWord'
    <3>1. ASSUME NEW k \in Rows("customer")
          PROVE  /\ files'[k].verified /\ files'[k].by \in Sessions => files'[k].documents > 0
                 /\ k \notin shared' => Assessment(files[k])' = word'[k]
      BY <1>2, <2>3, <3>1 DEF Follow, FilesInv, VerifiedWithDocuments,
         UnsharedFileIsTheLastWord, Assessment
    <3>2. ASSUME NEW k \in Rows("customer")' \ Rows("customer")
          PROVE  ~ files'[k].verified /\ Assessment(files[k])' = word'[k]
      BY <1>fresh, <2>4, <3>2 DEF Assessment
    <3> QED
      BY <3>1, <3>2 DEF VerifiedWithDocuments, UnsharedFileIsTheLastWord
  <2>10. AlertsTell
    BY <2>3 DEF AlertsTell, FilesInv, FilesTypeOK, File
  <2> QED
    BY <2>5, <2>7, <2>8, <2>9, <2>10 DEF FilesInv
<1>3. UNCHANGED <<rows, fileVars>> => NoRowLost /\ Follow
  BY DEF FilesInv, FilesTypeOK, NoRowLost, Follow, fileVars
<1>4. ASSUME NEW p \in Sessions, NEW r, Begin(p, r), shared \subseteq shared', UNCHANGED <<files, word>>,
             r.kind \in FileKinds =>
               /\ r.at \in Rows("customer")
               /\ r.kind = "verify" => r.level \in Levels \cup {"null"}
               /\ r.kind = "assess" => r.level \in Levels
               /\ \A q \in Sessions :
                    Busy(q) /\ Assesses(r) /\ Assesses(session[q].req) /\ session[q].req.at = r.at
                      => r.at \in shared'
      PROVE  FilesInv' /\ AlertsTell
  <2>1. /\ DOMAIN session' = Sessions
        /\ session'[p].req = r /\ session'[p].todo = Program(r)
        /\ DOMAIN session'[p] = DOMAIN Idle
    BY <1>4 DEF Begin, Begun, Idle
  <2>2. \A q \in Sessions \ {p} :
          /\ session'[q].req = session[q].req /\ session'[q].todo = session[q].todo
          /\ session'[q].copy = session[q].copy /\ DOMAIN session'[q] = DOMAIN Idle
    BY <1>4, <1>i DEF Begin, FilesInv, FilesTypeOK
  <2>3. UNCHANGED rows
    BY <1>4 DEF Begin
  <2>4. r.kind \in FileKinds => Program(r) = Reading
    BY DEF Program, FileKinds, Each, Reading
  <2>5. \A q \in Sessions : OnFile(q)' => OnCourse(q)' /\ Knows(q)'
    <3> SUFFICES ASSUME NEW q \in Sessions, OnFile(q)' PROVE OnCourse(q)' /\ Knows(q)'
      OBVIOUS
    <3>1. CASE q = p
      BY <1>4, <1>f, <2>1, <2>3, <2>4, <3>1 DEF OnFile, OnCourse, Knows
    <3>2. CASE q # p
      <4>1. OnCourse(q) /\ Knows(q)
        BY <2>2, <3>2 DEF OnFile, FilesInv
      <4> QED
        BY <1>4, <2>2, <2>3, <3>2, <4>1 DEF OnCourse, Knows
    <3> QED
      BY <3>1, <3>2
  <2>6. SharedIsKnown'
    <3>1. \A q \in Sessions : Assesses(session[q].req) => Busy(q)
      BY <1>f DEF Assesses, Busy, FilesInv, OnFile, OnCourse, FileKinds
    <3>2. Assesses(r) => r.kind \in FileKinds
      BY DEF Assesses, FileKinds
    <3> QED
      BY <1>4, <2>1, <2>2, <3>1, <3>2 DEF SharedIsKnown, FilesInv
  <2>7. FilesTypeOK'
    BY <1>4, <2>1, <2>2, <2>3 DEF FilesInv, FilesTypeOK, Idle, Begun
  <2>8. VerifiedWithDocuments' /\ UnsharedFileIsTheLastWord'
    BY <1>4, <2>3 DEF FilesInv, VerifiedWithDocuments, UnsharedFileIsTheLastWord
  <2>9. AlertsTell
    BY <1>4 DEF AlertsTell, FilesInv, FilesTypeOK, File
  <2> QED
    BY <2>5, <2>6, <2>7, <2>8, <2>9 DEF FilesInv
<1>5. CASE Next /\ Follow
  <2>1. ASSUME NEW p \in Sessions, Step(p) PROVE FilesInv' /\ AlertsTell
    BY <1>2, <1>5, <2>1, RegistryStep
  <2>2. ASSUME NEW p \in Sessions, Crash(p) PROVE FilesInv' /\ AlertsTell
    <3>1. Moves(p)
      BY <1>i, <2>2 DEF Crash, Moves, FileKinds
    <3>2. NoRowLost
      BY <2>2 DEF Crash, NoRowLost, FilesInv, FilesTypeOK
    <3> QED
      BY <1>2, <1>5, <3>1, <3>2
  <2>3. ASSUME NEW p \in Sessions, NEW r \in Requests, Begin(p, r) PROVE FilesInv' /\ AlertsTell
    <3>1. r.kind \notin FileKinds
      <4>1. \A q \in Creates : q.kind = "create"
        BY DEF Creates
      <4>2. \A q \in Updates : q.kind = "update"
        BY DEF Updates
      <4> QED
        BY <4>1, <4>2 DEF Requests, Switches, FileKinds
    <3>2. UNCHANGED <<files, word, shared>>
      BY <1>5, <2>3 DEF Begin, Follow, FilesInv, FilesTypeOK
    <3> QED
      BY <1>4, <2>3, <3>1, <3>2
  <2> QED
    BY <1>5, <2>1, <2>2, <2>3 DEF Next
<1>6. ASSUME NEW p \in Sessions, NEW r \in FileRequests, BeginFile(p, r)
      PROVE  FilesInv' /\ AlertsTell
  <2>1. /\ r.at \in Rows("customer")
        /\ r.kind = "verify" => r.level \in Levels \cup {"null"}
        /\ r.kind = "assess" => r.level \in Levels
    BY DEF FileRequests
  <2> QED
    BY <1>4, <1>6, <2>1 DEF BeginFile
<1>7. ASSUME NEW p \in Sessions, Read(p) PROVE FilesInv' /\ AlertsTell
  <2>1. CASE session[p].req.kind = "verify" /\ files[Me(p)].documents = 0
    <3>1. session' = [session EXCEPT ![p] = Idle] /\ UNCHANGED <<rows, fileVars>>
      BY <1>7, <2>1 DEF Read, Refuse, NextEntries, Goto
    <3>2. Moves(p)
      BY <1>i, <3>1 DEF Moves, FileKinds
    <3> QED
      BY <1>2, <1>3, <3>1, <3>2
  <2>2. CASE ~ (session[p].req.kind = "verify" /\ files[Me(p)].documents = 0)
    <3> DEFINE read == [session[p] EXCEPT !.copy = files[Me(p)]]
    <3>1. Goto(p, read, Rest(p)) /\ UNCHANGED <<rows, fileVars>>
      BY <1>7, <2>2 DEF Read
    <3>2. /\ DOMAIN session[p] = DOMAIN Idle
          /\ DOMAIN read = DOMAIN Idle /\ read.req = session[p].req /\ read.copy = files[Me(p)]
      BY <1>i DEF FilesInv, FilesTypeOK
    <3> HIDE DEF read
    <3>3. CASE ~ OnFile(p)
      <4>1. Moves(p)
        <5>1. DOMAIN [read EXCEPT !.todo = Rest(p)] = DOMAIN Idle
              /\ [read EXCEPT !.todo = Rest(p)].req = read.req
          BY <1>i, <3>2
        <5> QED
          BY <1>i, <3>1, <3>2, <3>3, <5>1 DEF Goto, Moves, OnFile, FileKinds
      <4> QED
        BY <1>2, <1>3, <3>1, <4>1
    <3>4. CASE OnFile(p)
      <4>1. OnCourse(p) /\ Rest(p) = Saving
        BY <1>7, <1>f, <3>4 DEF FilesInv, OnCourse, Rest, Read, At
      <4>2. session' = [session EXCEPT ![p] = [read EXCEPT !.todo = Saving]]
        BY <1>f, <3>1, <4>1 DEF Goto
      <4>3. /\ DOMAIN session' = Sessions
            /\ session'[p].req = session[p].req /\ session'[p].todo = Saving
            /\ session'[p].copy = files[Me(p)] /\ DOMAIN session'[p] = DOMAIN Idle
            /\ \A q \in Sessions \ {p} : session'[q] = session[q]
        BY <1>i, <3>2, <4>2 DEF FilesInv, FilesTypeOK
      <4>4. Me(p) = session[p].req.at
        BY <3>4 DEF Me, OnFile, FileKinds
      <4>5. UNCHANGED <<rows, files, word, shared>>
        BY <3>1 DEF fileVars
      <4>6. OnCourse(p)' /\ Knows(p)'
        <5>1. files[Me(p)] \in File
          BY <4>1, <4>4 DEF FilesInv, FilesTypeOK, OnCourse
        <5>2. session[p].req.kind = "verify" => files[Me(p)].documents > 0
          BY <2>2, <5>1 DEF File
        <5> QED
          BY <4>1, <4>3, <4>4, <4>5, <5>1, <5>2 DEF OnCourse, Knows
      <4>7. \A q \in Sessions : OnFile(q)' => OnCourse(q)' /\ Knows(q)'
        <5> SUFFICES ASSUME NEW q \in Sessions, OnFile(q)', q # p PROVE OnCourse(q)' /\ Knows(q)'
          BY <4>6
        <5>1. OnCourse(q) /\ Knows(q)
          BY <4>3 DEF OnFile, FilesInv
        <5> QED
          BY <4>3, <4>5, <5>1 DEF OnCourse, Knows
      <4>8. SharedIsKnown'
        BY <4>3, <4>5 DEF SharedIsKnown, FilesInv
      <4>9. FilesTypeOK'
        <5>1. \A q \in Sessions : DOMAIN session'[q] = DOMAIN Idle
          BY <4>3 DEF FilesInv, FilesTypeOK
        <5> QED
          BY <4>3, <4>5, <5>1 DEF FilesInv, FilesTypeOK, Idle, Begun
      <4>10. VerifiedWithDocuments' /\ UnsharedFileIsTheLastWord' /\ AlertsTell
        BY <4>5 DEF FilesInv, FilesTypeOK, File, VerifiedWithDocuments, UnsharedFileIsTheLastWord, AlertsTell
      <4> QED
        BY <4>7, <4>8, <4>9, <4>10 DEF FilesInv
    <3> QED
      BY <3>3, <3>4
  <2> QED
    BY <2>1, <2>2
<1>8. ASSUME NEW p \in Sessions, Save(p) PROVE FilesInv' /\ AlertsTell
  <2> DEFINE r  == session[p].req
             at == r.at
             old == files[at]
             new == Saved(p, old)
  <2>1. CASE r.kind = "verify" /\ r.level = "null"
    <3>1. session' = [session EXCEPT ![p] = Idle] /\ UNCHANGED <<rows, fileVars>>
      BY <1>8, <2>1 DEF Save, Refuse, NextEntries, Goto, fileVars
    <3>2. Moves(p)
      BY <1>i, <3>1 DEF Moves, FileKinds
    <3> QED
      BY <1>2, <1>3, <3>1, <3>2
  <2>2. CASE ~ (r.kind = "verify" /\ r.level = "null")
    <3>1. /\ files' = [files EXCEPT ![at] = new]
          /\ word' = [word EXCEPT ![at] = CASE r.kind = "verify" -> [risk |-> r.level, by |-> p]
                                           [] r.kind = "assess" -> [@ EXCEPT !.risk = r.level]
                                           [] OTHER             -> @]
          /\ UNCHANGED <<rows, shared>>
          /\ Goto(p, session[p], Rest(p))
      BY <1>8, <2>2 DEF Save
    <3>2. OnFile(p) => OnCourse(p) /\ Knows(p) /\ r.kind \in FileKinds /\ session[p].todo = Saving
      BY <1>8, <1>f DEF FilesInv, OnCourse, Save, At, OnFile
    <3>3. DOMAIN session[p] = DOMAIN Idle
      BY DEF FilesInv, FilesTypeOK
    <3>4. Moves(p)
      <4>1. CASE OnFile(p)
        <5>1. session' = [session EXCEPT ![p] = Idle]
          BY <1>f, <3>1, <3>2, <4>1 DEF Goto, Rest
        <5> QED
          BY <1>i, <5>1 DEF Moves, FileKinds
      <4>2. CASE ~ OnFile(p)
        <5>1. DOMAIN [session[p] EXCEPT !.todo = Rest(p)] = DOMAIN Idle
              /\ [session[p] EXCEPT !.todo = Rest(p)].req = session[p].req
          BY <1>i, <3>3
        <5> QED
          BY <1>i, <3>1, <4>2, <5>1 DEF Goto, Moves, OnFile, FileKinds
      <4> QED
        BY <4>1, <4>2
    <3>5. PICK s : /\ session' = [session EXCEPT ![p] = s]
                  /\ DOMAIN s = DOMAIN Idle
                  /\ s.req.kind \notin FileKinds
      BY <3>4 DEF Moves
    <3>6. /\ DOMAIN session' = Sessions
          /\ session'[p] = s
          /\ \A q \in Sessions \ {p} : session'[q] = session[q]
      BY <3>5 DEF FilesInv, FilesTypeOK
    <3> HIDE DEF r, at, old, new
    \* The file as p leaves it.
    <3>7. ASSUME at \in Rows("customer")
          PROVE  /\ new \in File
                 /\ new.documents >= old.documents
                 /\ new.verified /\ ~ old.verified => r.kind = "verify"
                 /\ Len(new.alerts) > Len(old.alerts) => r.kind = "assess"
                 /\ ~ Assesses(r) => Assessment(new) = Assessment(old) /\ new.alerts = old.alerts
                                     /\ new.documents > 0
                 /\ r.kind = "verify" => new.documents > 0
                 /\ r.kind = "assess" => new.verified = old.verified /\ new.by = old.by
                                         /\ new.alerts = Append(old.alerts, Alert(session[p].copy, r))
                 /\ at \notin shared =>
                      /\ r.kind = "verify" => Assessment(new) = [risk |-> r.level, by |-> p]
                      /\ r.kind = "assess" => new.risk = r.level /\ new.by = old.by
                                              /\ session[p].copy.risk = old.risk
      <4>1. old \in File
        BY <3>7 DEF FilesInv, FilesTypeOK, old
      <4>2. CASE r.kind = "verify"
        <5>1. /\ session[p].copy \in File /\ old.documents > 0 /\ r.level \in Levels
              /\ at \notin shared => Assessment(session[p].copy) = Assessment(old)
          BY <2>2, <3>2, <4>2 DEF OnFile, FileKinds, OnCourse, Knows, Assesses, r, at, old
        <5>2. new = [old EXCEPT !.verified = TRUE, !.by = Merged(@, session[p].copy.by, p),
                                !.risk = Merged(@, session[p].copy.risk, r.level)]
          BY <4>2 DEF Saved, r, new
        <5>3. /\ Merged(old.by, session[p].copy.by, p) \in Verifiers
              /\ Merged(old.risk, session[p].copy.risk, r.level) \in Levels
          BY <4>1, <5>1 DEF Merged, File, Verifiers
        <5>4. /\ new \in File /\ new.documents = old.documents /\ new.alerts = old.alerts
              /\ new.by = Merged(old.by, session[p].copy.by, p)
              /\ new.risk = Merged(old.risk, session[p].copy.risk, r.level)
          BY <4>1, <5>2, <5>3 DEF File
        <5>5. at \notin shared => Assessment(new) = [risk |-> r.level, by |-> p]
          BY <5>1, <5>4 DEF Merged, Assessment
        <5>6. old.documents \in Nat /\ ~ Len(old.alerts) > Len(old.alerts)
          BY <4>1 DEF File
        <5> QED
          BY <4>2, <5>1, <5>4, <5>5, <5>6 DEF Assesses
      <4>3. CASE r.kind = "assess"
        <5>1. /\ session[p].copy \in File /\ r.level \in Levels
              /\ at \notin shared => Assessment(session[p].copy) = Assessment(old)
          BY <3>2, <4>3 DEF OnFile, FileKinds, OnCourse, Knows, Assesses, r, at, old
        <5>2. new = [old EXCEPT !.risk = Merged(@, session[p].copy.risk, r.level),
                                !.alerts = Append(@, Alert(session[p].copy, r))]
          BY <4>3 DEF Saved, r, new
        <5>3. /\ Merged(old.risk, session[p].copy.risk, r.level) \in Levels
              /\ Append(old.alerts, Alert(session[p].copy, r)) \in Seq([old : Levels, new : Levels])
          BY <4>1, <5>1 DEF Merged, File, Alert
        <5>4. /\ new \in File /\ new.documents = old.documents /\ new.by = old.by
              /\ new.verified = old.verified
              /\ new.risk = Merged(old.risk, session[p].copy.risk, r.level)
              /\ new.alerts = Append(old.alerts, Alert(session[p].copy, r))
          BY <4>1, <5>2, <5>3 DEF File
        <5>5. at \notin shared => new.risk = r.level /\ session[p].copy.risk = old.risk
          BY <5>1, <5>4 DEF Merged, Assessment
        <5>6. old.documents \in Nat
          BY <4>1 DEF File
        <5> QED
          BY <4>3, <5>4, <5>5, <5>6 DEF Assesses
      <4>4. CASE ~ Assesses(r)
        <5>1. new = [old EXCEPT !.documents = @ + 1]
          BY <4>4 DEF Saved, Assesses, r, new
        <5> QED
          BY <4>1, <4>4, <5>1 DEF File, Assessment, Assesses
      <4> QED
        BY <4>2, <4>3, <4>4 DEF Assesses
    <3>8. \A k \in Rows("customer") :
            /\ k # at => files'[k] = files[k] /\ word'[k] = word[k]
            /\ k = at => files'[k] = new /\ files[k] = old
      BY <3>1 DEF FilesInv, FilesTypeOK, old
    <3>9. ASSUME at \in Rows("customer"), at \notin shared
          PROVE  Assessment(new) = word'[at]
      <4>1. word[at] = Assessment(old) /\ word[at] \in [risk : Levels, by : Verifiers]
        BY <3>9 DEF FilesInv, FilesTypeOK, UnsharedFileIsTheLastWord, old
      <4>2. CASE r.kind = "verify"
        BY <3>1, <3>7, <3>9, <4>2 DEF FilesInv, FilesTypeOK
      <4>3. CASE r.kind = "assess"
        BY <3>1, <3>7, <3>9, <4>1, <4>3 DEF FilesInv, FilesTypeOK, Assessment
      <4>4. CASE ~ Assesses(r)
        BY <3>1, <3>7, <3>9, <4>1, <4>4 DEF FilesInv, FilesTypeOK, Assesses
      <4> QED
        BY <4>2, <4>3, <4>4 DEF Assesses
    <3>10. FilesTypeOK'
      <4>1. files' \in [Rows("customer") -> File]
        BY <3>1, <3>7 DEF FilesInv, FilesTypeOK
      <4>2. word' \in [Rows("customer") -> [risk : Levels, by : Verifiers]]
        <5>1. ASSUME at \in Rows("customer"), Assesses(r) PROVE r.level \in Levels
          BY <2>2, <3>2, <5>1 DEF Assesses, OnFile, FileKinds, OnCourse, r
        <5>2. p \in Verifiers
          BY DEF Verifiers
        <5> QED
          BY <3>1, <5>1, <5>2 DEF FilesInv, FilesTypeOK, Assesses
      <4>3. \A q \in Sessions : DOMAIN session'[q] = DOMAIN Idle
        BY <3>5, <3>6 DEF FilesInv, FilesTypeOK
      <4> QED
        BY <3>1, <3>6, <4>1, <4>2, <4>3 DEF FilesInv, FilesTypeOK, Idle, Begun
    <3>11. \A q \in Sessions : OnFile(q)' => OnCourse(q)' /\ Knows(q)'
      <4> SUFFICES ASSUME NEW q \in Sessions, OnFile(q)' PROVE OnCourse(q)' /\ Knows(q)'
        OBVIOUS
      <4>1. q # p /\ session'[q] = session[q] /\ OnFile(q)
        BY <3>5, <3>6 DEF OnFile
      <4>2. OnCourse(q) /\ Knows(q)
        BY <4>1 DEF FilesInv
      <4>3. CASE session[q].req.at = at
        <5>1. Assesses(r) /\ Assesses(session[q].req) => at \in shared
          BY <4>1, <4>3 DEF FilesInv, SharedIsKnown, r, at
        <5>2. at \in Rows("customer") /\ old \in File
          BY <4>2, <4>3 DEF OnCourse, FilesInv, FilesTypeOK, old
        <5>3. files'[at] = new /\ files[at] = old
          BY <3>8, <5>2
        <5>4. new.documents > 0 \/ ~ old.documents > 0
          BY <3>7, <5>2 DEF File
        <5> QED
          BY <3>1, <3>7, <4>1, <4>2, <4>3, <5>1, <5>2, <5>3, <5>4 DEF OnCourse, Knows, Assessment
      <4>4. CASE session[q].req.at # at
        BY <3>1, <3>8, <4>1, <4>2, <4>4 DEF OnCourse, Knows, Assessment
      <4> QED
        BY <4>3, <4>4
    <3>12. SharedIsKnown'
      BY <3>1, <3>5, <3>6 DEF SharedIsKnown, FilesInv, Assesses, FileKinds
    <3>13. VerifiedWithDocuments'
      BY <3>1, <3>7, <3>8 DEF FilesInv, FilesTypeOK, File, VerifiedWithDocuments, Assesses
    <3>14. UnsharedFileIsTheLastWord'
      BY <3>1, <3>8, <3>9 DEF FilesInv, UnsharedFileIsTheLastWord, Assessment
    <3>15. AlertsTell
      <4> SUFFICES ASSUME NEW k \in Rows("customer"), k \notin shared,
                          Len(files'[k].alerts) > Len(files[k].alerts)
                   PROVE  files'[k].alerts[Len(files'[k].alerts)]
                            = [old |-> files[k].risk, new |-> files'[k].risk]
        BY DEF AlertsTell
      <4>1. k = at
        BY <3>8 DEF FilesInv, FilesTypeOK, File
      <4>2. files'[k] = new /\ files[k] = old /\ r.kind = "assess" /\ old \in File
        BY <3>7, <3>8, <4>1 DEF FilesInv, FilesTypeOK
      <4>3. new.alerts = Append(old.alerts, Alert(session[p].copy, r)) /\ old.alerts \in Seq([old : Levels, new : Levels])
        BY <3>7, <4>1, <4>2 DEF File
      <4>4. new.alerts[Len(new.alerts)] = Alert(session[p].copy, r)
        BY <4>3
      <4> QED
        BY <3>7, <4>1, <4>2, <4>4 DEF Alert
    <3> QED
      BY <3>10, <3>11, <3>12, <3>13, <3>14, <3>15 DEF FilesInv
  <2> QED
    BY <2>1, <2>2
<1> QED
  BY <1>1, <1>5, <1>6, <1>7, <1>8 DEF FilesNext

\* What every reachable state of the files satisfies.
LEMMA FilesInvariant == FilesSpec => []FilesInv
<1>1. ASSUME FilesInit PROVE FilesInv
  <2>1. /\ DOMAIN rows = Tables /\ rows["customer"] \in Seq(Row)
        /\ files \in [Rows("customer") -> Seeded]
        /\ word = [k \in Rows("customer") |-> Assessment(files[k])]
        /\ session = [p \in Sessions |-> Idle]
    BY <1>1, RegistryAssumption DEF FilesInit, Init, Tables
  <2>2. rows["customer"] \in Seq({rows["customer"][k] : k \in DOMAIN rows["customer"]})
    BY <2>1
  <2>3. ASSUME NEW file \in Seeded
        PROVE  /\ file \in File /\ file.by \notin Sessions
               /\ Assessment(file) \in [risk : Levels, by : Verifiers]
    BY CustomerFilesAssumption, SeededAssumption DEF SeededFile, File, Verifiers, Assessment
  <2>4. Idle.req.kind = "none"
    BY DEF Idle, Begun
  <2>5. FilesTypeOK
    <3>1. \A k \in Rows("customer") : files[k] \in Seeded
      BY <2>1
    <3>2. files \in [Rows("customer") -> File]
      BY <2>1, <2>3, <3>1
    <3>3. word \in [Rows("customer") -> [risk : Levels, by : Verifiers]]
      BY <2>1, <2>3, <3>1
    <3> QED
      BY <2>1, <2>2, <3>2, <3>3 DEF FilesTypeOK, Rows
  <2>6. \A p \in Sessions : ~ OnFile(p) /\ ~ Assesses(session[p].req)
    BY <2>1, <2>4 DEF OnFile, FileKinds, Assesses
  <2> QED
    BY <2>1, <2>3, <2>5, <2>6 DEF FilesInv, SharedIsKnown, VerifiedWithDocuments, UnsharedFileIsTheLastWord
<1> QED
  BY <1>1, FilesStep, PTL DEF FilesSpec

\* A verified customer has documents, whatever overlaps or crashes.
THEOREM VerifiedHasDocuments == FilesSpec => []VerifiedWithDocuments
<1> QED
  BY FilesInvariant, PTL DEF FilesInv

(* No assessment of a customer is lost unless two overlap on it, although no
   request locks the row it reads.                                          *)
THEOREM LastWordIsKept == FilesSpec => []UnsharedFileIsTheLastWord
<1> QED
  BY FilesInvariant, PTL DEF FilesInv

\* The alert of a change of level names the levels before and after it.
THEOREM AlertsAreTrue == FilesSpec => AlertTellsTheLevelBefore
<1>1. FilesInv /\ [FilesNext]_<<vars, fileVars>> => [AlertsTell]_<<vars, fileVars>>
  BY FilesStep
<1> QED
  BY <1>1, FilesInvariant, PTL DEF FilesSpec, AlertTellsTheLevelBefore, AlertsTell
=============================================================================
