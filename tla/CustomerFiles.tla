--------------------------- MODULE CustomerFiles ---------------------------
(***************************************************************************)
(* The file of each customer of Registry: the documents handed in, the KYC *)
(* verification with the risk level it found, later changes of that level, *)
(* and the alert each of them leaves.  A request reads the customer, then  *)
(* writes in one UPDATE the columns whose values differ from the ones it   *)
(* read, into the row as it is by then, and commits.                       *)
(***************************************************************************)
EXTENDS Registry

CONSTANTS
  Levels,      \* risk levels
  Seeded       \* files of the customers the seed script inserts

VARIABLES
  files,     \* per row of customers
  word,      \* history: per customer, what the last assessment said, and of whom
  shared     \* history: customers that two requests assessed at one time

fileVars == <<files, word, shared>>

\* The seed script verifies customers as the administrator.
Verifiers == Sessions \cup {"nobody", "seed"}

File == [documents : Nat, verified : BOOLEAN, by : Verifiers, risk : Levels,
         alerts : Seq([old : Levels, new : Levels])]

ASSUME CustomerFilesAssumption ==
  /\ "low" \in Levels /\ "null" \notin Levels
  /\ Sessions \cap {"nobody", "seed"} = {}

\* What the seed script inserts: customers verified or with documents under
\* review, at any level; some of the verified ones have no document.
SeededFile(file) ==
  /\ file \in File
  /\ file.by = IF file.verified THEN "seed" ELSE "nobody"
  /\ file.documents = 0 => file.verified
  /\ file.alerts = <<>>

ASSUME SeededAssumption == \A file \in Seeded : SeededFile(file)

\* What create_customer leaves to the defaults of the columns.
Fresh == [documents |-> 0, verified |-> FALSE, by |-> "nobody", risk |-> "low", alerts |-> <<>>]

Assessment(file) == [risk |-> file.risk, by |-> file.by]

\* A verification may come without a level; that it says is_verified = false
\* makes no difference.
FileRequests ==
  {r \in [kind : {"verify"}, table : {"customer"}, at : Rows("customer"),
          level : Levels \cup {"null"}]
      \cup [kind : {"assess"}, table : {"customer"}, at : Rows("customer"), level : Levels]
      \cup [kind : {"document"}, table : {"customer"}, at : Rows("customer")] :
    <<r.kind, r.table>> \in Kinds}

Assesses(r) == r.kind \in {"verify", "assess"}

-----------------------------------------------------------------------------
(* The operators named <definition>_<fault> are the faults the runs are tried
   against: each replaces the definition after it by a plausible mistake.   *)
Read_NoDocuments(p) ==
  /\ At(p, "read")
  /\ Goto(p, [session[p] EXCEPT !.copy = files[Me(p)]], Rest(p))
  /\ UNCHANGED <<rows, contended, reopened, fileVars>>

Read(p) ==
  /\ At(p, "read")
  /\ IF session[p].req.kind = "verify" /\ files[Me(p)].documents = 0
     THEN Refuse(p)
     ELSE Goto(p, [session[p] EXCEPT !.copy = files[Me(p)]], Rest(p))
          /\ UNCHANGED <<rows, contended, reopened>>
  /\ UNCHANGED fileVars

\* The new value of a column is written only if it is not the one that was read.
Merged(now, copy, new) == IF new = copy THEN now ELSE new

Alert_AfterTheChange(copy, r) == [old |-> r.level, new |-> r.level]

Alert(copy, r) == [old |-> copy.risk, new |-> r.level]

Saved_KeepsLevel(p, file) ==
  LET r == session[p].req  copy == session[p].copy
  IN CASE r.kind = "verify" -> [file EXCEPT !.verified = TRUE, !.by = Merged(@, copy.by, p)]
       [] r.kind = "assess" -> [file EXCEPT !.risk = Merged(@, copy.risk, r.level),
                                            !.alerts = Append(@, Alert(copy, r))]
       [] OTHER             -> [file EXCEPT !.documents = @ + 1]

Saved(p, file) ==
  LET r == session[p].req  copy == session[p].copy
  IN CASE r.kind = "verify" -> [file EXCEPT !.verified = TRUE,
                                            !.by = Merged(@, copy.by, p),
                                            !.risk = Merged(@, copy.risk, r.level)]
       [] r.kind = "assess" -> [file EXCEPT !.risk = Merged(@, copy.risk, r.level),
                                            !.alerts = Append(@, Alert(copy, r))]
       [] OTHER             -> [file EXCEPT !.documents = @ + 1]

\* A verification always sets the time in the row, a new level the level; else
\* there is nothing to wait for.
WritesRow(p) ==
  LET r == session[p].req
  IN r.kind = "verify" \/ (r.kind = "assess" /\ r.level # session[p].copy.risk)

\* risk_level is NOT NULL.
Save(p) ==
  LET r == session[p].req
  IN /\ At(p, "save")
     /\ WritesRow(p) => ~ MustWait(p)
     /\ UNCHANGED shared
     /\ IF r.kind = "verify" /\ r.level = "null" THEN Refuse(p) /\ UNCHANGED <<files, word>>
        ELSE /\ files' = [files EXCEPT ![r.at] = Saved(p, @)]
             /\ word' = [word EXCEPT ![r.at] =
                           CASE r.kind = "verify" -> [risk |-> r.level, by |-> p]
                             [] r.kind = "assess" -> [@ EXCEPT !.risk = r.level]
                             [] OTHER             -> @]
             /\ Goto(p, session[p], Rest(p))
             /\ UNCHANGED <<rows, contended, reopened>>

BeginFile(p, r) ==
  /\ Begin(p, r)
  /\ shared' = IF Assesses(r) /\ \E q \in Sessions :
                      Busy(q) /\ Assesses(session[q].req) /\ session[q].req.at = r.at
               THEN shared \cup {r.at} ELSE shared
  /\ UNCHANGED <<files, word>>

\* A customer that Registry commits comes with its file.
Follow ==
  LET Extended(f, new) == [k \in DOMAIN rows'["customer"] |-> IF k \in DOMAIN f THEN f[k] ELSE new]
  IN /\ files' = Extended(files, Fresh)
     /\ word' = Extended(word, Assessment(Fresh))
     /\ UNCHANGED shared

-----------------------------------------------------------------------------
FilesInit ==
  /\ Init
  /\ files \in [Rows("customer") -> Seeded]
  /\ word = [k \in Rows("customer") |-> Assessment(files[k])]
  /\ shared = {}

FilesNext ==
  \/ Next /\ Follow
  \/ \E p \in Sessions :
       \/ (Read(p) \/ Save(p)) /\ UNCHANGED made
       \/ \E r \in FileRequests : BeginFile(p, r)

FilesSpec == FilesInit /\ [][FilesNext]_<<vars, fileVars>>
-----------------------------------------------------------------------------
(* "Customer must have documents before KYC verification", in whatever order
   documents, verifications and imports commit: a customer whom a request
   verified has some.  The seed script does not keep to it.                 *)
VerifiedWithDocuments ==
  \A k \in Rows("customer") :
    files[k].verified /\ files[k].by \in Sessions => files[k].documents > 0

(* The risk level and the verifier of a customer are those of the last
   assessment that was answered, unless two overlapped on the customer: then
   the file may join the level of one to the name of the other, since a value
   that was read already is not written.                                    *)
UnsharedFileIsTheLastWord ==
  \A k \in Rows("customer") \ shared : Assessment(files[k]) = word[k]

(* On a customer not assessed by two requests at one time, the alert of a
   change of level names the level the file had and the level it has.       *)
AlertTellsTheLevelBefore ==
  [][\A k \in Rows("customer") :
       Len(files'[k].alerts) > Len(files[k].alerts) /\ k \notin shared =>
         files'[k].alerts[Len(files'[k].alerts)] = [old |-> files[k].risk, new |-> files'[k].risk]
    ]_<<vars, fileVars>>
=============================================================================
