----------------------------- MODULE MCRegistry -----------------------------
(***************************************************************************)
(* Registry and CustomerFiles with one main branch, one main vault, one    *)
(* base currency and one customer to begin with, and imports of customers. *)
(***************************************************************************)
EXTENDS CustomerFiles, TLC

CONSTANTS old, new, id1, id2, id3, n1, n2, n3, s1, s2

OpeningMC ==
  [branch   |-> <<[keys |-> {old}, special |-> TRUE, active |-> TRUE]>>,
   vault    |-> <<[keys |-> {old}, special |-> TRUE, active |-> TRUE]>>,
   currency |-> <<[keys |-> {old}, special |-> TRUE, active |-> TRUE]>>,
   customer |-> <<[keys |-> {id3, n3}, special |-> FALSE, active |-> TRUE]>>]

\* One flag, or a branch or currency opened as the special one.
ChangesMC ==
  UNION {[{f} -> BOOLEAN] : f \in Flags} \cup {[f \in Flags |-> TRUE]}

\* A customer under review, and one verified without documents.
SeededMC ==
  {[documents |-> 1, verified |-> FALSE, by |-> "nobody", risk |-> "low", alerts |-> <<>>],
   [documents |-> 0, verified |-> TRUE, by |-> "seed", risk |-> "high", alerts |-> <<>>]}

ImportsMC == {<<{id1}, {id2}>>, <<{id1}, {id1}>>}

AllKinds ==
  {<<"create", "branch">>, <<"update", "branch">>, <<"delete", "branch">>,
   <<"create", "vault">>, <<"update", "vault">>,
   <<"create", "currency">>, <<"update", "currency">>,
   <<"activate", "currency">>, <<"deactivate", "currency">>,
   <<"create", "customer">>, <<"import", "customer">>, <<"deactivate", "customer">>, <<"verify", "customer">>,
   <<"assess", "customer">>, <<"document", "customer">>}

BranchKinds == {<<"create", "branch">>, <<"update", "branch">>, <<"delete", "branch">>}

Symmetry == Permutations({s1, s2}) \cup Permutations({n1, n2})
=============================================================================
