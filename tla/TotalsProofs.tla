---------------------------- MODULE TotalsProofs ----------------------------
(***************************************************************************)
(* What Totals computes, for tables of any length.  The induction theorems *)
(* of the library take an operator, which the provers cannot instantiate;  *)
(* the proofs argue by a least counterexample instead.                     *)
(***************************************************************************)
EXTENDS Totals, FiniteSetTheorems, TLAPS

\* `s` holds the running totals of `w` over rows 0..n.
IsTotals(s, w, n) == /\ s \in [0..n -> Int]
                     /\ s[0] = 0
                     /\ \A k \in 1..n : s[k] = s[k - 1] + w[k]

\* The induction the proofs use: a non-empty set of numbers has a least one.
LEMMA LeastElement ==
  ASSUME NEW S \in SUBSET Nat, S # {}
  PROVE  \E n \in S : \A m \in S : n <= m
<1>1. PICK n \in S : \A m \in S : ~ (<<m, n>> \in OpToRel(<, Nat))
  BY WFMin, NatLessThanWellFounded
<1>2. \A m \in S : ~ (m < n)
  BY <1>1 DEF OpToRel
<1>3. \A m \in S : n <= m
  BY <1>2
<1> QED
  BY <1>3

\* Every finite prefix of a table has running totals: a least prefix without
\* them would be obtained from a shorter one by adding one row.
LEMMA TotalsExist ==
  ASSUME NEW w \in [Nat -> Int]
  PROVE  \A n \in Nat : \E s : IsTotals(s, w, n)
<1> DEFINE Bad == {n \in Nat : ~ \E s : IsTotals(s, w, n)}
<1>1. SUFFICES ASSUME Bad # {} PROVE FALSE
  OBVIOUS
<1>2. PICK n \in Bad : \A m \in Bad : n <= m
  BY <1>1, Bad \in SUBSET Nat, LeastElement
<1>3. n # 0
  <2>1. IsTotals([k \in 0..0 |-> 0], w, 0)
    BY DEF IsTotals
  <2> QED
    BY <2>1, <1>2
<1>4. n \in Nat /\ n - 1 \in Nat /\ n - 1 \notin Bad
  BY <1>2, <1>3
<1>5. PICK s : IsTotals(s, w, n - 1)
  BY <1>4
<1> DEFINE t == [k \in 0..n |-> IF k = n THEN s[n - 1] + w[n] ELSE s[k]]
<1>6. IsTotals(t, w, n)
  <2>1. s \in [0..(n - 1) -> Int] /\ s[0] = 0
        /\ \A k \in 1..(n - 1) : s[k] = s[k - 1] + w[k]
    BY <1>5 DEF IsTotals
  <2>2. w[n] \in Int /\ s[n - 1] \in Int
    BY <2>1, <1>4
  <2>3. t \in [0..n -> Int]
    BY <2>1, <2>2, <1>4
  <2>4. t[0] = 0
    BY <2>1, <1>3, <1>4
  <2>5. ASSUME NEW k \in 1..n PROVE t[k] = t[k - 1] + w[k]
    BY <2>1, <1>4, <2>5
  <2> QED
    BY <2>3, <2>4, <2>5 DEF IsTotals
<1> QED
  BY <1>6, <1>2

\* Running totals are unique where both are defined.
LEMMA TotalsUnique ==
  ASSUME NEW w \in [Nat -> Int], NEW n \in Nat, NEW m \in Nat, n <= m,
         NEW s, NEW t, IsTotals(s, w, n), IsTotals(t, w, m)
  PROVE  \A k \in 0..n : s[k] = t[k]
<1> DEFINE Bad == {k \in 0..n : s[k] # t[k]}
<1>1. SUFFICES ASSUME Bad # {} PROVE FALSE
  OBVIOUS
<1>2. PICK k \in Bad : \A j \in Bad : k <= j
  BY <1>1, Bad \in SUBSET Nat, LeastElement
<1>3. k \in 1..n
  BY <1>2 DEF IsTotals
<1>4. k - 1 \in 0..n /\ k - 1 \notin Bad
  BY <1>2, <1>3
<1>5. s[k - 1] = t[k - 1]
  BY <1>4
<1>6. s[k] = s[k - 1] + w[k] /\ t[k] = t[k - 1] + w[k]
  BY <1>3 DEF IsTotals
<1> QED
  BY <1>2, <1>5, <1>6

\* What the recursive definition computes: 0 rows add up to 0, and one more
\* row adds its amount.
THEOREM TotalDef ==
  ASSUME NEW w \in [Nat -> Int]
  PROVE  /\ Total(w, 0) = 0
         /\ \A n \in Nat : Total(w, n) \in Int
         /\ \A n \in Nat : Total(w, n + 1) = Total(w, n) + w[n + 1]
<1> DEFINE S(n) == CHOOSE s : IsTotals(s, w, n)
           f == [n \in Nat |-> S(n)[n]]
<1>1. \A n \in Nat : IsTotals(S(n), w, n)
  BY TotalsExist
<1> HIDE DEF S
<1>2. \A n \in Nat : f[n] \in Int
  BY <1>1 DEF IsTotals
<1>3. f[0] = 0
  BY <1>1 DEF IsTotals
<1>4. ASSUME NEW n \in Nat PROVE f[n + 1] = f[n] + w[n + 1]
  <2>1. \A k \in 0..n : S(n)[k] = S(n + 1)[k]
    BY <1>1, TotalsUnique
  <2>2. S(n + 1)[n + 1] = S(n + 1)[n] + w[n + 1]
    <3>1. IsTotals(S(n + 1), w, n + 1)
      BY <1>1
    <3>2. n + 1 \in 1..(n + 1) /\ (n + 1) - 1 = n
      OBVIOUS
    <3> QED
      BY <3>1, <3>2 DEF IsTotals
  <2> QED
    BY <2>1, <2>2
<1> DEFINE Def(g) == g = [k \in Nat |-> IF k = 0 THEN 0 ELSE g[k - 1] + w[k]]
<1>5. Def(f)
  <2>1. ASSUME NEW k \in Nat PROVE f[k] = IF k = 0 THEN 0 ELSE f[k - 1] + w[k]
    <3>1. CASE k = 0
      BY <3>1, <1>3
    <3>2. CASE k # 0
      <4>1. k - 1 \in Nat /\ (k - 1) + 1 = k
        BY <3>2
      <4> QED
        BY <4>1, <1>4, <3>2
    <3> QED
      BY <3>1, <3>2
  <2> QED
    BY <2>1
<1> DEFINE u == CHOOSE g : Def(g)
<1>6. Def(u)
  BY <1>5
<1>7. \A n \in Nat : Total(w, n) = u[n]
  BY DEF Total
<1> HIDE DEF u, f
<1>8. u[0] = 0 /\ \A n \in Nat : u[n + 1] = u[n] + w[n + 1]
  <2>1. \A k \in Nat : u[k] = IF k = 0 THEN 0 ELSE u[k - 1] + w[k]
    BY <1>6
  <2>2. \A n \in Nat : n + 1 \in Nat /\ n + 1 # 0 /\ (n + 1) - 1 = n
    OBVIOUS
  <2> QED
    BY <2>1, <2>2
<1>9. \A n \in Nat : u[n] = f[n]
  <2> DEFINE Bad == {n \in Nat : u[n] # f[n]}
  <2>1. SUFFICES ASSUME Bad # {} PROVE FALSE
    OBVIOUS
  <2>2. PICK n \in Bad : \A m \in Bad : n <= m
    BY <2>1, Bad \in SUBSET Nat, LeastElement
  <2>3. n # 0
    BY <2>2, <1>8, <1>3
  <2>4. n - 1 \in Nat /\ n - 1 \notin Bad /\ (n - 1) + 1 = n
    BY <2>2, <2>3
  <2> QED
    BY <2>2, <2>4, <1>8, <1>4
<1> QED
  BY <1>2, <1>7, <1>8, <1>9

-----------------------------------------------------------------------------
\* Tables that agree up to row n have the same total there.
LEMMA TotalAgree ==
  ASSUME NEW w \in [Nat -> Int], NEW v \in [Nat -> Int], NEW n \in Nat,
         \A k \in 1..n : w[k] = v[k]
  PROVE  Total(w, n) = Total(v, n)
<1> DEFINE Bad == {k \in 0..n : Total(w, k) # Total(v, k)}
<1>1. SUFFICES ASSUME Bad # {} PROVE FALSE
  OBVIOUS
<1>2. PICK k \in Bad : \A m \in Bad : k <= m
  BY <1>1, Bad \in SUBSET Nat, LeastElement
<1>3. k # 0
  BY <1>2, TotalDef
<1>4. k \in 1..n /\ k - 1 \in 0..n /\ k - 1 \notin Bad
  BY <1>2, <1>3
<1>5. Total(w, k) = Total(w, k - 1) + w[k] /\ Total(v, k) = Total(v, k - 1) + v[k]
  <2>1. k - 1 \in Nat /\ (k - 1) + 1 = k
    BY <1>4
  <2> QED
    BY <2>1, TotalDef
<1> QED
  BY <1>2, <1>4, <1>5

\* Changing row i changes the totals from row i on by the difference.
LEMMA TotalChange ==
  ASSUME NEW w \in [Nat -> Int], NEW v \in [Nat -> Int], NEW n \in Nat,
         NEW i \in 1..n, \A k \in 1..n : k # i => w[k] = v[k]
  PROVE  Total(v, n) = Total(w, n) + v[i] - w[i]
<1> DEFINE Bad == {k \in i..n : Total(v, k) # Total(w, k) + v[i] - w[i]}
<1>1. SUFFICES ASSUME Bad # {} PROVE FALSE
  <2>1. Bad = {} => n \notin Bad /\ n \in i..n
    OBVIOUS
  <2> QED
    BY <2>1
<1>2. PICK k \in Bad : \A m \in Bad : k <= m
  BY <1>1, Bad \in SUBSET Nat, LeastElement
<1>3. k \in Nat /\ k - 1 \in Nat /\ (k - 1) + 1 = k /\ k \in 1..n
  BY <1>2
<1>4. Total(w, k) = Total(w, k - 1) + w[k] /\ Total(v, k) = Total(v, k - 1) + v[k]
  BY <1>3, TotalDef
<1>5. /\ Total(w, k - 1) \in Int /\ Total(v, k - 1) \in Int
      /\ w[k] \in Int /\ v[k] \in Int /\ w[i] \in Int /\ v[i] \in Int
  BY <1>3, TotalDef
<1>6. CASE k = i
  <2>1. Total(w, k - 1) = Total(v, k - 1)
    BY <1>3, <1>6, TotalAgree
  <2> QED
    BY <2>1, <1>2, <1>4, <1>5, <1>6
<1>7. CASE k # i
  <2>1. k - 1 \in i..n /\ k - 1 \notin Bad
    BY <1>2, <1>3, <1>7
  <2>2. w[k] = v[k]
    BY <1>3, <1>7
  <2> QED
    BY <2>1, <2>2, <1>2, <1>4, <1>5
<1> QED
  BY <1>6, <1>7

\* A total of non-negative rows is at least each of them.
LEMMA TotalCovers ==
  ASSUME NEW w \in [Nat -> Nat], NEW n \in Nat
  PROVE  Total(w, n) \in Nat /\ \A i \in 1..n : w[i] <= Total(w, n)
<1> DEFINE Good(k) == Total(w, k) \in Nat /\ \A i \in 1..k : w[i] <= Total(w, k)
           Bad == {k \in Nat : ~ Good(k)}
<1>1. SUFFICES ASSUME Bad # {} PROVE FALSE
  OBVIOUS
<1>2. PICK k \in Bad : \A m \in Bad : k <= m
  BY <1>1, Bad \in SUBSET Nat, LeastElement
<1>w. w \in [Nat -> Int]
  OBVIOUS
<1>3. k # 0
  <2>1. Good(0)
    BY <1>w, TotalDef
  <2> QED
    BY <2>1, <1>2
<1>4. k \in Nat /\ k - 1 \in Nat /\ (k - 1) + 1 = k /\ k - 1 \notin Bad
  BY <1>2, <1>3
<1>5. Good(k - 1)
  BY <1>4
<1>6. Total(w, k) = Total(w, k - 1) + w[k]
  BY <1>4, <1>w, TotalDef
<1>7. w[k] \in Nat
  BY <1>4
<1>8. Total(w, k) \in Nat
  BY <1>5, <1>6, <1>7
<1>9. ASSUME NEW i \in 1..k PROVE w[i] <= Total(w, k)
  <2>1. CASE i = k
    BY <2>1, <1>5, <1>6, <1>7
  <2>2. CASE i # k
    <3>1. i \in 1..(k - 1)
      BY <2>2, <1>4
    <3>2. w[i] \in Nat /\ w[i] <= Total(w, k - 1)
      BY <3>1, <1>5
    <3> QED
      BY <3>2, <1>5, <1>6, <1>7
  <2> QED
    BY <2>1, <2>2
<1> QED
  BY <1>2, <1>8, <1>9

-----------------------------------------------------------------------------
(* The same for sequences.                                                 *)

\* The sum of a sequence of integers is an integer, 0 for the empty one.
THEOREM TotalOfType ==
  ASSUME NEW s \in Seq(Int)
  PROVE  TotalOf(s) \in Int /\ (s = <<>> => TotalOf(s) = 0)
BY Padded(s) \in [Nat -> Int], TotalDef, Len(s) \in Nat DEF TotalOf, Padded

\* One more element adds itself.
THEOREM TotalOfAppend ==
  ASSUME NEW s \in Seq(Int), NEW v \in Int
  PROVE  TotalOf(Append(s, v)) = TotalOf(s) + v
<1> DEFINE t == Append(s, v)
           n == Len(s)
<1>1. t \in Seq(Int) /\ n \in Nat /\ Len(t) = n + 1 /\ t[n + 1] = v
      /\ \A k \in 1..n : t[k] = s[k]
  OBVIOUS
<1>2. Padded(s) \in [Nat -> Int] /\ Padded(t) \in [Nat -> Int]
  BY <1>1 DEF Padded
<1>3. Padded(t)[n + 1] = v /\ \A k \in 1..n : Padded(t)[k] = Padded(s)[k]
  <2>1. n + 1 \in Nat /\ n + 1 \in 1..Len(t) /\ \A k \in 1..n : k \in 1..Len(t)
    BY <1>1
  <2> QED
    BY <2>1, <1>1 DEF Padded
<1> HIDE DEF t, n
<1>4. Total(Padded(t), n + 1) = Total(Padded(t), n) + Padded(t)[n + 1]
  BY <1>1, <1>2, TotalDef
<1>5. Total(Padded(t), n) = Total(Padded(s), n)
  BY <1>1, <1>2, <1>3, TotalAgree
<1>6. TotalOf(t) = TotalOf(s) + v
  BY <1>1, <1>3, <1>4, <1>5 DEF TotalOf, n
<1> QED
  BY <1>6 DEF t

\* Replacing an element changes the sum by the difference.
THEOREM TotalOfExcept ==
  ASSUME NEW s \in Seq(Int), NEW i \in 1..Len(s), NEW v \in Int
  PROVE  TotalOf([s EXCEPT ![i] = v]) = TotalOf(s) + v - s[i]
<1> DEFINE t == [s EXCEPT ![i] = v]
<1>1. t \in Seq(Int) /\ Len(t) = Len(s) /\ t[i] = v
      /\ \A k \in 1..Len(s) : k # i => t[k] = s[k]
  OBVIOUS
<1>2. Padded(s) \in [Nat -> Int] /\ Padded(t) \in [Nat -> Int]
  BY <1>1 DEF Padded
<1>3. Padded(s)[i] = s[i] /\ Padded(t)[i] = v
      /\ \A k \in 1..Len(s) : k # i => Padded(s)[k] = Padded(t)[k]
  BY <1>1 DEF Padded
<1> HIDE DEF t
<1>4. Len(s) \in Nat
  OBVIOUS
<1>5. Total(Padded(t), Len(s))
        = Total(Padded(s), Len(s)) + Padded(t)[i] - Padded(s)[i]
  BY <1>2, <1>3, <1>4, TotalChange
<1>6. TotalOf(t) = TotalOf(s) + v - s[i]
  BY <1>1, <1>3, <1>5 DEF TotalOf
<1> QED
  BY <1>6 DEF t

\* A sum of amounts that are not negative is at least each of them.
THEOREM TotalOfCovers ==
  ASSUME NEW s \in Seq(Nat), NEW i \in 1..Len(s)
  PROVE  s[i] <= TotalOf(s)
<1>1. Padded(s) \in [Nat -> Nat] /\ Padded(s)[i] = s[i] /\ Len(s) \in Nat
  BY DEF Padded
<1> QED
  BY <1>1, TotalCovers DEF TotalOf

\* Zeros add up to zero.
THEOREM TotalOfZeros ==
  ASSUME NEW s \in Seq(Int), \A i \in 1..Len(s) : s[i] = 0
  PROVE  TotalOf(s) = 0
<1> DEFINE zero == [k \in Nat |-> 0]
           Bad == {k \in Nat : Total(zero, k) # 0}
<1>1. zero \in [Nat -> Int]
  OBVIOUS
<1>2. Bad = {}
  <2>1. SUFFICES ASSUME Bad # {} PROVE FALSE
    OBVIOUS
  <2>2. PICK k \in Bad : \A m \in Bad : k <= m
    BY <2>1, Bad \in SUBSET Nat, LeastElement
  <2> HIDE DEF zero
  <2>3. k # 0
    BY <1>1, <2>2, TotalDef
  <2>4. k - 1 \in Nat /\ (k - 1) + 1 = k /\ k - 1 \notin Bad
    BY <2>2, <2>3
  <2>5. Total(zero, k) = Total(zero, k - 1) + zero[k]
    BY <1>1, <2>4, TotalDef
  <2>6. zero[k] = 0
    BY DEF zero
  <2> QED
    BY <2>2, <2>4, <2>5, <2>6
<1>3. Len(s) \in Nat /\ Padded(s) \in [Nat -> Int]
      /\ \A k \in 1..Len(s) : Padded(s)[k] = zero[k]
  BY DEF Padded
<1> HIDE DEF zero
<1>4. Total(Padded(s), Len(s)) = Total(zero, Len(s))
  BY <1>1, <1>3, TotalAgree
<1> QED
  BY <1>2, <1>3, <1>4 DEF TotalOf

-----------------------------------------------------------------------------
(* What SumFunction of the community modules computes, for any finite set. *)

\* The induction for finite sets: what holds of {}, and of T when it holds of T
\* without one of its elements, holds of all.  `Good` are the subsets it holds of.
LEMMA SubsetInduction ==
  ASSUME NEW S, IsFiniteSet(S), NEW Good, {} \in Good,
         \A T \in SUBSET S : T # {} /\ (\A x \in T : T \ {x} \in Good) => T \in Good
  PROVE  \A T \in SUBSET S : T \in Good
<1> DEFINE Bad == {T \in SUBSET S : T \notin Good}
<1>1. SUFFICES ASSUME Bad # {} PROVE FALSE
  OBVIOUS
<1>2. Bad \subseteq FiniteSubsetsOf(S)
  BY FS_FiniteSubsetsOfFinite
<1>3. PICK T \in Bad : \A U \in Bad : ~ (<<U, T>> \in StrictSubsetOrdering(S))
  <2> HIDE DEF Bad
  <2> QED
    BY <1>1, <1>2, WFMin, FS_StrictSubsetOrderingWellFounded
<1>4. T # {}
  BY <1>3
<1>5. \A x \in T : T \ {x} \in Good
  <2> SUFFICES ASSUME NEW x \in T, T \ {x} \notin Good PROVE FALSE
    OBVIOUS
  <2>1. T \ {x} \in Bad
    BY <1>3
  <2>2. <<T \ {x}, T>> \in StrictSubsetOrdering(S)
    BY <1>3 DEF StrictSubsetOrdering
  <2> QED
    BY <1>3, <2>1, <2>2
<1> QED
  BY <1>3, <1>4, <1>5

-----------------------------------------------------------------------------
\* The element SumFunction takes next, and its equation for the subsets of S.
Chosen(T) == CHOOSE x \in T : TRUE

IsSum(g, f, S) ==
  g = [T \in SUBSET S |-> IF T = {} THEN 0 ELSE f[Chosen(T)] + g[T \ {Chosen(T)}]]

\* Two solutions agree where both are defined.
LEMMA SumsUnique ==
  ASSUME NEW f, NEW e, NEW S, IsFiniteSet(S), NEW U \in SUBSET S, \A x \in U : f[x] = e[x],
         NEW g, NEW h, IsSum(g, f, U), IsSum(h, e, S)
  PROVE  \A T \in SUBSET U : g[T] = h[T]
<1> DEFINE Good == {T \in SUBSET U : g[T] = h[T]}
<1>1. IsFiniteSet(U)
  BY FS_Subset
<1>2. \A T \in SUBSET U : g[T] = IF T = {} THEN 0 ELSE f[Chosen(T)] + g[T \ {Chosen(T)}]
  BY DEF IsSum
<1>3. \A T \in SUBSET U : h[T] = IF T = {} THEN 0 ELSE e[Chosen(T)] + h[T \ {Chosen(T)}]
  BY DEF IsSum
<1>4. {} \in Good
  BY <1>2, <1>3
<1>5. ASSUME NEW T \in SUBSET U, T # {}, \A x \in T : T \ {x} \in Good PROVE T \in Good
  <2>1. Chosen(T) \in T
    BY <1>5 DEF Chosen
  <2>2. g[T \ {Chosen(T)}] = h[T \ {Chosen(T)}]
    BY <1>5, <2>1
  <2> QED
    BY <1>2, <1>3, <1>5, <2>1, <2>2
<1>6. \A T \in SUBSET U : T \in Good
  <2> HIDE DEF Good
  <2> QED
    BY <1>1, <1>4, <1>5, SubsetInduction
<1> QED
  BY <1>6

\* There is one.
LEMMA SumsExist ==
  ASSUME NEW f, NEW S, IsFiniteSet(S)
  PROVE  \A U \in SUBSET S : \E g : IsSum(g, f, U)
<1> DEFINE Good == {U \in SUBSET S : \E g : IsSum(g, f, U)}
<1>1. {} \in Good
  <2>1. IsSum([T \in SUBSET {} |-> 0], f, {})
    BY DEF IsSum
  <2> QED
    BY <2>1
<1>2. ASSUME NEW U \in SUBSET S, U # {}, \A x \in U : U \ {x} \in Good PROVE U \in Good
  <2> DEFINE h(x) == CHOOSE g : IsSum(g, f, U \ {x})
             Of(T) == CHOOSE x \in U : x \notin T
             r == [T \in SUBSET U |->
                     IF T # U THEN h(Of(T))[T]
                     ELSE f[Chosen(U)] + h(Chosen(U))[U \ {Chosen(U)}]]
  <2>1. \A x \in U : IsSum(h(x), f, U \ {x})
    BY <1>2
  <2>2. \A T \in SUBSET U : T # U => Of(T) \in U /\ T \in SUBSET (U \ {Of(T)})
    OBVIOUS
  <2>3. Chosen(U) \in U
    BY <1>2 DEF Chosen
  <2> HIDE DEF h, Of
  <2>4. ASSUME NEW x \in U, NEW y \in U, NEW T \in SUBSET U, x \notin T, y \notin T
        PROVE  h(x)[T] = h(y)[T]
    <3>1. /\ IsFiniteSet(U \ {x}) /\ T \in SUBSET (U \ {x})
          /\ IsFiniteSet(U \ {y}) /\ T \in SUBSET (U \ {y})
      BY <2>4, FS_Subset
    <3>2. PICK k : IsSum(k, f, T)
      <4>1. IsSum([A \in SUBSET T |-> h(x)[A]], f, T)
        <5> DEFINE q == [A \in SUBSET T |-> h(x)[A]]
        <5>1. \A A \in SUBSET (U \ {x}) :
                h(x)[A] = IF A = {} THEN 0 ELSE f[Chosen(A)] + h(x)[A \ {Chosen(A)}]
          BY <2>1 DEF IsSum
        <5>2. \A A \in SUBSET T :
                h(x)[A] = IF A = {} THEN 0 ELSE f[Chosen(A)] + q[A \ {Chosen(A)}]
          BY <3>1, <5>1
        <5>3. q = [A \in SUBSET T |-> h(x)[A]]
          OBVIOUS
        <5> HIDE DEF q
        <5>4. q = [A \in SUBSET T |->
                     IF A = {} THEN 0 ELSE f[Chosen(A)] + q[A \ {Chosen(A)}]]
          BY <5>2, <5>3
        <5> QED
          BY <5>3, <5>4 DEF IsSum
      <4> QED
        BY <4>1
    <3>3. k[T] = h(x)[T]
      <4>1. IsSum(h(x), f, U \ {x})
        BY <2>1
      <4>2. \A A \in SUBSET T : k[A] = h(x)[A]
        BY <3>1, <3>2, <4>1, SumsUnique
      <4> QED
        BY <4>2
    <3>4. k[T] = h(y)[T]
      <4>1. IsSum(h(y), f, U \ {y})
        BY <2>1
      <4>2. \A A \in SUBSET T : k[A] = h(y)[A]
        BY <3>1, <3>2, <4>1, SumsUnique
      <4> QED
        BY <4>2
    <3> QED
      BY <3>3, <3>4
  <2>5. ASSUME NEW T \in SUBSET U
        PROVE  r[T] = IF T = {} THEN 0 ELSE f[Chosen(T)] + r[T \ {Chosen(T)}]
    <3>1. CASE T = U
      <4>1. r[T] = f[Chosen(U)] + h(Chosen(U))[U \ {Chosen(U)}]
        BY <3>1
      <4>2. U \ {Chosen(U)} \in SUBSET U /\ U \ {Chosen(U)} # U
        BY <2>3
      <4>3. r[U \ {Chosen(U)}] = h(Of(U \ {Chosen(U)}))[U \ {Chosen(U)}]
        BY <4>2
      <4>4. Of(U \ {Chosen(U)}) \in U /\ Of(U \ {Chosen(U)}) \notin U \ {Chosen(U)}
        BY <2>2, <4>2
      <4>5. r[U \ {Chosen(U)}] = h(Chosen(U))[U \ {Chosen(U)}]
        BY <2>3, <2>4, <4>2, <4>3, <4>4
      <4> QED
        BY <1>2, <3>1, <4>1, <4>5
    <3>2. CASE T # U
      <4>1. r[T] = h(Of(T))[T] /\ Of(T) \in U /\ T \in SUBSET (U \ {Of(T)})
        BY <2>2, <3>2
      <4>2. h(Of(T))[T] = IF T = {} THEN 0 ELSE f[Chosen(T)] + h(Of(T))[T \ {Chosen(T)}]
        BY <2>1, <4>1 DEF IsSum
      <4>3. CASE T # {}
        <5>1. Chosen(T) \in T
          BY <4>3 DEF Chosen
        <5>2. T \ {Chosen(T)} \in SUBSET U /\ T \ {Chosen(T)} # U
          BY <5>1
        <5>3. r[T \ {Chosen(T)}] = h(Of(T \ {Chosen(T)}))[T \ {Chosen(T)}]
          BY <5>2
        <5>4. Of(T \ {Chosen(T)}) \in U /\ Of(T \ {Chosen(T)}) \notin T \ {Chosen(T)}
          BY <2>2, <5>2
        <5>5. Of(T) \notin T \ {Chosen(T)}
          BY <4>1
        <5>6. h(Of(T \ {Chosen(T)}))[T \ {Chosen(T)}] = h(Of(T))[T \ {Chosen(T)}]
          BY <2>4, <4>1, <5>2, <5>4, <5>5
        <5> QED
          BY <4>1, <4>2, <4>3, <5>3, <5>6
      <4> QED
        BY <4>1, <4>2, <4>3
    <3> QED
      BY <3>1, <3>2
  <2>6. IsSum(r, f, U)
    <3> HIDE DEF r
    <3>1. r = [T \in SUBSET U |-> r[T]]
      BY DEF r
    <3> QED
      BY <2>5, <3>1 DEF IsSum
  <2> QED
    BY <2>6
<1>3. \A U \in SUBSET S : U \in Good
  <2> HIDE DEF Good
  <2> QED
    BY <1>1, <1>2, SubsetInduction
<1> QED
  BY <1>3

\* The sum of f over T.
SumOver(f, T) == SumFunction([x \in T |-> f[x]])

\* SumFunction is a value of the solution.
LEMMA SumFunctionDef ==
  ASSUME NEW S, IsFiniteSet(S), NEW f, DOMAIN f = S
  PROVE  \E g : IsSum(g, f, S) /\ SumFunction(f) = g[S]
<1> DEFINE g == CHOOSE g : IsSum(g, f, S)
<1>1. IsSum(g, f, S)
  BY SumsExist
<1>2. SumFunction(f) = g[S]
  BY DEF SumFunction, SumFunctionOnSet, FoldFunctionOnSet, MapThenFoldSet, IsSum, Chosen
<1> QED
  BY <1>1, <1>2

\* The recursive equation of SumOver on the subsets of a finite set.
LEMMA SumOverDef ==
  ASSUME NEW S, IsFiniteSet(S), NEW f
  PROVE  /\ SumOver(f, {}) = 0
         /\ \A T \in SUBSET S : T # {} =>
              /\ Chosen(T) \in T
              /\ SumOver(f, T) = f[Chosen(T)] + SumOver(f, T \ {Chosen(T)})
<1>1. PICK g : IsSum(g, f, S)
  BY SumsExist
<1>2. ASSUME NEW T \in SUBSET S PROVE SumOver(f, T) = g[T]
  <2> DEFINE e == [x \in T |-> f[x]]
  <2>1. DOMAIN e = T /\ \A x \in T : e[x] = f[x]
    OBVIOUS
  <2>2. SumOver(f, T) = SumFunction(e)
    BY DEF SumOver
  <2> HIDE DEF e
  <2>3. IsFiniteSet(T)
    BY FS_Subset
  <2>4. PICK h : IsSum(h, e, T) /\ SumFunction(e) = h[T]
    BY <2>1, <2>3, SumFunctionDef
  <2>5. \A A \in SUBSET T : h[A] = g[A]
    BY <1>1, <2>1, <2>4, SumsUnique
  <2> QED
    BY <2>2, <2>4, <2>5
<1>3. \A T \in SUBSET S : g[T] = IF T = {} THEN 0 ELSE f[Chosen(T)] + g[T \ {Chosen(T)}]
  BY <1>1 DEF IsSum
<1>4. \A T \in SUBSET S : T # {} => Chosen(T) \in T
  BY DEF Chosen
<1> HIDE DEF SumOver
<1> QED
  BY <1>2, <1>3, <1>4

\* The same for one set.
LEMMA SumOverChosen ==
  ASSUME NEW T, IsFiniteSet(T), T # {}, NEW f
  PROVE  Chosen(T) \in T /\ SumOver(f, T) = f[Chosen(T)] + SumOver(f, T \ {Chosen(T)})
<1>1. T \in SUBSET T
  OBVIOUS
<1> QED
  BY <1>1, SumOverDef

\* A sum of integers over a subset of a finite set is an integer.
LEMMA SumOverType ==
  ASSUME NEW S, IsFiniteSet(S), NEW f, \A x \in S : f[x] \in Int
  PROVE  \A T \in SUBSET S : SumOver(f, T) \in Int
<1> DEFINE Good == {T \in SUBSET S : SumOver(f, T) \in Int}
<1>1. {} \in Good
  BY SumOverDef
<1>2. ASSUME NEW T \in SUBSET S, T # {}, \A x \in T : T \ {x} \in Good PROVE T \in Good
  <2>0. IsFiniteSet(T)
    BY FS_Subset
  <2>1. Chosen(T) \in T /\ SumOver(f, T) = f[Chosen(T)] + SumOver(f, T \ {Chosen(T)})
    BY <1>2, <2>0, SumOverChosen
  <2>2. SumOver(f, T \ {Chosen(T)}) \in Int /\ f[Chosen(T)] \in Int
    BY <1>2, <2>1
  <2> QED
    BY <2>1, <2>2
<1>3. \A T \in SUBSET S : T \in Good
  <2> HIDE DEF Good
  <2> QED
    BY <1>1, <1>2, SubsetInduction
<1> QED
  BY <1>3

\* Whichever element is taken first, the sum is the same.
LEMMA SumOverRemove ==
  ASSUME NEW S, IsFiniteSet(S), NEW f, \A x \in S : f[x] \in Int
  PROVE  \A T \in SUBSET S : \A x \in T : SumOver(f, T) = f[x] + SumOver(f, T \ {x})
<1> DEFINE Good == {T \in SUBSET S : \A x \in T : SumOver(f, T) = f[x] + SumOver(f, T \ {x})}
<1>1. {} \in Good
  OBVIOUS
<1>2. ASSUME NEW T \in SUBSET S, T # {}, \A x \in T : T \ {x} \in Good PROVE T \in Good
  <2> SUFFICES ASSUME NEW x \in T PROVE SumOver(f, T) = f[x] + SumOver(f, T \ {x})
    OBVIOUS
  <2>1. PICK c \in T : SumOver(f, T) = f[c] + SumOver(f, T \ {c})
    <3> HIDE DEF Good
    <3>1. IsFiniteSet(T) /\ T # {}
      BY FS_Subset
    <3>2. Chosen(T) \in T /\ SumOver(f, T) = f[Chosen(T)] + SumOver(f, T \ {Chosen(T)})
      BY <3>1, SumOverChosen
    <3> QED
      BY <3>2
  <2> DEFINE A == T \ {c, x}
  <2>2. CASE x = c
    BY <2>1, <2>2
  <2>3. CASE x # c
    <3>1. x \in T \ {c} /\ T \ {c} \in Good /\ (T \ {c}) \ {x} = A
      BY <1>2, <2>1, <2>3
    <3>2. c \in T \ {x} /\ T \ {x} \in Good /\ (T \ {x}) \ {c} = A
      BY <1>2, <2>1, <2>3
    <3> HIDE DEF A
    <3>3. SumOver(f, T \ {c}) = f[x] + SumOver(f, A)
      BY <3>1
    <3>4. SumOver(f, T \ {x}) = f[c] + SumOver(f, A)
      BY <3>2
    <3>5. A \in SUBSET S /\ x \in S /\ c \in S
      BY <2>1 DEF A
    <3>6. f[x] \in Int /\ f[c] \in Int /\ SumOver(f, A) \in Int
      BY <3>5, SumOverType
    <3> QED
      BY <2>1, <3>3, <3>4, <3>6
  <2> QED
    BY <2>2, <2>3
<1>3. \A T \in SUBSET S : T \in Good
  <2> HIDE DEF Good
  <2> QED
    BY <1>1, <1>2, SubsetInduction
<1> QED
  BY <1>3

\* What remains when an element is left out.
LEMMA SumStep ==
  ASSUME NEW S, IsFiniteSet(S), NEW f, \A x \in S : f[x] \in Int, NEW x \in S
  PROVE  /\ SumOver(f, S) \in Int /\ SumOver(f, S \ {x}) \in Int
         /\ SumOver(f, S) = f[x] + SumOver(f, S \ {x})
<1>1. S \in SUBSET S /\ S \ {x} \in SUBSET S
  OBVIOUS
<1> QED
  BY <1>1, SumOverType, SumOverRemove

\* Zeros add up to zero.
LEMMA SumZeros ==
  ASSUME NEW S, IsFiniteSet(S), NEW f, \A x \in S : f[x] = 0
  PROVE  SumOver(f, S) = 0
<1> DEFINE Good == {T \in SUBSET S : SumOver(f, T) = 0}
<1>1. {} \in Good
  BY SumOverDef
<1>2. ASSUME NEW T \in SUBSET S, T # {}, \A x \in T : T \ {x} \in Good PROVE T \in Good
  <2>1. PICK x \in T : T \ {x} \in Good
    BY <1>2
  <2>2. IsFiniteSet(T) /\ \A y \in T : f[y] \in Int
    BY FS_Subset
  <2>3. SumOver(f, T) = f[x] + SumOver(f, T \ {x})
    BY <2>2, SumStep
  <2>4. f[x] = 0
    OBVIOUS
  <2> QED
    BY <2>1, <2>3, <2>4
<1>3. S \in Good
  <2> HIDE DEF Good
  <2>1. \A T \in SUBSET S : T \in Good
    BY <1>1, <1>2, SubsetInduction
  <2> QED
    BY <2>1
<1> QED
  BY <1>3

\* A sum of sums is the sum of the sums.
LEMMA SumPlus ==
  ASSUME NEW S, IsFiniteSet(S), NEW f, NEW g, NEW h,
         \A x \in S : f[x] \in Int /\ g[x] \in Int /\ h[x] = f[x] + g[x]
  PROVE  SumOver(h, S) = SumOver(f, S) + SumOver(g, S)
<1> DEFINE Good == {T \in SUBSET S : SumOver(h, T) = SumOver(f, T) + SumOver(g, T)}
<1>1. {} \in Good
  BY SumOverDef
<1>2. ASSUME NEW T \in SUBSET S, T # {}, \A x \in T : T \ {x} \in Good PROVE T \in Good
  <2>1. PICK x \in T : T \ {x} \in Good
    BY <1>2
  <2>2. IsFiniteSet(T)
    BY FS_Subset
  <2>3. \A y \in T : f[y] \in Int /\ g[y] \in Int /\ h[y] \in Int
    OBVIOUS
  <2>4. /\ SumOver(f, T) = f[x] + SumOver(f, T \ {x}) /\ SumOver(f, T \ {x}) \in Int
    BY <2>2, <2>3, SumStep
  <2>5. /\ SumOver(g, T) = g[x] + SumOver(g, T \ {x}) /\ SumOver(g, T \ {x}) \in Int
    BY <2>2, <2>3, SumStep
  <2>6. SumOver(h, T) = h[x] + SumOver(h, T \ {x})
    BY <2>2, <2>3, SumStep
  <2>7. h[x] = f[x] + g[x] /\ f[x] \in Int /\ g[x] \in Int
    OBVIOUS
  <2>8. SumOver(h, T \ {x}) = SumOver(f, T \ {x}) + SumOver(g, T \ {x})
    BY <2>1
  <2>9. SumOver(h, T) = SumOver(f, T) + SumOver(g, T)
    BY <2>4, <2>5, <2>6, <2>7, <2>8
  <2> QED
    BY <2>9
<1>3. S \in Good
  <2> HIDE DEF Good
  <2>1. \A T \in SUBSET S : T \in Good
    BY <1>1, <1>2, SubsetInduction
  <2> QED
    BY <2>1
<1> QED
  BY <1>3

\* The sum over two sets without a common element.
LEMMA SumUnion ==
  ASSUME NEW S, IsFiniteSet(S), NEW B, IsFiniteSet(B), S \cap B = {},
         NEW f, \A x \in S \cup B : f[x] \in Int
  PROVE  SumOver(f, S \cup B) = SumOver(f, S) + SumOver(f, B)
<1> DEFINE Good == {T \in SUBSET S : SumOver(f, T \cup B) = SumOver(f, T) + SumOver(f, B)}
<1>0. SumOver(f, B) \in Int /\ {} \cup B = B
  BY SumOverType
<1>1. {} \in Good
  BY <1>0, SumOverDef
<1>2. ASSUME NEW T \in SUBSET S, T # {}, \A x \in T : T \ {x} \in Good PROVE T \in Good
  <2>1. PICK x \in T : T \ {x} \in Good
    BY <1>2
  <2>2. IsFiniteSet(T) /\ IsFiniteSet(T \cup B)
    BY FS_Subset, FS_Union
  <2>3. x \in T \cup B /\ (T \cup B) \ {x} = (T \ {x}) \cup B /\ f[x] \in Int
    OBVIOUS
  <2>4. /\ SumOver(f, T) = f[x] + SumOver(f, T \ {x}) /\ SumOver(f, T \ {x}) \in Int
    BY <2>2, SumStep
  <2>5. SumOver(f, T \cup B) = f[x] + SumOver(f, (T \ {x}) \cup B)
    BY <2>2, <2>3, SumStep
  <2>6. SumOver(f, (T \ {x}) \cup B) = SumOver(f, T \ {x}) + SumOver(f, B)
    BY <2>1
  <2>7. SumOver(f, T \cup B) = SumOver(f, T) + SumOver(f, B)
    BY <1>0, <2>3, <2>4, <2>5, <2>6
  <2> QED
    BY <2>7
<1>3. S \in Good
  <2> HIDE DEF Good
  <2>1. \A T \in SUBSET S : T \in Good
    BY <1>1, <1>2, SubsetInduction
  <2> QED
    BY <2>1
<1> QED
  BY <1>3

\* What adds nothing may be left out.
LEMMA SumFilter ==
  ASSUME NEW S, IsFiniteSet(S), NEW T \in SUBSET S, NEW f, \A x \in S : f[x] \in Int,
         \A x \in S \ T : f[x] = 0
  PROVE  SumOver(f, S) = SumOver(f, T)
<1>1. IsFiniteSet(T) /\ IsFiniteSet(S \ T) /\ T \cap (S \ T) = {} /\ T \cup (S \ T) = S
  BY FS_Subset
<1>2. SumOver(f, S \ T) = 0
  BY <1>1, SumZeros
<1>3. SumOver(f, S) = SumOver(f, T) + SumOver(f, S \ T)
  <2>1. \A x \in T \cup (S \ T) : f[x] \in Int
    OBVIOUS
  <2>2. SumOver(f, T \cup (S \ T)) = SumOver(f, T) + SumOver(f, S \ T)
    BY <1>1, <2>1, SumUnion
  <2> QED
    BY <1>1, <2>2
<1>4. SumOver(f, T) \in Int
  BY SumOverType
<1> QED
  BY <1>2, <1>3, <1>4

\* One element adds all there is.
LEMMA SumSingle ==
  ASSUME NEW S, IsFiniteSet(S), NEW y \in S, NEW f, f[y] \in Int,
         \A x \in S : x # y => f[x] = 0
  PROVE  SumOver(f, S) = f[y]
<1>1. \A x \in S : f[x] \in Int
  OBVIOUS
<1>2. SumOver(f, S) = f[y] + SumOver(f, S \ {y})
  BY <1>1, SumStep
<1>3. IsFiniteSet(S \ {y})
  BY FS_Subset
<1>4. SumOver(f, S \ {y}) = 0
  BY <1>3, SumZeros
<1> QED
  BY <1>2, <1>4

\* Ones count.
LEMMA SumOnes ==
  ASSUME NEW S, IsFiniteSet(S), NEW f, \A x \in S : f[x] = 1
  PROVE  SumOver(f, S) = Cardinality(S)
<1> DEFINE Good == {T \in SUBSET S : SumOver(f, T) = Cardinality(T)}
<1>1. {} \in Good
  BY SumOverDef, FS_EmptySet
<1>2. ASSUME NEW T \in SUBSET S, T # {}, \A x \in T : T \ {x} \in Good PROVE T \in Good
  <2>1. PICK x \in T : T \ {x} \in Good
    BY <1>2
  <2>2. IsFiniteSet(T) /\ \A y \in T : f[y] \in Int
    BY FS_Subset
  <2>3. SumOver(f, T) = f[x] + SumOver(f, T \ {x})
    BY <2>2, SumStep
  <2>4. f[x] = 1
    OBVIOUS
  <2>5. Cardinality(T \ {x}) = Cardinality(T) - 1 /\ Cardinality(T) \in Nat
    BY <2>2, FS_RemoveElement, FS_CardinalityType
  <2>6. SumOver(f, T \ {x}) = Cardinality(T \ {x})
    BY <2>1
  <2>7. SumOver(f, T) = Cardinality(T)
    BY <2>3, <2>4, <2>5, <2>6
  <2> QED
    BY <2>7
<1>3. S \in Good
  <2> HIDE DEF Good
  <2>1. \A T \in SUBSET S : T \in Good
    BY <1>1, <1>2, SubsetInduction
  <2> QED
    BY <2>1
<1> QED
  BY <1>3

\* What is not negative does not add up to less than nothing.
LEMMA SumNat ==
  ASSUME NEW S, IsFiniteSet(S), NEW f, \A x \in S : f[x] \in Nat
  PROVE  SumOver(f, S) \in Nat
<1> DEFINE Good == {T \in SUBSET S : SumOver(f, T) \in Nat}
<1>1. {} \in Good
  BY SumOverDef
<1>2. ASSUME NEW T \in SUBSET S, T # {}, \A x \in T : T \ {x} \in Good PROVE T \in Good
  <2>1. PICK x \in T : T \ {x} \in Good
    BY <1>2
  <2>2. IsFiniteSet(T) /\ \A y \in T : f[y] \in Int
    BY FS_Subset
  <2>3. SumOver(f, T) = f[x] + SumOver(f, T \ {x})
    BY <2>2, SumStep
  <2>4. f[x] \in Nat /\ SumOver(f, T \ {x}) \in Nat
    BY <2>1
  <2>5. SumOver(f, T) \in Nat
    BY <2>3, <2>4
  <2> QED
    BY <2>5
<1>3. S \in Good
  <2> HIDE DEF Good
  <2>1. \A T \in SUBSET S : T \in Good
    BY <1>1, <1>2, SubsetInduction
  <2> QED
    BY <2>1
<1> QED
  BY <1>3

\* More rows add up to no less.
LEMMA SumMonotone ==
  ASSUME NEW S, IsFiniteSet(S), NEW T \in SUBSET S, NEW f, \A x \in S : f[x] \in Nat
  PROVE  SumOver(f, T) <= SumOver(f, S)
<1>1. IsFiniteSet(T) /\ IsFiniteSet(S \ T) /\ T \cap (S \ T) = {} /\ T \cup (S \ T) = S
  BY FS_Subset
<1>2. SumOver(f, S) = SumOver(f, T) + SumOver(f, S \ T)
  <2>1. \A x \in T \cup (S \ T) : f[x] \in Int
    OBVIOUS
  <2>2. SumOver(f, T \cup (S \ T)) = SumOver(f, T) + SumOver(f, S \ T)
    BY <1>1, <2>1, SumUnion
  <2> QED
    BY <1>1, <2>2
<1>3. SumOver(f, T) \in Nat /\ SumOver(f, S \ T) \in Nat
  BY <1>1, SumNat
<1> QED
  BY <1>2, <1>3

\* The sum is that of the values alone.
LEMMA SumAgree ==
  ASSUME NEW S, NEW f, NEW e, \A x \in S : f[x] = e[x]
  PROVE  SumOver(f, S) = SumOver(e, S)
<1>1. [x \in S |-> f[x]] = [x \in S |-> e[x]]
  OBVIOUS
<1> QED
  BY <1>1 DEF SumOver

\* SumFunction adds up the values on its domain.
LEMMA SumFunctionIs ==
  ASSUME NEW S, NEW f, f = [x \in S |-> f[x]]
  PROVE  SumFunction(f) = SumOver(f, S)
BY DEF SumOver

\* G is the table F, column by column.
Transposed(F, G, S, T) ==
  \A x \in S, y \in T : F[x][y] \in Int /\ G[y][x] = F[x][y]

\* A table adds up to the same by rows and by columns.
LEMMA SumSwap ==
  ASSUME NEW S, IsFiniteSet(S), NEW T, IsFiniteSet(T), NEW F, NEW G, NEW r, NEW c,
         Transposed(F, G, S, T),
         \A x \in S : r[x] = SumOver(F[x], T),
         \A y \in T : c[y] = SumOver(G[y], S)
  PROVE  SumOver(r, S) = SumOver(c, T)
<1> USE DEF Transposed
<1> DEFINE Good == {A \in SUBSET S : SumOver(r, A) = SumOver([y \in T |-> SumOver(G[y], A)], T)}
<1>0. SumOver(r, {}) = SumOver([y \in T |-> SumOver(G[y], {})], T)
  <2> DEFINE z == [y \in T |-> SumOver(G[y], {})]
  <2>1. \A y \in T : z[y] = 0
    BY SumOverDef
  <2> HIDE DEF z
  <2>2. SumOver(z, T) = 0 /\ SumOver(r, {}) = 0
    BY <2>1, SumZeros, SumOverDef
  <2> QED
    BY <2>2 DEF z
<1>1. {} \in Good
  BY <1>0
<1>2. ASSUME NEW A \in SUBSET S, A # {}, \A x \in A : A \ {x} \in Good PROVE A \in Good
  <2>1. PICK x \in A : A \ {x} \in Good
    BY <1>2
  <2> DEFINE d == [y \in T |-> SumOver(G[y], A)]
             e == [y \in T |-> SumOver(G[y], A \ {x})]
  <2>2. IsFiniteSet(A) /\ IsFiniteSet(A \ {x}) /\ \A z \in A : r[z] \in Int
    BY FS_Subset, SumOverType
  <2>3. SumOver(r, A) = r[x] + SumOver(r, A \ {x})
    BY <2>2, SumStep
  <2>4. r[x] = SumOver(F[x], T)
    OBVIOUS
  <2>5. ASSUME NEW y \in T
        PROVE  F[x][y] \in Int /\ e[y] \in Int /\ d[y] = F[x][y] + e[y]
    <3>1. \A z \in A : G[y][z] \in Int
      OBVIOUS
    <3>2. /\ SumOver(G[y], A) = G[y][x] + SumOver(G[y], A \ {x})
          /\ SumOver(G[y], A \ {x}) \in Int
      BY <2>2, <3>1, SumStep
    <3> QED
      BY <3>2
  <2> HIDE DEF d, e
  <2>6. SumOver(d, T) = SumOver(F[x], T) + SumOver(e, T)
    BY <2>5, SumPlus
  <2>7. SumOver(r, A \ {x}) = SumOver(e, T)
    BY <2>1 DEF e
  <2>8. SumOver(r, A) = SumOver(d, T)
    BY <2>3, <2>4, <2>6, <2>7
  <2> QED
    BY <2>8 DEF d
<1>3. S \in Good
  <2> HIDE DEF Good
  <2>1. \A A \in SUBSET S : A \in Good
    BY <1>1, <1>2, SubsetInduction
  <2> QED
    BY <2>1
<1>4. SumOver([y \in T |-> SumOver(G[y], S)], T) = SumOver(c, T)
  <2> DEFINE d == [y \in T |-> SumOver(G[y], S)]
  <2>1. \A y \in T : d[y] = c[y]
    OBVIOUS
  <2> HIDE DEF d
  <2>2. SumOver(d, T) = SumOver(c, T)
    BY <2>1, SumAgree
  <2> QED
    BY <2>2 DEF d
<1> QED
  BY <1>3, <1>4

\* A sum may be taken class by class.
LEMMA SumClasses ==
  ASSUME NEW S, IsFiniteSet(S), NEW C, IsFiniteSet(C), NEW h, \A x \in S : h[x] \in C,
         NEW f, \A x \in S : f[x] \in Int,
         NEW Of, \A k \in C : Of[k] \subseteq S /\ \A x \in S : x \in Of[k] <=> h[x] = k,
         NEW c, \A k \in C : c[k] = SumOver(f, Of[k])
  PROVE  SumOver(f, S) = SumOver(c, C)
<1> DEFINE Class(A, k) == {x \in A : h[x] = k}
           Good == {A \in SUBSET S : SumOver(f, A) = SumOver([k \in C |-> SumOver(f, Class(A, k))], C)}
<1>1. {} \in Good
  <2> DEFINE z == [k \in C |-> SumOver(f, Class({}, k))]
  <2>1. \A k \in C : z[k] = 0
    BY SumOverDef
  <2> HIDE DEF z
  <2>2. SumOver(z, C) = 0 /\ SumOver(f, {}) = 0
    BY <2>1, SumZeros, SumOverDef
  <2> QED
    BY <2>2 DEF z
<1>2. ASSUME NEW A \in SUBSET S, A # {}, \A x \in A : A \ {x} \in Good PROVE A \in Good
  <2>1. PICK x \in A : A \ {x} \in Good
    BY <1>2
  <2> DEFINE d == [k \in C |-> SumOver(f, Class(A, k))]
             e == [k \in C |-> SumOver(f, Class(A \ {x}, k))]
             p == [k \in C |-> IF k = h[x] THEN f[x] ELSE 0]
  <2>2. IsFiniteSet(A) /\ (\A y \in A : f[y] \in Int) /\ h[x] \in C /\ f[x] \in Int
    BY FS_Subset
  <2>3. SumOver(f, A) = f[x] + SumOver(f, A \ {x})
    BY <2>2, SumStep
  <2>4. ASSUME NEW k \in C
        PROVE  p[k] \in Int /\ e[k] \in Int /\ d[k] = p[k] + e[k]
    <3>1. /\ Class(A, k) \in SUBSET A /\ Class(A \ {x}, k) \in SUBSET A
          /\ Class(A, k) \ {x} = Class(A \ {x}, k)
          /\ k = h[x] => x \in Class(A, k)
          /\ k # h[x] => Class(A, k) = Class(A \ {x}, k)
      OBVIOUS
    <3> HIDE DEF Class
    <3>2. IsFiniteSet(Class(A, k)) /\ \A y \in Class(A, k) : f[y] \in Int
      BY <2>2, <3>1, FS_Subset
    <3>3. SumOver(f, Class(A \ {x}, k)) \in Int
      BY <2>2, <3>1, SumOverType
    <3>4. CASE k = h[x]
      <4>1. SumOver(f, Class(A, k)) = f[x] + SumOver(f, Class(A, k) \ {x})
        BY <3>1, <3>2, <3>4, SumStep
      <4> QED
        BY <2>2, <3>1, <3>3, <3>4, <4>1
    <3>5. CASE k # h[x]
      BY <3>1, <3>3, <3>5
    <3> QED
      BY <3>4, <3>5
  <2>5. SumOver(p, C) = f[x]
    <3>1. p[h[x]] = f[x] /\ \A k \in C : k # h[x] => p[k] = 0
      BY <2>2
    <3> HIDE DEF p
    <3> QED
      BY <2>2, <3>1, SumSingle
  <2> HIDE DEF d, e, p
  <2>6. SumOver(d, C) = SumOver(p, C) + SumOver(e, C)
    BY <2>4, SumPlus
  <2>7. SumOver(f, A \ {x}) = SumOver(e, C)
    BY <2>1 DEF e
  <2>8. SumOver(f, A) = SumOver(d, C)
    BY <2>3, <2>5, <2>6, <2>7
  <2> QED
    BY <2>8 DEF d
<1>3. SumOver(f, S) = SumOver([k \in C |-> SumOver(f, Class(S, k))], C)
  <2> HIDE DEF Good
  <2>1. \A A \in SUBSET S : A \in Good
    BY <1>1, <1>2, SubsetInduction
  <2> QED
    BY <2>1 DEF Good
<1>4. SumOver([k \in C |-> SumOver(f, Class(S, k))], C) = SumOver(c, C)
  <2> DEFINE d == [k \in C |-> SumOver(f, Class(S, k))]
  <2>1. \A k \in C : d[k] = c[k]
    <3> SUFFICES ASSUME NEW k \in C PROVE d[k] = c[k]
      OBVIOUS
    <3>1. Class(S, k) = Of[k]
      OBVIOUS
    <3> QED
      BY <3>1
  <2> HIDE DEF d
  <2>2. SumOver(d, C) = SumOver(c, C)
    BY <2>1, SumAgree
  <2> QED
    BY <2>2 DEF d
<1> QED
  BY <1>3, <1>4

\* So may a count.
LEMMA CountClasses ==
  ASSUME NEW S, IsFiniteSet(S), NEW C, IsFiniteSet(C), NEW h, \A x \in S : h[x] \in C,
         NEW Of, \A k \in C : Of[k] \subseteq S /\ \A x \in S : x \in Of[k] <=> h[x] = k,
         NEW c, \A k \in C : c[k] = Cardinality(Of[k])
  PROVE  Cardinality(S) = SumOver(c, C)
<1> DEFINE f == [x \in S |-> 1]
<1>1. \A x \in S : f[x] = 1 /\ f[x] \in Int
  OBVIOUS
<1> HIDE DEF f
<1>2. SumOver(f, S) = Cardinality(S)
  BY <1>1, SumOnes
<1>3. ASSUME NEW k \in C PROVE c[k] = SumOver(f, Of[k])
  <2>1. IsFiniteSet(Of[k]) /\ \A x \in Of[k] : f[x] = 1
    BY <1>1, FS_Subset
  <2>2. SumOver(f, Of[k]) = Cardinality(Of[k])
    BY <2>1, SumOnes
  <2> QED
    BY <2>2
<1>4. SumOver(f, S) = SumOver(c, C)
  BY <1>1, <1>3, SumClasses
<1> QED
  BY <1>2, <1>4

\* What two sets without a common element count together.
LEMMA CountParts ==
  ASSUME NEW A, IsFiniteSet(A), NEW B, IsFiniteSet(B), A \cap B = {}
  PROVE  /\ Cardinality(A) \in Nat /\ Cardinality(B) \in Nat
         /\ Cardinality(A \cup B) = Cardinality(A) + Cardinality(B)
<1>1. Cardinality(A) \in Nat /\ Cardinality(B) \in Nat
  BY FS_CardinalityType
<1>2. Cardinality(A \cup B) = Cardinality(A) + Cardinality(B) - Cardinality(A \cap B)
  BY FS_Union
<1>3. Cardinality(A \cap B) = 0
  BY FS_EmptySet
<1>4. Cardinality(A \cup B) = Cardinality(A) + Cardinality(B) - 0
  BY <1>2, <1>3
<1> QED
  BY <1>1, <1>4

\* The total of a sequence is the sum over its places.
LEMMA TotalIsSum ==
  ASSUME NEW s \in Seq(Int)
  PROVE  TotalOf(s) = SumOver(s, 1..Len(s))
<1> DEFINE w == Padded(s)
           Bad == {n \in Nat : Total(w, n) # SumOver(w, 1..n)}
<1>1. w \in [Nat -> Int] /\ \A k \in 1..Len(s) : w[k] = s[k]
  <2>1. \A k \in Nat : k \in 1..Len(s) => s[k] \in Int
    OBVIOUS
  <2>2. w \in [Nat -> Int]
    BY <2>1 DEF Padded
  <2>3. \A k \in 1..Len(s) : w[k] = s[k]
    BY DEF Padded
  <2> QED
    BY <2>2, <2>3
<1> HIDE DEF w
<1>2. Bad = {}
  <2>1. SUFFICES ASSUME Bad # {} PROVE FALSE
    OBVIOUS
  <2>2. PICK n \in Bad : \A m \in Bad : n <= m
    BY <2>1, Bad \in SUBSET Nat, LeastElement
  <2>3. n # 0
    <3>1. 1..0 = {}
      OBVIOUS
    <3> QED
      BY <1>1, <2>2, <3>1, SumOverDef, FS_EmptySet, TotalDef
  <2>4. n - 1 \in Nat /\ n - 1 \notin Bad /\ (n - 1) + 1 = n
    BY <2>2, <2>3
  <2>5. Total(w, n) = Total(w, n - 1) + w[n] /\ Total(w, n - 1) = SumOver(w, 1..(n - 1))
    BY <1>1, <2>4, TotalDef
  <2>6. /\ IsFiniteSet(1..n) /\ n \in 1..n /\ (1..n) \ {n} = 1..(n - 1)
        /\ \A k \in 1..n : w[k] \in Int
    <3>1. n \in Nat /\ n >= 1
      BY <2>2, <2>3
    <3>2. IsFiniteSet(1..n)
      BY <3>1, FS_Interval
    <3> QED
      BY <1>1, <3>1, <3>2
  <2>7. SumOver(w, 1..n) = w[n] + SumOver(w, 1..(n - 1)) /\ SumOver(w, 1..(n - 1)) \in Int
    <3>1. /\ SumOver(w, 1..n) = w[n] + SumOver(w, (1..n) \ {n})
          /\ SumOver(w, (1..n) \ {n}) \in Int
      BY <2>6, SumStep
    <3> QED
      BY <2>6, <3>1
  <2>8. w[n] \in Int
    BY <2>6
  <2>9. Total(w, n) = SumOver(w, 1..n)
    BY <2>5, <2>7, <2>8
  <2> QED
    BY <2>2, <2>9
<1>3. Total(w, Len(s)) = SumOver(w, 1..Len(s))
  BY <1>2
<1>4. SumOver(w, 1..Len(s)) = SumOver(s, 1..Len(s))
  BY <1>1, SumAgree
<1> QED
  BY <1>3, <1>4 DEF TotalOf, w
=============================================================================
