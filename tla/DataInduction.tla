--------------------------- MODULE DataInduction ---------------------------
(***************************************************************************)
(* Induction and recursion for the proofs about data.  The induction       *)
(* theorems of the library take an operator; here the statement to prove   *)
(* is a set of naturals, and the step of a recursion is a function, so     *)
(* that first-order provers can apply them.  All rests on the fact that    *)
(* inclusion of finite sets is well-founded.  At the end, the sums that    *)
(* folds make over a finite set.                                           *)
(***************************************************************************)
EXTENDS Integers, Sequences, FiniteSetTheorems, WellFoundedInduction, TLAPS

\* A non-empty set of naturals has a least element.
LEMMA LeastOf ==
    ASSUME NEW T \in SUBSET Nat, T # {}
    PROVE  \E m \in T : \A k \in T : m <= k
  <1>1. PICK b \in T : TRUE
    OBVIOUS
  <1> DEFINE B == 1 .. b
             R == StrictSubsetOrdering(B)
             Q == {1 .. k : k \in {j \in T : j <= b}}
  <1>2. IsFiniteSet(B)
    BY FS_Interval
  <1>3. IsWellFoundedOn(R, SUBSET B)
    BY <1>2, FS_StrictSubsetOrderingWellFounded, FS_FiniteSubsetsOfFinite
  <1>4. 1 .. b \in Q
    OBVIOUS
  <1>5. Q \subseteq SUBSET B
    OBVIOUS
  <1>6. Q # {} 
    BY <1>4
  <1>7. PICK X \in Q : \A Y \in Q : ~ (<<Y, X>> \in R)
    <2> HIDE DEF Q, R, B
    <2> QED BY <1>3, <1>5, <1>6, WFMin
  <1>8. PICK m \in T : m <= b /\ X = 1 .. m
    OBVIOUS
  <1>9. ASSUME NEW k \in T, k < m
        PROVE  FALSE
    <2>1. 1 .. k \in Q
      BY <1>8, <1>9
    <2>2. 1 .. k \subseteq 1 .. m /\ m \in 1 .. m /\ m \notin 1 .. k
      BY <1>9
    <2>3. <<1 .. k, 1 .. m>> \in R
      BY <2>1, <2>2, <1>5, <1>8 DEF StrictSubsetOrdering
    <2> QED BY <2>1, <2>3, <1>7, <1>8
  <1> QED BY <1>9

\* Induction over the naturals.
LEMMA Inductive ==
    ASSUME NEW T, 0 \in T, \A n \in Nat : n \in T => n + 1 \in T
    PROVE  Nat \subseteq T
  <1> SUFFICES ASSUME Nat \ T # {} PROVE FALSE
    OBVIOUS
  <1>1. PICK m \in Nat \ T : \A k \in Nat \ T : m <= k
    BY LeastOf
  <1>2. m - 1 \in Nat /\ m - 1 \notin T
    BY <1>1
  <1> QED BY <1>1, <1>2

\* Induction over the positions of a sequence.
LEMMA Positions ==
    ASSUME NEW N \in Nat, NEW T, \A i \in 1 .. N : (i = 1 \/ i - 1 \in T) => i \in T
    PROVE  \A i \in 1 .. N : i \in T
  <1> DEFINE U == {n \in Nat : n \in 1 .. N => n \in T}
  <1>1. 0 \in U
    OBVIOUS
  <1>2. ASSUME NEW n \in Nat, n \in U PROVE n + 1 \in U
    BY <1>2
  <1>3. Nat \subseteq U
    <2> HIDE DEF U
    <2> QED BY <1>1, <1>2, Inductive
  <1> QED BY <1>3

\* h starts with a and goes on by g for n steps.
Iterates(h, a, g, n) == h[0] = a /\ \A i \in 0 .. n - 1 : h[i + 1] = g[i][h[i]]

\* There is only one way.
LEMMA IteratesUnique ==
    ASSUME NEW a, NEW g, NEW h, NEW k, NEW n \in Nat, NEW m \in Nat,
           Iterates(h, a, g, n), Iterates(k, a, g, m)
    PROVE  \A i \in Nat : i <= n /\ i <= m => h[i] = k[i]
  <1> DEFINE T == {i \in Nat : i <= n /\ i <= m => h[i] = k[i]}
  <1>1. 0 \in T
    BY DEF Iterates
  <1>2. ASSUME NEW i \in Nat, i \in T PROVE i + 1 \in T
    BY <1>2 DEF Iterates
  <1> HIDE DEF T
  <1>3. Nat \subseteq T
    BY <1>1, <1>2, Inductive
  <1> QED BY <1>3 DEF T

StepsWithin(g, S) == \A n \in Nat : \A x \in S : g[n][x] \in S
Follows(f, a, g)  == f[0] = a /\ \A n \in Nat : f[n + 1] = g[n][f[n]]

\* Recursion over the naturals: the function that starts with a and goes on by g.
THEOREM Recursion ==
    ASSUME NEW S, NEW a \in S, NEW g, StepsWithin(g, S)
    PROVE  \E f \in [Nat -> S] : Follows(f, a, g)
  <1> USE DEF StepsWithin
  <1> DEFINE T == {n \in Nat : \E h \in [Nat -> S] : Iterates(h, a, g, n)}
  <1>1. 0 \in T
    <2>1. Iterates([i \in Nat |-> a], a, g, 0)
      BY DEF Iterates
    <2> QED BY <2>1
  <1>2. ASSUME NEW n \in Nat, n \in T PROVE n + 1 \in T
    <2>1. PICK h \in [Nat -> S] : Iterates(h, a, g, n)
      BY <1>2
    <2> DEFINE k == [i \in Nat |-> IF i = n + 1 THEN g[n][h[n]] ELSE h[i]]
    <2>2. k \in [Nat -> S]
      OBVIOUS
    <2>3. Iterates(k, a, g, n + 1)
      <3>1. k[0] = a
        BY <2>1 DEF Iterates
      <3>2. ASSUME NEW i \in 0 .. n PROVE k[i + 1] = g[i][k[i]]
        BY <2>1, <3>2 DEF Iterates
      <3> QED BY <3>1, <3>2 DEF Iterates
    <2> QED BY <2>2, <2>3
  <1>3. \A n \in Nat : \E h \in [Nat -> S] : Iterates(h, a, g, n)
    <2> HIDE DEF T
    <2>1. Nat \subseteq T
      BY <1>1, <1>2, Inductive
    <2> QED BY <2>1 DEF T
  <1> DEFINE H(n) == CHOOSE h \in [Nat -> S] : Iterates(h, a, g, n)
             f == [n \in Nat |-> H(n)[n]]
  <1>4. \A n \in Nat : H(n) \in [Nat -> S] /\ Iterates(H(n), a, g, n)
    BY <1>3
  <1> HIDE DEF H
  <1>5. f \in [Nat -> S]
    BY <1>4
  <1>6. f[0] = a
    BY <1>4 DEF Iterates
  <1>7. ASSUME NEW n \in Nat PROVE f[n + 1] = g[n][f[n]]
    <2>1. H(n + 1)[n + 1] = g[n][H(n + 1)[n]]
      BY <1>4 DEF Iterates
    <2>2. H(n + 1)[n] = H(n)[n]
      BY <1>4, IteratesUnique
    <2> QED BY <2>1, <2>2
  <1> QED BY <1>5, <1>6, <1>7 DEF Follows

\* A recursion over the positions of a sequence has the values it was defined by.
Unfolding(f, a, g, N) == f[0] = a /\ \A k \in 1 .. N : f[k] = g[k][f[k - 1]]

LEMMA Unfolds ==
    ASSUME NEW X, NEW a \in X, NEW N \in Nat, NEW g, StepsWithin(g, X)
    PROVE  \E f \in [0 .. N -> X] : Unfolding(f, a, g, N)
  <1> DEFINE h == [n \in Nat |-> g[n + 1]]
  <1>1. StepsWithin(h, X)
    BY DEF StepsWithin
  <1>2. PICK F \in [Nat -> X] : Follows(F, a, h)
    <2> HIDE DEF h
    <2> QED BY <1>1, Recursion
  <1> DEFINE f == [k \in 0 .. N |-> F[k]]
  <1>3. f \in [0 .. N -> X] /\ f[0] = a
    BY <1>2 DEF Follows
  <1>4. ASSUME NEW k \in 1 .. N PROVE f[k] = g[k][f[k - 1]]
    <2>1. k - 1 \in Nat /\ k - 1 \in 0 .. N /\ k \in 0 .. N /\ (k - 1) + 1 = k
      OBVIOUS
    <2>2. F[(k - 1) + 1] = h[k - 1][F[k - 1]]
      BY <1>2, <2>1 DEF Follows
    <2> QED BY <2>1, <2>2
  <1> HIDE DEF f
  <1> QED BY <1>3, <1>4 DEF Unfolding

\* What a sequence is made of.
LEMMA Elements ==
    ASSUME NEW S, NEW s \in Seq(S)
    PROVE  Len(s) \in Nat /\ DOMAIN s = 1 .. Len(s) /\ \A i \in 1 .. Len(s) : s[i] \in S
  OBVIOUS

\* What stands where in a concatenation.
LEMMA Joined ==
    ASSUME NEW S, NEW s \in Seq(S), NEW t \in Seq(S)
    PROVE  /\ s \o t \in Seq(S) /\ Len(s \o t) = Len(s) + Len(t)
           /\ \A i \in 1 .. Len(s) : (s \o t)[i] = s[i]
           /\ \A i \in 1 .. Len(t) : (s \o t)[Len(s) + i] = t[i]
  OBVIOUS

\* Numbers added up over a finite set, in whatever order CHOOSE takes its elements.
Adds(it, f) ==
    it = [U \in SUBSET DOMAIN f |->
             IF U = {} THEN 0 ELSE LET x == CHOOSE x \in U : TRUE IN f[x] + it[U \ {x}]]
Summed(f) == (CHOOSE it : Adds(it, f))[DOMAIN f]

\* The sum is the number of the things that are counted, each p at one element g[p].
LEMMA SumCounts ==
    ASSUME NEW R, IsFiniteSet(R), NEW g, NEW f, IsFiniteSet(DOMAIN f),
           \A p \in R : g[p] \in DOMAIN f,
           \A x \in DOMAIN f : f[x] = Cardinality({p \in R : g[p] = x})
    PROVE  Summed(f) = Cardinality(R)
  <1> DEFINE S == DOMAIN f
             at(U) == {p \in R : g[p] \in U}
             w == [U \in SUBSET S |-> Cardinality(at(U))]
             pick(U) == CHOOSE x \in U : TRUE
  <1>1. ASSUME NEW U \in SUBSET S PROVE IsFiniteSet(at(U)) /\ Cardinality(at(U)) \in Nat
    <2>1. at(U) \in SUBSET R
      OBVIOUS
    <2> QED BY <2>1, FS_Subset, FS_CardinalityType
  <1>2. ASSUME NEW U \in SUBSET S, U # {}
        PROVE  /\ pick(U) \in U /\ U \ {pick(U)} \in SUBSET S
               /\ f[pick(U)] \in Nat /\ w[U] = f[pick(U)] + w[U \ {pick(U)}]
    <2> DEFINE x == pick(U)
               one == {p \in R : g[p] = x}
    <2>1. x \in U
      BY <1>2
    <2> HIDE DEF x
    <2>2. U \ {x} \in SUBSET S /\ {x} \in SUBSET S
      BY <2>1
    <2>3. at({x}) = one
      OBVIOUS
    <2>4. at(U) = one \cup at(U \ {x}) /\ one \cap at(U \ {x}) = {}
      BY <2>1
    <2>5. IsFiniteSet(one) /\ Cardinality(one) \in Nat
      BY <1>1, <2>2, <2>3
    <2>6. IsFiniteSet(at(U \ {x})) /\ Cardinality(at(U \ {x})) \in Nat
      BY <1>1, <2>2
    <2>7. f[x] = Cardinality(one)
      BY <2>1
    <2> HIDE DEF at, one
    <2> DEFINE rest == at(U \ {x})
    <2> HIDE DEF rest
    <2>11. IsFiniteSet(rest) /\ Cardinality(rest) \in Nat /\ one \cap rest = {} /\ at(U) = one \cup rest
      BY <2>4, <2>6 DEF rest
    <2>8. Cardinality(at(U)) = Cardinality(one) + Cardinality(rest) - Cardinality({})
      <3>1. Cardinality(one \cup rest) = Cardinality(one) + Cardinality(rest) - Cardinality(one \cap rest)
        BY <2>5, <2>11, FS_Union
      <3> QED BY <3>1, <2>11
    <2>9. Cardinality(at(U)) = Cardinality(one) + Cardinality(at(U \ {x}))
      BY <2>8, <2>5, <2>11, FS_EmptySet DEF rest
    <2>10. w[U] = f[x] + w[U \ {x}]
      BY <2>9, <2>7, <2>2
    <2> QED BY <2>1, <2>2, <2>5, <2>7, <2>10 DEF x
  <1>3. Cardinality(at({})) = 0
    <2>1. at({}) = {}
      OBVIOUS
    <2> QED BY <2>1, FS_EmptySet
  <1>4. Adds(w, f)
    <2>1. ASSUME NEW U \in SUBSET S PROVE w[U] = IF U = {} THEN 0 ELSE f[pick(U)] + w[U \ {pick(U)}]
      <3>1. CASE U = {}
        BY <3>1, <1>3
      <3>2. CASE U # {}
        BY <3>2, <1>2
      <3> QED BY <3>1, <3>2
    <2>2. w = [U \in SUBSET S |-> w[U]]
      OBVIOUS
    <2> HIDE DEF w
    <2>3. w = [U \in SUBSET S |-> IF U = {} THEN 0 ELSE f[pick(U)] + w[U \ {pick(U)}]]
      BY <2>1, <2>2, Zenon
    <2> QED BY <2>3, Zenon DEF Adds
  <1> DEFINE it == CHOOSE it : Adds(it, f)
  <1>5. Adds(it, f)
    <2> HIDE DEF w
    <2> QED BY <1>4
  <1> HIDE DEF it
  <1>6. ASSUME NEW U \in SUBSET S
        PROVE  it[U] = IF U = {} THEN 0 ELSE f[pick(U)] + it[U \ {pick(U)}]
    <2>1. it = [V \in SUBSET S |-> IF V = {} THEN 0 ELSE f[pick(V)] + it[V \ {pick(V)}]]
      BY <1>5, Zenon DEF Adds
    <2> QED BY <2>1
  <1>7. \A U \in SUBSET S : it[U] = w[U]
    <2> DEFINE T == {n \in Nat : \E U \in SUBSET S : Cardinality(U) = n /\ it[U] # w[U]}
    <2> SUFFICES ASSUME NEW V \in SUBSET S, it[V] # w[V] PROVE FALSE
      OBVIOUS
    <2>1. \A U \in SUBSET S : IsFiniteSet(U) /\ Cardinality(U) \in Nat
      BY FS_Subset, FS_CardinalityType
    <2>2. T \in SUBSET Nat /\ T # {}
      <3>1. Cardinality(V) \in T
        BY <2>1
      <3> QED BY <3>1
    <2>3. PICK m \in T : \A k \in T : m <= k
      <3> HIDE DEF T
      <3> QED BY <2>2, LeastOf
    <2>4. PICK U \in SUBSET S : Cardinality(U) = m /\ it[U] # w[U]
      OBVIOUS
    <2>5. CASE U = {}
      <3>1. it[U] = 0
        BY <1>6, <2>5
      <3>2. w[U] = 0
        BY <1>3, <2>5
      <3> QED BY <3>1, <3>2, <2>4
    <2>6. CASE U # {}
      <3> DEFINE x == pick(U)
      <3>1. x \in U /\ U \ {x} \in SUBSET S /\ w[U] = f[x] + w[U \ {x}]
        BY <1>2, <2>6
      <3>2. it[U] = f[x] + it[U \ {x}]
        BY <1>6, <2>6
      <3> HIDE DEF x, w
      <3>3. it[U \ {x}] # w[U \ {x}]
        BY <3>1, <3>2, <2>4
      <3>4. Cardinality(U \ {x}) = m - 1
        BY <3>1, <2>1, <2>4, FS_RemoveElement
      <3>5. m - 1 \in Nat
        BY <3>4, <3>1, <2>1
      <3>6. m - 1 \in T
        BY <3>1, <3>3, <3>4, <3>5
      <3> HIDE DEF T
      <3>7. m \in Nat
        BY <2>2
      <3> QED BY <3>6, <3>7, <2>3
    <2> QED BY <2>5, <2>6
  <1>8. it[S] = w[S] /\ w[S] = Cardinality(at(S))
    BY <1>7
  <1>9. at(S) = R
    OBVIOUS
  <1> HIDE DEF w
  <1> QED BY <1>8, <1>9 DEF Summed, it
=============================================================================
