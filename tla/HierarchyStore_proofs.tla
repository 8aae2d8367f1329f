----------------------- MODULE HierarchyStore_proofs -----------------------
(***************************************************************************)
(* The hierarchy, for any nodes, dumps, edits and number of requests.      *)
(* What the parser makes of a dump is always a tree.  As long as edits are *)
(* made alone and every dump has a device below the head office, the row   *)
(* of the head office lets one request at a time past its upsert: the      *)
(* closure is rebuilt from what will be committed, and a hierarchy without *)
(* cycles stays without.                                                   *)
(***************************************************************************)
EXTENDS HierarchyStore, DataInduction

(***************************************************************************)
(* The parser: in the nodes of a dump every parent occurs before its       *)
(* child, so the first occurrences make a tree.                            *)
(***************************************************************************)
Items == [node : Nodes, parent : Nodes \cup {None}]

ParentsPrecede(s) ==
    \A i \in 1 .. Len(s) : s[i].parent = None \/ \E j \in 1 .. i - 1 : s[j].node = s[i].parent

\* FlattenSeq concatenates from left to right.
LEMMA FlattenUnfolds ==
    ASSUME NEW S, NEW ss \in Seq(Seq(S)), Len(ss) > 0
    PROVE  \E f \in [1 .. Len(ss) -> Seq(S)] :
              /\ f[1] = ss[1] /\ f[Len(ss)] = FlattenSeq(ss)
              /\ \A i \in 1 .. Len(ss) : i # 1 => f[i] = f[i - 1] \o ss[i]
  <1> DEFINE N == Len(ss)
             X == Seq(S)
             a == ss[1]
             g == [n \in Nat |-> [x \in X |-> IF n + 2 <= N THEN x \o ss[n + 2] ELSE x]]
             Eq(f) == f = [i \in 1 .. N |-> IF i = 1 THEN ss[i] ELSE f[i - 1] \o ss[i]]
  <1>1. N \in Nat /\ N >= 1 /\ a \in X /\ StepsWithin(g, X)
    BY DEF StepsWithin
  <1>2. PICK F \in [Nat -> X] : Follows(F, a, g)
    <2> HIDE DEF g, X, a
    <2> QED BY <1>1, Recursion
  <1>3. ASSUME NEW n \in Nat, n + 2 <= N PROVE F[n + 1] = F[n] \o ss[n + 2]
    <2>1. F[n] \in X /\ F[n + 1] = g[n][F[n]]
      BY <1>2 DEF Follows
    <2> QED BY <2>1, <1>3
  <1> DEFINE e == [i \in 1 .. N |-> F[i - 1]]
  <1> HIDE DEF g, N
  <1>4. Eq(e)
    <2>1. ASSUME NEW i \in 1 .. N
          PROVE e[i] = IF i = 1 THEN ss[i] ELSE e[i - 1] \o ss[i]
      <3>1. CASE i = 1
        BY <3>1, <1>2 DEF Follows
      <3>2. CASE i # 1
        <4>1. i - 2 \in Nat /\ i - 1 \in 1 .. N /\ (i - 2) + 2 <= N /\ (i - 2) + 1 = i - 1 /\ (i - 2) + 2 = i
              /\ (i - 1) - 1 = i - 2
          BY <1>1, <3>2
        <4>2. F[i - 1] = F[i - 2] \o ss[i]
          BY <1>3, <4>1
        <4> QED BY <4>1, <4>2, <3>2
      <3> QED BY <3>1, <3>2
    <2> QED BY <2>1
  <1> DEFINE f == CHOOSE f : Eq(f)
  <1>5. Eq(f)
    <2> HIDE DEF Eq, e
    <2> QED BY <1>4
  <1>6. FlattenSeq(ss) = f[Len(ss)]
    BY DEF FlattenSeq, N
  <1> HIDE DEF f
  <1>7. f[1] = ss[1] /\ \A i \in 1 .. N : i # 1 => f[i] = f[i - 1] \o ss[i]
    <2>1. N \in Nat /\ 1 \in 1 .. N
      BY <1>1
    <2>2. ASSUME NEW i \in 1 .. N PROVE f[i] = IF i = 1 THEN ss[i] ELSE f[i - 1] \o ss[i]
      BY <1>5
    <2> QED BY <2>1, <2>2
  <1>8. N \in Nat
    BY <1>1
  <1> DEFINE T == {i \in 1 .. N : f[i] \in Seq(S)}
  <1>9. ASSUME NEW i \in 1 .. N, i = 1 \/ i - 1 \in T
        PROVE  i \in T
    <2>1. ss[i] \in Seq(S)
      BY DEF N
    <2>2. CASE i = 1
      BY <2>1, <2>2, <1>7
    <2>3. CASE i # 1
      <3>1. f[i - 1] \in Seq(S) /\ f[i] = f[i - 1] \o ss[i]
        BY <2>3, <1>7, <1>9
      <3>2. f[i - 1] \o ss[i] \in Seq(S)
        BY ONLY <2>1, <3>1
      <3>3. f[i] \in Seq(S)
        BY ONLY <3>1, <3>2
      <3> QED BY <3>3
    <2> QED BY <2>2, <2>3
  <1>10. \A i \in 1 .. N : i \in T
    <2> HIDE DEF T
    <2> QED BY <1>8, <1>9, Positions
  <1>11. \A i \in 1 .. N : f[i] \in Seq(S)
    BY <1>10
  <1>12. f \in [1 .. N -> Seq(S)]
    BY <1>5, <1>11
  <1> QED BY <1>6, <1>7, <1>12 DEF N
LEMMA JoinedPrecede ==
    ASSUME NEW s \in Seq(Items), NEW t \in Seq(Items), ParentsPrecede(s), ParentsPrecede(t)
    PROVE  ParentsPrecede(s \o t)
  <1> SUFFICES ASSUME NEW i \in 1 .. Len(s \o t), (s \o t)[i].parent # None
               PROVE  \E j \in 1 .. i - 1 : (s \o t)[j].node = (s \o t)[i].parent
    BY DEF ParentsPrecede
  <1>1. CASE i <= Len(s)
    <2>1. i \in 1 .. Len(s) /\ (s \o t)[i] = s[i]
      BY <1>1
    <2>2. PICK j \in 1 .. i - 1 : s[j].node = s[i].parent
      BY <2>1 DEF ParentsPrecede
    <2>3. (s \o t)[j] = s[j]
      BY <2>1
    <2> QED BY <2>1, <2>2, <2>3
  <1>2. CASE i > Len(s)
    <2>1. i - Len(s) \in 1 .. Len(t) /\ (s \o t)[i] = t[i - Len(s)]
      BY <1>2
    <2>2. PICK j \in 1 .. i - Len(s) - 1 : t[j].node = t[i - Len(s)].parent
      BY <2>1 DEF ParentsPrecede
    <2>3. j + Len(s) \in 1 .. i - 1 /\ (s \o t)[j + Len(s)] = t[j]
      BY <2>1, <2>2
    <2> QED BY <2>1, <2>2, <2>3
  <1> QED BY <1>1, <1>2

LEMMA PathFacts ==
    ASSUME NEW r \in [device : Nodes, path : Seq(Nodes)]
    PROVE  /\ ParseDevicePath(r) \in Seq(Items)
           /\ ParentsPrecede(ParseDevicePath(r))
           /\ ParseDevicePath(r) # <<>>
           /\ Len(SplitFullPath(r.path, r.device)) > 1 => ParseDevicePath(r)[1].node = HeadOffice
  <1> DEFINE parts == SplitFullPath(r.path, r.device)
             ids   == Identifiers(r.path, r.device)
             p     == ParseDevicePath(r)
             N     == Len(parts)
  <1>1. HeadOffice \in Nodes
    BY StoreAssumption
  <1>2. parts \in Seq(Nodes) /\ N \in Nat /\ N >= 1
    <2>1. CASE r.path = <<>>
      BY <1>1, <2>1 DEF SplitFullPath
    <2>2. CASE r.path # <<>> /\ Head(r.path) \in BankLike
      BY <2>2 DEF SplitFullPath
    <2>3. CASE r.path # <<>> /\ Head(r.path) \notin BankLike
      BY <1>1, <2>3 DEF SplitFullPath
    <2> QED BY <2>1, <2>2, <2>3
  <1>3. ids = [i \in 1 .. N |-> IF i = N THEN r.device ELSE IF i = 1 THEN HeadOffice ELSE parts[i]]
    BY <1>2 DEF Identifiers
  <1>4. \A i \in 1 .. N : parts[i] \in Nodes
    BY <1>2
  <1> HIDE DEF parts, N, ids
  <1>5. ids \in [1 .. N -> Nodes] /\ (N > 1 => ids[1] = HeadOffice)
    BY <1>1, <1>2, <1>3, <1>4
  <1>6. p = [i \in 1 .. N |-> [node |-> ids[i], parent |-> IF i = 1 THEN None ELSE ids[i - 1]]]
    BY <1>3 DEF ParseDevicePath, ids
  <1> HIDE DEF p
  <1>7. p \in Seq(Items) /\ Len(p) = N
    <2>1. ASSUME NEW i \in 1 .. N PROVE p[i] \in Items
      <3>1. ids[i] \in Nodes /\ (i # 1 => ids[i - 1] \in Nodes)
        BY <1>2, <1>5
      <3> QED BY <3>1, <1>6 DEF Items
    <2>2. p \in [1 .. N -> Items]
      BY <1>6, <2>1
    <2> QED BY <1>2, <2>2
  <1>8. ParentsPrecede(p)
    <2> SUFFICES ASSUME NEW i \in 1 .. N, i # 1
                 PROVE  i - 1 \in 1 .. i - 1 /\ p[i - 1].node = p[i].parent
      BY <1>2, <1>6, <1>7 DEF ParentsPrecede
    <2> QED BY <1>2, <1>6
  <1> QED BY <1>2, <1>5, <1>6, <1>7, <1>8 DEF p, N, parts

NodesOf(s) == {s[i].node : i \in 1 .. Len(s)}

LEMMA DumpFacts ==
    ASSUME NEW d \in Dumps
    PROVE  /\ ParseDump(d) \in Seq(Items) /\ ParentsPrecede(ParseDump(d))
           /\ RootedDumps => HeadOffice \in NodesOf(ParseDump(d))
  <1> DEFINE N  == Len(d)
             ss == [i \in DOMAIN d |-> ParseDevicePath(d[i])]
  <1>1. /\ N \in Nat /\ DOMAIN d = 1 .. N
        /\ \A i \in 1 .. N : d[i] \in [device : Nodes, path : Seq(Nodes)]
    <2>1. d \in Seq([device : Nodes, path : Seq(Nodes)])
      BY StoreAssumption
    <2> QED BY <2>1, Elements
  <1>2. \A i \in 1 .. N : ParseDevicePath(d[i]) \in Seq(Items) /\ ParentsPrecede(ParseDevicePath(d[i]))
    BY <1>1, PathFacts
  <1> HIDE DEF N
  <1>3. /\ ss \in Seq(Seq(Items)) /\ Len(ss) = N
        /\ \A i \in 1 .. N : ss[i] = ParseDevicePath(d[i])
    <2>1. ss \in [1 .. N -> Seq(Items)]
      BY <1>1, <1>2
    <2> QED BY <1>1, <2>1
  <1> HIDE DEF ss
  <1>4. ParseDump(d) = FlattenSeq(ss)
    BY DEF ParseDump, ss
  <1>5. CASE N = 0
    <2>1. FlattenSeq(ss) = <<>>
      BY <1>3, <1>5 DEF FlattenSeq
    <2>2. ~ RootedDumps
      BY <1>1, <1>5 DEF RootedDumps
    <2> QED BY <1>4, <2>1, <2>2 DEF ParentsPrecede
  <1>6. CASE N # 0
    <2>1. PICK f \in [1 .. N -> Seq(Items)] :
             /\ f[1] = ss[1] /\ f[N] = ParseDump(d)
             /\ \A i \in 1 .. N : i # 1 => f[i] = f[i - 1] \o ss[i]
      <3>1. Len(ss) > 0
        BY <1>1, <1>3, <1>6
      <3>2. \E f \in [1 .. Len(ss) -> Seq(Items)] :
              /\ f[1] = ss[1] /\ f[Len(ss)] = FlattenSeq(ss)
              /\ \A i \in 1 .. Len(ss) : i # 1 => f[i] = f[i - 1] \o ss[i]
        BY <1>3, <3>1, FlattenUnfolds
      <3> QED BY <3>2, <1>3, <1>4
    <2> DEFINE T == {i \in 1 .. N : /\ ParentsPrecede(f[i])
                                    /\ \A k \in 1 .. i : NodesOf(ss[k]) \subseteq NodesOf(f[i])}
    <2>2. ASSUME NEW i \in 1 .. N, i = 1 \/ i - 1 \in T
          PROVE  i \in T
      <3>1. CASE i = 1
        BY <3>1, <1>2, <1>3, <2>1
      <3>2. CASE i # 1
        <4>1. /\ i - 1 \in T /\ f[i - 1] \in Seq(Items) /\ ss[i] \in Seq(Items)
              /\ f[i] = f[i - 1] \o ss[i] /\ ParentsPrecede(ss[i])
          BY <3>2, <2>2, <2>1, <1>2, <1>3
        <4>2. ParentsPrecede(f[i])
          BY <4>1, JoinedPrecede
        <4>3. NodesOf(f[i - 1]) \subseteq NodesOf(f[i]) /\ NodesOf(ss[i]) \subseteq NodesOf(f[i])
          <5> DEFINE u == f[i - 1]
                     v == ss[i]
          <5>1. u \in Seq(Items) /\ v \in Seq(Items) /\ f[i] = u \o v
            BY <4>1
          <5> HIDE DEF u, v
          <5>2. ASSUME NEW k \in 1 .. Len(u) PROVE u[k].node \in NodesOf(u \o v)
            BY <5>1, Joined DEF NodesOf
          <5>3. ASSUME NEW k \in 1 .. Len(v) PROVE v[k].node \in NodesOf(u \o v)
            <6>1. Len(u) + k \in 1 .. Len(u \o v) /\ (u \o v)[Len(u) + k] = v[k]
              BY <5>1, Joined
            <6> QED BY <6>1 DEF NodesOf
          <5>4. NodesOf(u) \subseteq NodesOf(u \o v) /\ NodesOf(v) \subseteq NodesOf(u \o v)
            BY <5>2, <5>3 DEF NodesOf
          <5> QED BY <5>1, <5>4 DEF u, v
        <4>4. ASSUME NEW k \in 1 .. i PROVE NodesOf(ss[k]) \subseteq NodesOf(f[i])
          <5>1. k = i \/ k \in 1 .. i - 1
            OBVIOUS
          <5> QED BY <5>1, <4>1, <4>3
        <4> QED BY <4>2, <4>4
      <3> QED BY <3>1, <3>2
    <2>3. \A i \in 1 .. N : i \in T
      <3> HIDE DEF T
      <3> QED BY <1>1, <2>2, Positions
    <2>4. N \in T
      <3>1. N \in 1 .. N
        BY <1>1, <1>6
      <3> HIDE DEF T
      <3> QED BY <3>1, <2>3
    <2>5. ASSUME RootedDumps PROVE HeadOffice \in NodesOf(ParseDump(d))
      <3>1. PICK k \in 1 .. N : Len(SplitFullPath(d[k].path, d[k].device)) > 1
        BY <2>5, <1>1 DEF RootedDumps
      <3>2. ss[k] \in Seq(Items) /\ ss[k] # <<>> /\ ss[k][1].node = HeadOffice
        BY <3>1, <1>1, <1>3, PathFacts
      <3>3. HeadOffice \in NodesOf(ss[k])
        BY <3>2 DEF NodesOf
      <3> QED BY <3>3, <2>4, <2>1
    <2> QED BY <2>1, <2>4, <2>5, <1>1, <1>6
  <1> QED BY <1>5, <1>6

LEMMA ItemFacts ==
    ASSUME NEW s \in Seq(Items)
    PROVE  /\ \A i \in 1 .. Len(s) : s[i].node \in Nodes /\ s[i].parent \in Nodes \cup {None}
           /\ NodesOf(s) \subseteq Nodes
  <1>1. ASSUME NEW i \in 1 .. Len(s)
        PROVE  s[i].node \in Nodes /\ s[i].parent \in Nodes \cup {None}
    <2>1. s[i] \in Items
      OBVIOUS
    <2> QED BY <2>1 DEF Items
  <1> QED BY <1>1 DEF NodesOf

LEMMA FirstFacts ==
    ASSUME NEW s \in Seq(Items), NEW n \in NodesOf(s)
    PROVE  /\ First(s, n) \in 1 .. Len(s) /\ s[First(s, n)].node = n
           /\ \A j \in 1 .. Len(s) : s[j].node = n => First(s, n) <= j
  <1> DEFINE T == Occurrences(s, n)
  <1>1. T \in SUBSET Nat /\ T # {}
    BY DEF Occurrences, NodesOf
  <1>2. \E i \in T : \A j \in T : i <= j
    <2> HIDE DEF T
    <2> QED BY <1>1, LeastOf
  <1>3. First(s, n) \in T /\ \A j \in T : First(s, n) <= j
    BY <1>2 DEF First
  <1> QED BY <1>3 DEF Occurrences

LEMMA ParentsFacts ==
    ASSUME NEW s \in Seq(Items)
    PROVE  /\ DOMAIN Parents(s) = NodesOf(s) /\ Parents(s) \in Rows
           /\ \A n \in NodesOf(s) : Parents(s)[n] = s[First(s, n)].parent
  <1>1. Parents(s) = [n \in NodesOf(s) |-> s[First(s, n)].parent]
    BY DEF Parents, NodesOf
  <1>2. NodesOf(s) \subseteq Nodes
    BY ItemFacts
  <1>3. \A n \in NodesOf(s) : s[First(s, n)].parent \in Nodes \cup {None}
    BY FirstFacts, ItemFacts
  <1> QED BY <1>1, <1>2, <1>3 DEF Rows

\* Whatever paths the devices of a dump have, an import brings a tree in which every
\* node stands below a parent of the same dump: stale labels, repeated areas and paths
\* that disagree never make upsert_nodes write a cycle or leave a parent out.
THEOREM ImportsAreTrees == TreeImports
  <1> SUFFICES ASSUME NEW d \in Dumps
               PROVE  LET p == Parents(ParseDump(d)) IN
                      Acyclic(p) /\ \A n \in DOMAIN p : p[n] \in {None} \cup DOMAIN p
    BY DEF TreeImports, ImportBatches, Batch, Deduped
  <1> DEFINE s == ParseDump(d)
             p == Parents(s)
             F(n) == First(s, n)
  <1>1. s \in Seq(Items) /\ ParentsPrecede(s) /\ DOMAIN p = NodesOf(s) /\ NodesOf(s) \subseteq Nodes
    <2>1. s \in Seq(Items) /\ ParentsPrecede(s)
      BY DumpFacts
    <2> QED BY <2>1, ParentsFacts, ItemFacts
  <1>2. ASSUME NEW n \in NodesOf(s)
        PROVE  /\ F(n) \in Nat
               /\ p[n] # None => p[n] \in NodesOf(s) /\ F(p[n]) < F(n)
    <2>1. F(n) \in 1 .. Len(s) /\ p[n] = s[F(n)].parent
      BY <1>1, FirstFacts, ParentsFacts
    <2>2. ASSUME p[n] # None PROVE p[n] \in NodesOf(s) /\ F(p[n]) < F(n)
      <3>1. PICK j \in 1 .. F(n) - 1 : s[j].node = p[n]
        BY <2>1, <2>2, <1>1 DEF ParentsPrecede
      <3>2. j \in 1 .. Len(s)
        BY <2>1, <1>1
      <3>3. p[n] \in NodesOf(s)
        BY <3>1, <3>2 DEF NodesOf
      <3>4. F(p[n]) \in 1 .. Len(s) /\ F(p[n]) <= j
        BY <3>1, <3>2, <3>3, <1>1, FirstFacts
      <3> QED BY <3>1, <3>3, <3>4, <2>1
    <2> QED BY <2>1, <2>2
  <1> HIDE DEF s, p, F
  <1>3. ASSUME NEW S \in SUBSET NodesOf(s), S # {}, \A n \in S : p[n] \in S
        PROVE  FALSE
    <2>1. {F(n) : n \in S} \in SUBSET Nat /\ {F(n) : n \in S} # {}
      BY <1>2, <1>3
    <2>2. PICK n \in S : \A k \in {F(m) : m \in S} : F(n) <= k
      BY <2>1, LeastOf
    <2>3. p[n] \in S /\ p[n] # None
      BY <1>1, <1>3, StoreAssumption
    <2>4. F(p[n]) < F(n) /\ F(n) <= F(p[n]) /\ F(n) \in Nat /\ F(p[n]) \in Nat
      BY <1>2, <2>2, <2>3
    <2> QED BY <2>4
  <1>4. Acyclic(p)
    BY <1>1, <1>3 DEF Acyclic
  <1>5. \A n \in DOMAIN p : p[n] \in {None} \cup DOMAIN p
    BY <1>1, <1>2
  <1> QED BY <1>4, <1>5 DEF p, s

LEMMA AppendFacts ==
    ASSUME NEW S, NEW s \in Seq(S), NEW x \in S
    PROVE  Append(s, x) \in Seq(S) /\ ToSet(Append(s, x)) = ToSet(s) \cup {x}
  <1>1. Append(s, x) \in Seq(S) /\ Len(Append(s, x)) = Len(s) + 1
    OBVIOUS
  <1>2. \A i \in 1 .. Len(s) : Append(s, x)[i] = s[i]
    OBVIOUS
  <1>3. Append(s, x)[Len(s) + 1] = x
    OBVIOUS
  <1> QED BY <1>1, <1>2, <1>3 DEF ToSet

\* The rows of an upsert are exactly the nodes of the dump.
LEMMA RowOrderFacts ==
    ASSUME NEW s \in Seq(Items)
    PROVE  RowOrder(s) \in Seq(Nodes) /\ ToSet(RowOrder(s)) = NodesOf(s)
  <1> DEFINE N == Len(s)
             X == Seq(Nodes)
             at(k) == s[N + 1 - k].node
             step(o, n) == IF n \in ToSet(o) THEN o ELSE Append(o, n)
             g == [k \in Nat |-> [o \in X |-> IF k + 1 <= N THEN step(o, at(k + 1)) ELSE o]]
             Eq(f) == f = [k \in 0 .. N |-> IF k = 0 THEN <<>> ELSE step(f[k - 1], at(k))]
  <1>1. N \in Nat /\ <<>> \in X
    OBVIOUS
  <1>2. ASSUME NEW k \in 1 .. N PROVE at(k) \in Nodes
    BY <1>2, <1>1, ItemFacts
  <1>3. ASSUME NEW o \in X, NEW n \in Nodes
        PROVE  step(o, n) \in X /\ ToSet(step(o, n)) = ToSet(o) \cup {n}
    BY AppendFacts
  <1> HIDE DEF X, step, N, at
  <1>4. StepsWithin(g, X)
    BY <1>1, <1>2, <1>3 DEF StepsWithin
  <1>5. PICK F \in [Nat -> X] : Follows(F, <<>>, g)
    <2> HIDE DEF g
    <2> QED BY <1>1, <1>4, Recursion
  <1>6. ASSUME NEW k \in Nat, k + 1 <= N PROVE F[k + 1] = step(F[k], at(k + 1))
    <2>1. F[k] \in X /\ F[k + 1] = g[k][F[k]]
      BY <1>5 DEF Follows
    <2> QED BY <2>1, <1>6
  <1> DEFINE e == [k \in 0 .. N |-> F[k]]
  <1> HIDE DEF g
  <1>7. Eq(e)
    <2>1. ASSUME NEW k \in 0 .. N
          PROVE  e[k] = IF k = 0 THEN <<>> ELSE step(e[k - 1], at(k))
      <3>1. CASE k = 0
        BY <3>1, <1>5 DEF Follows
      <3>2. CASE k # 0
        <4>1. k - 1 \in Nat /\ k - 1 \in 0 .. N /\ (k - 1) + 1 <= N /\ (k - 1) + 1 = k
          BY <1>1, <3>2
        <4>2. F[k] = step(F[k - 1], at(k))
          BY <1>6, <4>1
        <4> QED BY <4>1, <4>2, <3>2
      <3> QED BY <3>1, <3>2
    <2> QED BY <2>1
  <1> DEFINE f == CHOOSE f : Eq(f)
  <1>8. Eq(f)
    <2> HIDE DEF Eq, e
    <2> QED BY <1>7
  <1>9. RowOrder(s) = f[N]
    BY DEF RowOrder, N, step, at
  <1> HIDE DEF f
  <1>10. f[0] = <<>> /\ \A k \in 1 .. N : f[k] = step(f[k - 1], at(k))
    <2>1. ASSUME NEW k \in 0 .. N PROVE f[k] = IF k = 0 THEN <<>> ELSE step(f[k - 1], at(k))
      BY <1>8
    <2>2. 0 \in 0 .. N /\ \A k \in 1 .. N : k \in 0 .. N /\ k # 0
      BY <1>1
    <2> QED BY <2>1, <2>2
  <1> HIDE DEF Eq
  <1> DEFINE T == {k \in Nat : k <= N => f[k] \in X /\ ToSet(f[k]) = {at(i) : i \in 1 .. k}}
  <1>11. 0 \in T
    BY <1>1, <1>10 DEF ToSet
  <1>12. ASSUME NEW k \in Nat, k \in T PROVE k + 1 \in T
    <2> SUFFICES ASSUME k + 1 <= N
                 PROVE  f[k + 1] \in X /\ ToSet(f[k + 1]) = {at(i) : i \in 1 .. k + 1}
      OBVIOUS
    <2>1. f[k] \in X /\ ToSet(f[k]) = {at(i) : i \in 1 .. k}
      BY <1>1, <1>12
    <2>2. k + 1 \in 1 .. N /\ (k + 1) - 1 = k
      BY <1>1
    <2>3. f[k + 1] = step(f[k], at(k + 1)) /\ at(k + 1) \in Nodes
      BY <1>2, <1>10, <2>2
    <2>4. {at(i) : i \in 1 .. k + 1} = {at(i) : i \in 1 .. k} \cup {at(k + 1)}
      <3>1. 1 .. k + 1 = (1 .. k) \cup {k + 1}
        OBVIOUS
      <3> QED BY <3>1
    <2> QED BY <2>1, <2>3, <2>4, <1>3
  <1>13. Nat \subseteq T
    <2> HIDE DEF T
    <2> QED BY <1>11, <1>12, Inductive
  <1>14. f[N] \in X /\ ToSet(f[N]) = {at(i) : i \in 1 .. N}
    <2>1. N \in T
      <3> HIDE DEF T
      <3> QED BY <1>1, <1>13
    <2> QED BY <2>1, <1>1
  <1>15. {at(i) : i \in 1 .. N} = NodesOf(s)
    <2>1. ASSUME NEW i \in 1 .. N PROVE N + 1 - i \in 1 .. N /\ at(N + 1 - i) = s[i].node
      BY <1>1 DEF at
    <2>2. ASSUME NEW i \in 1 .. N PROVE N + 1 - i \in 1 .. N /\ at(i) = s[N + 1 - i].node
      BY <1>1 DEF at
    <2> QED BY <2>1, <2>2 DEF NodesOf, N
  <1> QED BY <1>9, <1>14, <1>15 DEF X

(***************************************************************************)
(* The batches a request may write.                                        *)
(***************************************************************************)
LEMMA BatchFacts ==
    ASSUME NEW b \in Batches
    PROVE  /\ b.parent \in Rows /\ b.order \in Seq(Nodes)
           /\ ToSet(b.order) = DOMAIN b.parent
  <1>1. PICK s \in Seq(Items) : b = Deduped(s)
    <2>1. CASE b \in ImportBatches
      BY <2>1, DumpFacts DEF ImportBatches, Batch
    <2>2. CASE b \in EditBatches
      <3>1. PICK e \in Edits : b = Deduped(<<e>>)
        BY <2>2 DEF EditBatches
      <3>2. e \in Items
        BY StoreAssumption DEF Items
      <3>3. <<e>> \in Seq(Items)
        BY <3>2
      <3> QED BY <3>1, <3>3
    <2> QED BY <2>1, <2>2 DEF Batches
  <1> QED BY <1>1, ParentsFacts, RowOrderFacts DEF Deduped

LEMMA ImportsMeet ==
    ASSUME RootedDumps, NEW b \in ImportBatches
    PROVE  HeadOffice \in DOMAIN b.parent
  <1>1. PICK d \in Dumps : b = Deduped(ParseDump(d))
    BY DEF ImportBatches, Batch
  <1> QED BY <1>1, DumpFacts, ParentsFacts DEF Deduped

(***************************************************************************)
(* The store.  Two requests that run at once are imports, and both write   *)
(* the row of the head office.                                             *)
(***************************************************************************)
PastUpsert == {"delete", "deleting", "walk", "commit"}
Labels     == PastUpsert \cup {"idle", "upsert"}

TypeOK ==
    /\ parent \in [Nodes -> Nodes \cup {None, Absent}]
    /\ pc \in [Admins -> Labels] /\ writes \in [Admins -> Rows] /\ todo \in [Admins -> Seq(Nodes)]
    /\ DOMAIN seen = Admins /\ DOMAIN doomed = Admins
    /\ DOMAIN gone = Admins /\ DOMAIN fresh = Admins

\* The closure rows a rebuild replaces.
Replaced(t) == {r \in paths : r[1] \in DOMAIN seen[t]}

\* Whoever is past the upsert works on what will be committed.
Current(t) ==
    /\ pc[t] = "idle" => writes[t] = Nothing
    /\ pc[t] \in PastUpsert => todo[t] = <<>> /\ seen[t] = Visible(t)
    /\ pc[t] = "deleting" => doomed[t] = Replaced(t)
    /\ pc[t] \in {"walk", "commit"} => gone[t] = Replaced(t)
    /\ pc[t] = "commit" => fresh[t] = Closure(seen[t]) /\ Acyclic(seen[t])

\* Requests that run at once are imports, and a row has one owner.
Compatible(t, u) ==
    /\ pc[t] # "idle" /\ pc[u] # "idle" => Importing(t) /\ Importing(u)
    /\ Locked(t) \cap Locked(u) = {}

Sound ==
    /\ TypeOK
    /\ \A t \in Admins : Current(t)
    /\ \A t, u \in Admins : t # u => Compatible(t, u)
    /\ ClosureExact /\ Acyclic(Stored)

LEMMA SoundInit == Init => Sound
  <1> SUFFICES ASSUME Init PROVE Sound
    OBVIOUS
  <1>1. Nothing \in Rows
    BY DEF Nothing, Rows
  <1>2. Exists = {} /\ DOMAIN Stored = {}
    BY DEF Init, Exists, Stored
  <1>3. ClosureExact /\ Acyclic(Stored)
    BY <1>2 DEF Init, ClosureExact, Closure, Acyclic
  <1>4. TypeOK
    BY <1>1 DEF Init, TypeOK, Labels
  <1>5. \A t \in Admins : Current(t)
    BY DEF Init, Current, PastUpsert
  <1>6. \A t, u \in Admins : Compatible(t, u)
    BY DEF Init, Compatible, Locked, Nothing
  <1> QED BY <1>3, <1>4, <1>5, <1>6 DEF Sound

\* A request past its upsert holds the row of the head office, or is alone.
LEMMA OneAtATime ==
    ASSUME RootedDumps, Sound, NEW t \in Admins, NEW u \in Admins, t # u,
           pc[t] \in PastUpsert, pc[u] \in PastUpsert
    PROVE  FALSE
  <1>1. Importing(t) /\ Importing(u) /\ Locked(t) \cap Locked(u) = {}
    BY DEF Sound, Compatible, PastUpsert
  <1>2. HeadOffice \in DOMAIN writes[t] /\ HeadOffice \in DOMAIN writes[u]
    BY <1>1, ImportsMeet DEF Importing
  <1>3. todo[t] = <<>> /\ todo[u] = <<>>
    BY DEF Sound, Current
  <1> QED BY <1>1, <1>2, <1>3 DEF Locked, ToSet

\* A step of one session that changes no table.
LEMMA SessionStep ==
    ASSUME Sound, NEW t \in Admins, TypeOK', UNCHANGED <<parent, paths>>,
           \A u \in Admins : u # t =>
              /\ pc'[u] = pc[u] /\ writes'[u] = writes[u] /\ todo'[u] = todo[u] /\ seen'[u] = seen[u]
              /\ doomed'[u] = doomed[u] /\ gone'[u] = gone[u] /\ fresh'[u] = fresh[u],
           Current(t)', \A u \in Admins : u # t => Compatible(t, u)'
    PROVE  Sound'
  <1>1. Stored' = Stored /\ Exists' = Exists /\ ClosureExact' /\ Acyclic(Stored)'
    BY DEF Stored, Exists, ClosureExact, Sound
  <1>2. ASSUME NEW u \in Admins, u # t PROVE Current(u)'
    <2>1. Visible(u)' = Visible(u) /\ Replaced(u)' = Replaced(u)
      BY <1>1, <1>2 DEF Visible, Replaced
    <2> QED BY <2>1, <1>2 DEF Sound, Current
  <1>3. ASSUME NEW u \in Admins, NEW v \in Admins, u # v PROVE Compatible(u, v)'
    <2>1. CASE u # t /\ v # t
      BY <2>1, <1>3 DEF Sound, Compatible, Importing, Locked
    <2>2. CASE u = t
      BY <2>2, <1>3
    <2>3. CASE v = t
      BY <2>3, <1>3 DEF Compatible
    <2> QED BY <2>1, <2>2, <2>3
  <1> QED BY <1>1, <1>2, <1>3 DEF Sound

\* A rollback, whatever led to it.
LEMMA UndoKeeps ==
    ASSUME Sound, NEW t \in Admins, Undo(t), UNCHANGED <<parent, paths>>
    PROVE  Sound'
  <1> USE DEF Undo, End, GoTo
  <1>1. Nothing \in Rows
    BY DEF Nothing, Rows
  <1>2. TypeOK'
    BY <1>1 DEF Sound, TypeOK, Labels
  <1>3. pc'[t] = "idle" /\ writes'[t] = Nothing
    BY DEF Sound, TypeOK
  <1>4. Current(t)'
    BY <1>3 DEF Current, PastUpsert
  <1>5. \A u \in Admins : u # t => Compatible(t, u)'
    BY <1>3 DEF Compatible, Locked, Nothing
  <1>6. \A u \in Admins : u # t =>
           /\ pc'[u] = pc[u] /\ writes'[u] = writes[u] /\ todo'[u] = todo[u] /\ seen'[u] = seen[u]
           /\ doomed'[u] = doomed[u] /\ gone'[u] = gone[u] /\ fresh'[u] = fresh[u]
    BY DEF Sound, TypeOK
  <1> HIDE DEF Undo, End, GoTo
  <1> QED BY <1>2, <1>4, <1>5, <1>6, SessionStep

LEMMA BeginKeeps ==
    ASSUME EditsAlone, Sound, NEW t \in Admins, Begin(t)
    PROVE  Sound'
  <1>1. PICK b \in Batches :
           /\ Apart(b)
           /\ writes' = [writes EXCEPT ![t] = b.parent] /\ todo' = [todo EXCEPT ![t] = b.order]
    BY DEF Begin
  <1>2. /\ pc' = [pc EXCEPT ![t] = "upsert"] /\ UNCHANGED <<parent, paths, seen, doomed, gone, fresh>>
    BY DEF Begin, GoTo
  <1>3. b.parent \in Rows /\ b.order \in Seq(Nodes) /\ ToSet(b.order) = DOMAIN b.parent
    BY BatchFacts
  <1>4. TypeOK'
    BY <1>1, <1>2, <1>3 DEF Sound, TypeOK, Labels
  <1>5. pc'[t] = "upsert" /\ writes'[t] = b.parent /\ todo'[t] = b.order
    BY <1>1, <1>2 DEF Sound, TypeOK
  <1>6. Current(t)'
    BY <1>5 DEF Current, PastUpsert
  <1>7. \A u \in Admins : u # t =>
           /\ pc'[u] = pc[u] /\ writes'[u] = writes[u] /\ todo'[u] = todo[u] /\ seen'[u] = seen[u]
           /\ doomed'[u] = doomed[u] /\ gone'[u] = gone[u] /\ fresh'[u] = fresh[u]
    BY <1>1, <1>2 DEF Sound, TypeOK
  <1>8. ASSUME NEW u \in Admins, u # t PROVE Compatible(t, u)'
    <2>1. (Locked(t) = {})'
      BY <1>3, <1>5 DEF Locked
    <2>2. pc[u] # "idle" => Importing(t)' /\ Importing(u)'
      BY <1>1, <1>5, <1>7, <1>8 DEF Apart, Importing
    <2> QED BY <2>1, <2>2, <1>7, <1>8 DEF Compatible
  <1> QED BY <1>2, <1>4, <1>6, <1>7, <1>8, SessionStep

LEMMA TailFacts ==
    ASSUME NEW S, NEW s \in Seq(S), s # <<>>
    PROVE  Tail(s) \in Seq(S) /\ ToSet(s) \subseteq ToSet(Tail(s)) \cup {Head(s)}
  <1>1. Tail(s) \in Seq(S) /\ Len(Tail(s)) = Len(s) - 1
    OBVIOUS
  <1>2. ASSUME NEW i \in 1 .. Len(s) PROVE s[i] \in ToSet(Tail(s)) \cup {Head(s)}
    <2>1. CASE i = 1
      BY <2>1
    <2>2. CASE i # 1
      <3>1. i - 1 \in 1 .. Len(Tail(s)) /\ Tail(s)[i - 1] = s[i]
        BY <2>2, <1>1
      <3>2. DOMAIN Tail(s) = 1 .. Len(Tail(s))
        BY <1>1, Elements
      <3> QED BY <3>1, <3>2 DEF ToSet
    <2> QED BY <2>1, <2>2
  <1> QED BY <1>1, <1>2 DEF ToSet

LEMMA LockRowKeeps ==
    ASSUME Sound, NEW t \in Admins, LockRow(t)
    PROVE  Sound'
  <1>1. /\ pc[t] = "upsert" /\ todo[t] # <<>> /\ Free(t) /\ todo' = [todo EXCEPT ![t] = Tail(@)]
        /\ UNCHANGED <<parent, paths, pc, writes, seen, doomed, gone, fresh>>
    BY DEF LockRow
  <1>2. todo[t] \in Seq(Nodes) /\ Tail(todo[t]) \in Seq(Nodes)
        /\ ToSet(todo[t]) \subseteq ToSet(Tail(todo[t])) \cup {Head(todo[t])}
    <2>1. todo[t] \in Seq(Nodes)
      BY DEF Sound, TypeOK
    <2> QED BY <1>1, <2>1, TailFacts
  <1>3. TypeOK'
    BY <1>1, <1>2 DEF Sound, TypeOK
  <1>4. todo'[t] = Tail(todo[t])
    BY <1>1 DEF Sound, TypeOK
  <1>5. Current(t)'
    BY <1>1 DEF Current, PastUpsert
  <1>6. \A u \in Admins : u # t => todo'[u] = todo[u]
    BY <1>1 DEF Sound, TypeOK
  <1>7. ASSUME NEW u \in Admins, u # t PROVE Compatible(t, u)'
    <2>1. Head(todo[t]) \notin Locked(u)
      BY <1>1, <1>7 DEF Free, Waits
    <2>2. Locked(t)' \subseteq Locked(t) \cup {Head(todo[t])}
      BY <1>1, <1>2, <1>4 DEF Locked
    <2>3. Locked(u)' = Locked(u)
      BY <1>1, <1>6, <1>7 DEF Locked
    <2> QED BY <2>1, <2>2, <2>3, <1>1, <1>7 DEF Sound, Compatible, Importing
  <1> QED BY <1>1, <1>3, <1>5, <1>6, <1>7, SessionStep

LEMMA ReadNodesKeeps ==
    ASSUME Sound, NEW t \in Admins, ReadNodes(t)
    PROVE  Sound'
  <1> USE DEF ReadNodes, GoTo
  <1>1. TypeOK'
    BY DEF Sound, TypeOK, Labels, PastUpsert
  <1>2. \A u \in Admins : u # t =>
           /\ pc'[u] = pc[u] /\ writes'[u] = writes[u] /\ todo'[u] = todo[u] /\ seen'[u] = seen[u]
           /\ doomed'[u] = doomed[u] /\ gone'[u] = gone[u] /\ fresh'[u] = fresh[u]
    BY DEF Sound, TypeOK
  <1>3. pc'[t] = "delete" /\ seen'[t] = Visible(t) /\ Visible(t)' = Visible(t)
    BY DEF Sound, TypeOK, Visible, Exists
  <1>4. Current(t)'
    BY <1>3 DEF Current, PastUpsert
  <1>5. \A u \in Admins : u # t => Compatible(t, u)'
    BY <1>2 DEF Sound, Compatible, Importing, Locked
  <1> HIDE DEF ReadNodes, GoTo
  <1> QED BY <1>1, <1>2, <1>4, <1>5, SessionStep DEF ReadNodes

LEMMA FindPathsKeeps ==
    ASSUME Sound, NEW t \in Admins, FindPaths(t)
    PROVE  Sound'
  <1> USE DEF FindPaths, GoTo
  <1>1. TypeOK'
    BY DEF Sound, TypeOK, Labels, PastUpsert
  <1>2. \A u \in Admins : u # t =>
           /\ pc'[u] = pc[u] /\ writes'[u] = writes[u] /\ todo'[u] = todo[u] /\ seen'[u] = seen[u]
           /\ doomed'[u] = doomed[u] /\ gone'[u] = gone[u] /\ fresh'[u] = fresh[u]
    BY DEF Sound, TypeOK
  <1>3. /\ pc'[t] = "deleting" /\ doomed'[t] = Replaced(t)
        /\ Visible(t)' = Visible(t) /\ Replaced(t)' = Replaced(t)
    BY DEF Sound, TypeOK, Visible, Exists, Replaced
  <1>4. Current(t)'
    BY <1>3 DEF Sound, Current, PastUpsert
  <1>5. \A u \in Admins : u # t => Compatible(t, u)'
    BY <1>2 DEF Sound, Compatible, Importing, Locked
  <1> HIDE DEF FindPaths, GoTo
  <1> QED BY <1>1, <1>2, <1>4, <1>5, SessionStep DEF FindPaths

LEMMA DeletePathsKeeps ==
    ASSUME Sound, NEW t \in Admins, DeletePaths(t)
    PROVE  Sound'
  <1> USE DEF DeletePaths, GoTo
  <1>1. TypeOK'
    BY DEF Sound, TypeOK, Labels, PastUpsert
  <1>2. \A u \in Admins : u # t =>
           /\ pc'[u] = pc[u] /\ writes'[u] = writes[u] /\ todo'[u] = todo[u] /\ seen'[u] = seen[u]
           /\ doomed'[u] = doomed[u] /\ gone'[u] = gone[u] /\ fresh'[u] = fresh[u]
    BY DEF Sound, TypeOK
  <1>3. /\ pc'[t] = "walk" /\ gone'[t] = doomed[t] /\ doomed[t] = Replaced(t)
        /\ Visible(t)' = Visible(t) /\ Replaced(t)' = Replaced(t)
    BY DEF Sound, TypeOK, Visible, Exists, Replaced, Current
  <1>4. Current(t)'
    BY <1>3 DEF Sound, Current, PastUpsert
  <1>5. \A u \in Admins : u # t => Compatible(t, u)'
    BY <1>2 DEF Sound, Compatible, Importing, Locked
  <1> HIDE DEF DeletePaths, GoTo
  <1> QED BY <1>1, <1>2, <1>4, <1>5, SessionStep DEF DeletePaths

LEMMA InsertPathsKeeps ==
    ASSUME Sound, NEW t \in Admins, InsertPaths(t)
    PROVE  Sound'
  <1> USE DEF InsertPaths, GoTo
  <1>1. TypeOK'
    BY DEF Sound, TypeOK, Labels, PastUpsert
  <1>2. \A u \in Admins : u # t =>
           /\ pc'[u] = pc[u] /\ writes'[u] = writes[u] /\ todo'[u] = todo[u] /\ seen'[u] = seen[u]
           /\ doomed'[u] = doomed[u] /\ gone'[u] = gone[u] /\ fresh'[u] = fresh[u]
    BY DEF Sound, TypeOK
  <1>3. /\ pc'[t] = "commit" /\ fresh'[t] = Closure(seen[t]) /\ Acyclic(seen[t])
        /\ Visible(t)' = Visible(t) /\ Replaced(t)' = Replaced(t)
    BY DEF Sound, TypeOK, Visible, Exists, Replaced
  <1>4. Current(t)'
    BY <1>3 DEF Sound, Current, PastUpsert
  <1>5. \A u \in Admins : u # t => Compatible(t, u)'
    BY <1>2 DEF Sound, Compatible, Importing, Locked
  <1> HIDE DEF InsertPaths, GoTo
  <1> QED BY <1>1, <1>2, <1>4, <1>5, SessionStep DEF InsertPaths

\* What is committed is what the rebuild saw: nobody else was past the upsert.
LEMMA CommitKeeps ==
    ASSUME RootedDumps, Sound, NEW t \in Admins, Commit(t)
    PROVE  Sound'
  <1>1. /\ pc[t] = "commit"
        /\ parent' = [n \in Nodes |-> IF n \in DOMAIN writes[t] THEN writes[t][n] ELSE parent[n]]
        /\ paths' = (paths \ gone[t]) \cup fresh[t]
        /\ pc' = [pc EXCEPT ![t] = "idle"] /\ writes' = [writes EXCEPT ![t] = Nothing]
        /\ todo' = [todo EXCEPT ![t] = <<>>] /\ seen' = [seen EXCEPT ![t] = Nothing]
        /\ gone' = [gone EXCEPT ![t] = {}] /\ fresh' = [fresh EXCEPT ![t] = {}]
        /\ doomed' = [u \in Admins |-> IF u = t THEN {} ELSE doomed[u] \ gone[t]]
    BY DEF Commit, End, GoTo
  <1>2. /\ seen[t] = Visible(t) /\ gone[t] = Replaced(t)
        /\ fresh[t] = Closure(seen[t]) /\ Acyclic(seen[t])
    BY <1>1 DEF Sound, Current, PastUpsert
  <1>3. PICK S \in SUBSET Nodes : writes[t] \in [S -> Nodes \cup {None}]
    BY DEF Sound, TypeOK, Rows
  <1>4. parent' \in [Nodes -> Nodes \cup {None, Absent}]
    BY <1>1, <1>3 DEF Sound, TypeOK
  <1>5. Exists' = Exists \cup S
    BY <1>1, <1>3, StoreAssumption DEF Exists
  <1>6. Stored' = Visible(t)
    <2>1. Visible(t) = [n \in Exists \cup S |-> IF n \in S THEN writes[t][n] ELSE parent[n]]
      BY <1>3 DEF Visible
    <2>2. Stored' = [n \in Exists' |-> parent'[n]]
      BY DEF Stored
    <2>3. \A n \in Exists \cup S : parent'[n] = IF n \in S THEN writes[t][n] ELSE parent[n]
      BY <1>1, <1>3 DEF Exists
    <2> QED BY <2>1, <2>2, <2>3, <1>5
  <1>7. gone[t] = paths
    <2>1. \A r \in paths : r[1] \in Exists
      BY DEF Sound, ClosureExact, Closure, Stored
    <2>2. Exists \subseteq DOMAIN seen[t]
      BY <1>2 DEF Visible
    <2> QED BY <1>2, <2>1, <2>2 DEF Replaced
  <1>8. ClosureExact' /\ Acyclic(Stored)'
    BY <1>1, <1>2, <1>6, <1>7 DEF ClosureExact
  <1>9. Nothing \in Rows
    BY DEF Nothing, Rows
  <1>10. TypeOK'
    BY <1>1, <1>4, <1>9 DEF Sound, TypeOK, Labels
  <1>11. pc'[t] = "idle" /\ writes'[t] = Nothing
    BY <1>1 DEF Sound, TypeOK
  <1>12. \A u \in Admins : u # t => pc'[u] = pc[u] /\ writes'[u] = writes[u] /\ todo'[u] = todo[u]
    BY <1>1 DEF Sound, TypeOK
  <1>13. ASSUME NEW u \in Admins PROVE Current(u)'
    <2>1. CASE u = t
      BY <2>1, <1>11 DEF Current, PastUpsert
    <2>2. CASE u # t
      <3>1. pc[u] \notin PastUpsert
        BY <2>2, <1>1, OneAtATime DEF PastUpsert
      <3> QED BY <2>2, <3>1, <1>12 DEF Sound, Current, PastUpsert
    <2> QED BY <2>1, <2>2
  <1>14. ASSUME NEW u \in Admins, NEW v \in Admins, u # v PROVE Compatible(u, v)'
    <2>1. CASE u # t /\ v # t
      BY <2>1, <1>12, <1>14 DEF Sound, Compatible, Importing, Locked
    <2>2. CASE u = t \/ v = t
      BY <2>2, <1>11 DEF Compatible, Locked, Nothing
    <2> QED BY <2>1, <2>2
  <1> QED BY <1>8, <1>10, <1>13, <1>14 DEF Sound

LEMMA SoundNext ==
    ASSUME EditsAlone, RootedDumps, Sound, [Next]_vars
    PROVE  Sound'
  <1>1. ASSUME NEW t \in Admins, Step(t) PROVE Sound'
    <2>1. CASE Refuse(t)
      BY <2>1, UndoKeeps DEF Refuse
    <2>2. CASE ~ Refuse(t)
      BY <1>1, <2>2, LockRowKeeps, ReadNodesKeeps, FindPathsKeeps, DeletePathsKeeps, InsertPathsKeeps,
         CommitKeeps DEF Step
    <2> QED BY <2>1, <2>2
  <1>2. ASSUME NEW t \in Admins, Abort(t) PROVE Sound'
    BY <1>2, UndoKeeps DEF Abort
  <1>3. CASE UNCHANGED vars
    <2>1. UNCHANGED <<parent, paths, pc, writes, todo, seen, doomed, gone, fresh>>
      BY <1>3 DEF vars, session
    <2>2. Exists' = Exists /\ Stored' = Stored
      BY <2>1 DEF Exists, Stored
    <2>3. \A t \in Admins : Visible(t)' = Visible(t) /\ Replaced(t)' = Replaced(t)
      BY <2>1, <2>2 DEF Visible, Replaced
    <2>4. (\A t \in Admins : Current(t))'
      BY <2>1, <2>3 DEF Sound, Current
    <2>5. (\A t, u \in Admins : t # u => Compatible(t, u))'
      BY <2>1 DEF Sound, Compatible, Importing, Locked
    <2>6. TypeOK' /\ ClosureExact' /\ Acyclic(Stored)'
      BY <2>1, <2>2 DEF Sound, TypeOK, ClosureExact
    <2> QED BY <2>4, <2>5, <2>6 DEF Sound
  <1> QED BY <1>1, <1>2, <1>3, BeginKeeps DEF Next

LEMMA StoreSound ==
    ASSUME EditsAlone, RootedDumps
    PROVE  Spec => []Sound
  <1>1. Sound /\ [Next]_vars => Sound'
    BY SoundNext
  <1> QED BY <1>1, SoundInit, PTL DEF Spec

\* As long as edits are made alone and every dump has a device below the head office,
\* the committed closure table is the ancestor relation of the committed nodes, for any
\* number of concurrent imports, crashes and lost connections.
THEOREM ClosureStaysExact ==
    ASSUME EditsAlone, RootedDumps
    PROVE  Spec => []ClosureExact
  <1>1. Sound => ClosureExact
    BY DEF Sound
  <1> QED BY <1>1, StoreSound, PTL

\* A tree laid over rows without cycles makes no cycle.
LEMMA TreeOverAcyclic ==
    ASSUME Sound, NEW t \in Admins, Importing(t)
    PROVE  Acyclic(Visible(t))
  <1> DEFINE w == writes[t]
             v == Visible(t)
  <1>1. /\ Acyclic(w) /\ \A n \in DOMAIN w : w[n] \in {None} \cup DOMAIN w
    BY ImportsAreTrees DEF TreeImports, Importing
  <1>2. None \notin DOMAIN v /\ DOMAIN v = Exists \cup DOMAIN w
    <2>1. DOMAIN w \subseteq Nodes
      BY DEF Sound, TypeOK, Rows
    <2> QED BY <2>1, StoreAssumption DEF Visible, Exists
  <1>3. \A n \in DOMAIN v : v[n] = IF n \in DOMAIN w THEN w[n] ELSE parent[n]
    BY DEF Visible
  <1> HIDE DEF w, v
  <1> SUFFICES ASSUME NEW S \in SUBSET DOMAIN v, S # {}, \A n \in S : v[n] \in S
               PROVE  FALSE
    BY DEF Acyclic, v
  <1>4. S \cap DOMAIN w = {}
    <2>1. \A n \in S \cap DOMAIN w : w[n] \in S \cap DOMAIN w
      BY <1>1, <1>2, <1>3
    <2> QED BY <2>1, <1>1 DEF Acyclic
  <1>5. S \in SUBSET DOMAIN Stored /\ \A n \in S : Stored[n] \in S
    BY <1>2, <1>3, <1>4 DEF Stored
  <1> QED BY <1>5 DEF Sound, Acyclic

\* Under the same conditions no import starts a walk that never ends: what it lays over
\* the committed rows is a tree, and the committed rows have no cycle since a request
\* that would make one never gets to commit.
THEOREM WalksEnd ==
    ASSUME EditsAlone, RootedDumps
    PROVE  Spec => []NoEndlessWalk
  <1>1. Sound => NoEndlessWalk
    BY TreeOverAcyclic DEF Sound, Current, NoEndlessWalk, PastUpsert
  <1> QED BY <1>1, StoreSound, PTL
=============================================================================
