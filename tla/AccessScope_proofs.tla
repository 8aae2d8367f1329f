------------------------- MODULE AccessScope_proofs -------------------------
(***************************************************************************)
(* Both boundaries of an answer, for any callers, hierarchies, grants and  *)
(* number of overlapping requests: ThingsBoard's permissions above it, the *)
(* caller's region below.  What a request or a cache holds was true in a   *)
(* state the history variables still remember.                             *)
(***************************************************************************)
EXTENDS AccessScope, FiniteSetTheorems, TLAPS

Resolving == {"read prefix", "customer", "keep prefix"}
Prefixed  == {"keep prefix", "read scope", "nodes", "paths", "keep scope", "read acl", "user",
              "devices", "keep acl"}
Scoped    == {"keep scope", "read acl", "user", "devices", "keep acl", "answered"}
Permitted == {"keep acl", "answered"}
Labels    == {"idle", "title"} \cup Resolving \cup Prefixed \cup Scoped

BranchLists == [nodes : Seq(Leaves), devices : Seq(Devices)]
Requests ==
    [caller : Callers \cup {AnyCaller}, prefix : KnownPrefixes \cup {None}, rows : Hierarchy,
     branches : BranchLists, allowed : SUBSET Devices]

TypeOK ==
    /\ tree \in [KnownPrefixes -> Hierarchies]
    /\ mapping \in [Customers -> KnownPrefixes \cup {None}]
    /\ granted \in [Callers -> SUBSET Devices] /\ DOMAIN session = Callers
    /\ prefixCache \in [Customers -> KnownPrefixes \cup {Missing}]
    /\ scopeCache \in [ScopeKeys -> BranchLists \cup {Missing}]
    /\ aclCache \in [Callers -> (SUBSET Devices) \cup {Missing}]
    /\ pc \in [Slots -> Labels] /\ request \in [Slots -> Requests]
    /\ DOMAIN recentTrees = ScopeKeys /\ DOMAIN recentGrants = Callers

\* Who asks, and the prefix found for them.
Resolved(r) ==
    /\ pc[r] # "idle" => By(r) \in Callers
    /\ pc[r] \in Resolving => CallerOf[By(r)].customer \in Customers
    /\ pc[r] \in Prefixed => request[r].prefix \in KnownPrefixes

(***************************************************************************)
(* The ceiling.                                                            *)
(***************************************************************************)
Granted(r) == request[r].allowed = {} \/ (pc[r] \in Permitted /\ request[r].allowed \subseteq recentGrants[By(r)])

Ceiling ==
    /\ \A r \in Slots : Granted(r)
    /\ \A c \in Callers : aclCache[c] # Missing => aclCache[c] \subseteq recentGrants[c]

(***************************************************************************)
(* The region.                                                             *)
(***************************************************************************)
\* Every branch of b is c's in a hierarchy of T, and stands beside its device of one.
Backed(b, T, c) ==
    /\ DOMAIN b.nodes = DOMAIN b.devices
    /\ \A i \in DOMAIN b.nodes :
         /\ \E h \in T : InRegion(b.nodes[i], h, c)
         /\ \E h \in T : b.nodes[i] \in DOMAIN h.leaf /\ h.leaf[b.nodes[i]].device = b.devices[i]

Placed(r) ==
    /\ pc[r] = "paths" => request[r].rows \in recentTrees[Own(r)]
    /\ \/ request[r].branches = NoBranches
       \/ pc[r] \in Scoped /\ request[r].prefix \in KnownPrefixes
          /\ Backed(request[r].branches, recentTrees[Own(r)], By(r))

Narrowed ==
    /\ \A r \in Slots : Placed(r)
    /\ \A k \in ScopeKeys : tree[k[1]] \in recentTrees[k]
    /\ \A p \in KnownPrefixes, c \in Callers :
          scopeCache[KeyOf(p, c)] # Missing => Backed(scopeCache[KeyOf(p, c)], recentTrees[KeyOf(p, c)], c)

Sound == TypeOK /\ (\A r \in Slots : Resolved(r)) /\ Ceiling /\ Narrowed

(***************************************************************************)
(* Requests and the sequences of branches.                                 *)
(***************************************************************************)
LEMMA BlankTyped ==
    ASSUME NEW c \in Callers \cup {AnyCaller}
    PROVE  Blank(c) \in Requests /\ Blank(c).caller = c /\ Blank(c).branches = NoBranches
           /\ Blank(c).allowed = {}
  <1>1. NoLeaves \in Hierarchy
    <2>1. [l \in {} |-> [device |-> None, above |-> {}]] \in
             [{} -> [device : Devices \cup {None}, above : SUBSET Containers]]
      OBVIOUS
    <2>2. NoLeaves \in [containers : SUBSET Containers,
                        leaf : [{} -> [device : Devices \cup {None}, above : SUBSET Containers]]]
      BY <2>1 DEF NoLeaves
    <2>3. {} \in SUBSET Leaves
      OBVIOUS
    <2> QED BY <2>2, <2>3 DEF Hierarchy
  <1>2. NoBranches \in BranchLists
    BY DEF NoBranches, BranchLists
  <1> QED BY <1>1, <1>2 DEF Blank, Requests

LEMMA EndFacts ==
    ASSUME TypeOK, NEW r \in Slots, End(r)
    PROVE  /\ pc' \in [Slots -> Labels] /\ request' \in [Slots -> Requests]
           /\ pc'[r] = "idle" /\ request'[r].branches = NoBranches /\ request'[r].allowed = {}
           /\ \A s \in Slots : s # r => pc'[s] = pc[s] /\ request'[s] = request[s]
  <1>1. /\ Blank(AnyCaller) \in Requests /\ Blank(AnyCaller).branches = NoBranches
        /\ Blank(AnyCaller).allowed = {}
    BY BlankTyped
  <1> QED BY <1>1 DEF End, GoTo, TypeOK, Labels

LEMMA KeepsPrefix ==
    ASSUME TypeOK, NEW r \in Slots, NEW v \in KnownPrefixes \cup {None}, Keep(r, "prefix", v)
    PROVE  /\ request' = [request EXCEPT ![r] = request'[r]]
           /\ request'[r] \in Requests /\ request'[r].caller = By(r) /\ request'[r].prefix = v
           /\ request'[r].rows = request[r].rows /\ request'[r].branches = request[r].branches
           /\ request'[r].allowed = request[r].allowed
  <1>1. request \in [Slots -> Requests] /\ request[r] \in Requests
    BY DEF TypeOK
  <1>2. request' = [request EXCEPT ![r]["prefix"] = v]
    BY DEF Keep
  <1> QED BY <1>1, <1>2 DEF Requests, By

LEMMA KeepsRows ==
    ASSUME TypeOK, NEW r \in Slots, NEW v \in Hierarchy, Keep(r, "rows", v)
    PROVE  /\ request' = [request EXCEPT ![r] = request'[r]]
           /\ request'[r] \in Requests /\ request'[r].caller = By(r) /\ request'[r].rows = v
           /\ request'[r].prefix = request[r].prefix /\ request'[r].branches = request[r].branches
           /\ request'[r].allowed = request[r].allowed
  <1>1. request \in [Slots -> Requests] /\ request[r] \in Requests
    BY DEF TypeOK
  <1>2. request' = [request EXCEPT ![r]["rows"] = v]
    BY DEF Keep
  <1> QED BY <1>1, <1>2 DEF Requests, By

LEMMA KeepsBranches ==
    ASSUME TypeOK, NEW r \in Slots, NEW v \in BranchLists, Keep(r, "branches", v)
    PROVE  /\ request' = [request EXCEPT ![r] = request'[r]]
           /\ request'[r] \in Requests /\ request'[r].caller = By(r) /\ request'[r].branches = v
           /\ request'[r].prefix = request[r].prefix /\ request'[r].rows = request[r].rows
           /\ request'[r].allowed = request[r].allowed
  <1>1. request \in [Slots -> Requests] /\ request[r] \in Requests
    BY DEF TypeOK
  <1>2. request' = [request EXCEPT ![r]["branches"] = v]
    BY DEF Keep
  <1> QED BY <1>1, <1>2 DEF Requests, By

LEMMA KeepsAllowed ==
    ASSUME TypeOK, NEW r \in Slots, NEW v \in SUBSET Devices, Keep(r, "allowed", v)
    PROVE  /\ request' = [request EXCEPT ![r] = request'[r]]
           /\ request'[r] \in Requests /\ request'[r].caller = By(r) /\ request'[r].allowed = v
           /\ request'[r].prefix = request[r].prefix /\ request'[r].rows = request[r].rows
           /\ request'[r].branches = request[r].branches
  <1>1. request \in [Slots -> Requests] /\ request[r] \in Requests
    BY DEF TypeOK
  <1>2. request' = [request EXCEPT ![r]["allowed"] = v]
    BY DEF Keep
  <1> QED BY <1>1, <1>2 DEF Requests, By

\* A finite set of leaves has an order.
LEMMA Ordered ==
    ASSUME NEW S \in SUBSET Leaves
    PROVE  SetToSeq(S) \in Seq(S)
  <1>1. IsFiniteSet(S) /\ Cardinality(S) \in Nat
    BY ScopeAssumption, FS_Subset, FS_CardinalityType
  <1>2. \E f \in [1 .. Cardinality(S) -> S] : IsInjective(f)
    <2>1. PICK f : f \in Bijection(1 .. Cardinality(S), S)
      BY <1>1, FS_NatBijection, FS_CardinalityType DEF ExistsBijection
    <2> QED BY <2>1 DEF Bijection, Injection, IsInjective
  <1>3. SetToSeq(S) \in [1 .. Cardinality(S) -> S]
    BY <1>2 DEF SetToSeq
  <1> QED BY <1>1, <1>3

LEMMA BranchesFacts ==
    ASSUME NEW h \in Hierarchy, NEW S \in SUBSET DOMAIN h.leaf
    PROVE  LET b == Branches(h, S) IN
           /\ b \in BranchLists /\ DOMAIN b.nodes = DOMAIN b.devices
           /\ \A i \in DOMAIN b.nodes : b.nodes[i] \in S /\ h.leaf[b.nodes[i]].device = b.devices[i]
  <1> DEFINE T == {l \in S : h.leaf[l].device # None}
             nodes == SetToSeq(T)
  <1>1. /\ DOMAIN h.leaf \in SUBSET Leaves
        /\ \A l \in DOMAIN h.leaf : h.leaf[l].device \in Devices \cup {None}
    BY DEF Hierarchy
  <1>2. nodes \in Seq(T)
    BY <1>1, Ordered
  <1>3. Branches(h, S) = [nodes |-> nodes, devices |-> [i \in DOMAIN nodes |-> h.leaf[nodes[i]].device]]
    BY DEF Branches
  <1>4. nodes \in Seq(Leaves) /\ \A i \in DOMAIN nodes : nodes[i] \in T
    <2>1. T \subseteq Leaves
      BY <1>1
    <2> HIDE DEF T, nodes
    <2> QED BY <1>2, <2>1
  <1> HIDE DEF nodes
  <1>5. \A i \in DOMAIN nodes : h.leaf[nodes[i]].device \in Devices
    BY <1>1, <1>4
  <1>6. [i \in DOMAIN nodes |-> h.leaf[nodes[i]].device] \in Seq(Devices)
    <2>1. DOMAIN nodes = 1 .. Len(nodes) /\ Len(nodes) \in Nat
      BY <1>4
    <2> QED BY <1>5, <2>1
  <1> QED BY <1>3, <1>4, <1>6 DEF BranchLists

(***************************************************************************)
(* What is remembered.                                                     *)
(***************************************************************************)
LEMMA GrantsRemembered ==
    ASSUME Remember, NEW c \in Callers
    PROVE  /\ session'[c] = "live" => granted'[c] \subseteq recentGrants'[c]
           /\ (aclCache'[c] # Missing \/ \E r \in Slots : HoldsGrants(r, c)) =>
                 recentGrants[c] \subseteq recentGrants'[c]
  BY DEF Remember

LEMMA TreesRemembered ==
    ASSUME Remember, NEW k \in ScopeKeys
    PROVE  /\ tree'[k[1]] \in recentTrees'[k]
           /\ (scopeCache'[k] # Missing \/ \E r \in Slots : HoldsRows(r, k)) =>
                 recentTrees[k] \subseteq recentTrees'[k]
  BY DEF Remember

LEMMA BackedGrows ==
    ASSUME NEW b, NEW T, NEW U, T \subseteq U, NEW c, Backed(b, T, c)
    PROVE  Backed(b, U, c)
  BY DEF Backed

\* What a key stands for does not depend on who asks.
LEMMA SameKeySameRegion ==
    ASSUME NEW p, NEW q, NEW c, NEW d, KeyOf(p, c) = KeyOf(q, d), NEW b, NEW T, Backed(b, T, c)
    PROVE  p = q /\ Backed(b, T, d)
  <1>1. p = q /\ Region(c) = Region(d) /\ (Region(c) # None => CallerOf[c].explicit = CallerOf[d].explicit)
    BY DEF KeyOf
  <1>2. \A l, h : InRegion(l, h, c) <=> InRegion(l, h, d)
    BY <1>1 DEF InRegion, Matching
  <1> QED BY <1>1, <1>2 DEF Backed

\* What a request holds stays true while it does nothing.
LEMMA SlotStays ==
    ASSUME Sound, Remember, NEW s \in Slots, pc'[s] = pc[s], request'[s] = request[s]
    PROVE  Resolved(s)' /\ Granted(s)' /\ Placed(s)'
  <1>1. Resolved(s) /\ Granted(s) /\ Placed(s)
    BY DEF Sound, Ceiling, Narrowed
  <1>2. Resolved(s)'
    BY <1>1 DEF Resolved, By
  <1>3. Granted(s)'
    <2>1. CASE request[s].allowed = {}
      BY <2>1 DEF Granted
    <2>2. CASE pc[s] \in Permitted /\ request[s].allowed \subseteq recentGrants[By(s)]
      <3>1. HoldsGrants(s, By(s)) /\ By(s) \in Callers
        BY <1>1, <2>2 DEF HoldsGrants, Permitted, Resolved, By
      <3>2. recentGrants[By(s)] \subseteq recentGrants'[By(s)]
        BY <3>1, GrantsRemembered
      <3> QED BY <2>2, <3>2 DEF Granted, By
    <2> QED BY <1>1, <2>1, <2>2 DEF Granted
  <1>4. Placed(s)'
    <2>1. ASSUME pc[s] = "paths" \/ (pc[s] \in Scoped /\ request[s].prefix \in KnownPrefixes)
          PROVE  recentTrees[Own(s)] \subseteq recentTrees'[Own(s)]
      <3>1. HoldsRows(s, Own(s)) /\ By(s) \in Callers /\ request[s].prefix \in KnownPrefixes
        BY <1>1, <2>1 DEF HoldsRows, Scoped, Prefixed, Resolved, Own, By
      <3>2. Own(s) \in ScopeKeys
        BY <3>1 DEF Own, ScopeKeys
      <3> QED BY <3>1, <3>2, TreesRemembered
    <2>2. Own(s)' = Own(s) /\ By(s)' = By(s)
      BY DEF Own, By
    <2>3. pc[s] = "paths" => request[s].rows \in recentTrees'[Own(s)]
      BY <1>1, <2>1 DEF Placed
    <2>4. \/ request[s].branches = NoBranches
          \/ pc[s] \in Scoped /\ request[s].prefix \in KnownPrefixes
             /\ Backed(request[s].branches, recentTrees'[Own(s)], By(s))
      BY <1>1, <2>1, BackedGrows DEF Placed
    <2> QED BY <2>2, <2>3, <2>4 DEF Placed
  <1> QED BY <1>2, <1>3, <1>4

\* So does what a cache holds, until it expires.
LEMMA AclStays ==
    ASSUME Sound, Remember, NEW c \in Callers, aclCache'[c] \in {aclCache[c], Missing},
           aclCache'[c] # Missing
    PROVE  aclCache'[c] \subseteq recentGrants'[c]
  BY GrantsRemembered DEF Sound, Ceiling

LEMMA ScopeStays ==
    ASSUME Sound, Remember, NEW p \in KnownPrefixes, NEW c \in Callers,
           scopeCache'[KeyOf(p, c)] \in {scopeCache[KeyOf(p, c)], Missing},
           scopeCache'[KeyOf(p, c)] # Missing
    PROVE  Backed(scopeCache'[KeyOf(p, c)], recentTrees'[KeyOf(p, c)], c)
  <1> DEFINE k == KeyOf(p, c)
  <1>1. k \in ScopeKeys
    BY DEF ScopeKeys
  <1>2. Backed(scopeCache[k], recentTrees[k], c)
    BY DEF Sound, Narrowed
  <1>3. recentTrees[k] \subseteq recentTrees'[k]
    BY <1>1, TreesRemembered
  <1> QED BY <1>2, <1>3, BackedGrows

(***************************************************************************)
(* The steps of a request.                                                 *)
(***************************************************************************)
LEMMA Unread ==
    ASSUME Sound, NEW r \in Slots
    PROVE  /\ pc[r] \notin Scoped => request[r].branches = NoBranches
           /\ pc[r] \notin Permitted => request[r].allowed = {}
           /\ request[r] \in Requests
  BY DEF Sound, Ceiling, Narrowed, Granted, Placed, TypeOK

LEMMA TypeKept ==
    ASSUME Sound, Remember, NEW r \in Slots, UNCHANGED world,
           pc' = [pc EXCEPT ![r] = pc'[r]], pc'[r] \in Labels,
           request' = [request EXCEPT ![r] = request'[r]], request'[r] \in Requests,
           prefixCache' \in [Customers -> KnownPrefixes \cup {Missing}],
           scopeCache' \in [ScopeKeys -> BranchLists \cup {Missing}],
           aclCache' \in [Callers -> (SUBSET Devices) \cup {Missing}]
    PROVE  TypeOK'
  BY DEF Sound, TypeOK, world, Remember

LEMMA SlotStep ==
    ASSUME Sound, Remember, TypeOK', NEW r \in Slots,
           pc' = [pc EXCEPT ![r] = pc'[r]], request' = [request EXCEPT ![r] = request'[r]],
           Resolved(r)', Granted(r)', Placed(r)',
           \A c \in Callers : aclCache'[c] # Missing => aclCache'[c] \subseteq recentGrants'[c],
           \A p \in KnownPrefixes, c \in Callers : scopeCache'[KeyOf(p, c)] # Missing =>
               Backed(scopeCache'[KeyOf(p, c)], recentTrees'[KeyOf(p, c)], c)
    PROVE  Sound'
  <1>1. ASSUME NEW s \in Slots PROVE Resolved(s)' /\ Granted(s)' /\ Placed(s)'
    <2>1. CASE s = r
      BY <2>1
    <2>2. CASE s # r
      <3>1. pc'[s] = pc[s] /\ request'[s] = request[s]
        BY <2>2 DEF Sound, TypeOK
      <3> QED BY <3>1, SlotStays
    <2> QED BY <2>1, <2>2
  <1>2. \A k \in ScopeKeys : tree'[k[1]] \in recentTrees'[k]
    BY TreesRemembered
  <1>3. Ceiling' /\ Narrowed'
    BY <1>1, <1>2 DEF Ceiling, Narrowed
  <1> QED BY <1>1, <1>3 DEF Sound

\* A step that writes neither the scope nor the permissions to their caches.
LEMMA QuietStep ==
    ASSUME Sound, Remember, NEW r \in Slots, UNCHANGED <<world, scopeCache, aclCache>>,
           prefixCache' \in [Customers -> KnownPrefixes \cup {Missing}],
           pc' = [pc EXCEPT ![r] = pc'[r]], pc'[r] \in Labels,
           request' = [request EXCEPT ![r] = request'[r]], request'[r] \in Requests,
           Resolved(r)', Granted(r)', Placed(r)'
    PROVE  Sound'
  <1>1. TypeOK'
    <2>1. /\ scopeCache' \in [ScopeKeys -> BranchLists \cup {Missing}]
          /\ aclCache' \in [Callers -> (SUBSET Devices) \cup {Missing}]
      BY DEF Sound, TypeOK
    <2> QED BY <2>1, TypeKept
  <1>2. \A c \in Callers : aclCache'[c] # Missing => aclCache'[c] \subseteq recentGrants'[c]
    BY AclStays
  <1>3. \A p \in KnownPrefixes, c \in Callers : scopeCache'[KeyOf(p, c)] # Missing =>
               Backed(scopeCache'[KeyOf(p, c)], recentTrees'[KeyOf(p, c)], c)
    BY ScopeStays
  <1> QED BY <1>1, <1>2, <1>3, SlotStep

\* A request that goes on with the branches it has.
LEMMA StillPlaced ==
    ASSUME Sound, Remember, NEW r \in Slots, pc[r] \in Scoped, pc'[r] \in Scoped,
           request'[r].caller = By(r), request'[r].prefix = request[r].prefix,
           request'[r].branches = request[r].branches
    PROVE  Placed(r)'
  <1>1. Resolved(r) /\ Placed(r)
    BY DEF Sound, Narrowed
  <1>2. Own(r)' = Own(r) /\ By(r)' = By(r) /\ pc'[r] # "paths"
    BY DEF Own, By, Scoped
  <1>3. ASSUME request[r].prefix \in KnownPrefixes PROVE recentTrees[Own(r)] \subseteq recentTrees'[Own(r)]
    <2>1. HoldsRows(r, Own(r)) /\ By(r) \in Callers
      BY <1>1 DEF HoldsRows, Scoped, Resolved, Own, By
    <2>2. Own(r) \in ScopeKeys
      BY <1>3, <2>1 DEF Own, ScopeKeys
    <2> QED BY <2>1, <2>2, TreesRemembered
  <1>4. \/ request[r].branches = NoBranches
        \/ request[r].prefix \in KnownPrefixes /\ Backed(request[r].branches, recentTrees[Own(r)], By(r))
    BY <1>1 DEF Placed
  <1> QED BY <1>2, <1>3, <1>4, BackedGrows DEF Placed

\* Permissions a request goes on with.
LEMMA StillGranted ==
    ASSUME Sound, Remember, NEW r \in Slots, pc[r] # "idle", pc'[r] \in Permitted,
           request'[r].caller = By(r), request'[r].allowed = request[r].allowed
    PROVE  Granted(r)'
  <1>1. By(r) \in Callers /\ HoldsGrants(r, By(r)) /\ By(r)' = By(r)
    BY DEF Sound, Resolved, HoldsGrants, Permitted, By
  <1>2. recentGrants[By(r)] \subseteq recentGrants'[By(r)]
    BY <1>1, GrantsRemembered
  <1>3. Granted(r)
    BY DEF Sound, Ceiling
  <1> QED BY <1>1, <1>2, <1>3 DEF Granted

LEMMA EndKeeps ==
    ASSUME Sound, Remember, NEW r \in Slots, End(r), UNCHANGED <<world, caches>>
    PROVE  Sound'
  <1>1. /\ pc'[r] = "idle" /\ request'[r].branches = NoBranches /\ request'[r].allowed = {}
        /\ pc' = [pc EXCEPT ![r] = pc'[r]] /\ request' = [request EXCEPT ![r] = request'[r]]
        /\ pc'[r] \in Labels /\ request'[r] \in Requests
    BY EndFacts DEF Sound, TypeOK, End, GoTo
  <1>2. Resolved(r)' /\ Granted(r)' /\ Placed(r)'
    BY <1>1 DEF Resolved, Granted, Placed, Resolving, Prefixed
  <1>3. prefixCache' \in [Customers -> KnownPrefixes \cup {Missing}]
    BY DEF caches, Sound, TypeOK
  <1> QED BY <1>1, <1>2, <1>3, QuietStep DEF caches

LEMMA AskKeeps ==
    ASSUME Sound, Remember, NEW r \in Slots, NEW c \in Callers, Ask(r, c)
    PROVE  Sound'
  <1>1. /\ pc'[r] = IF CallerOf[c].customer = None THEN "title" ELSE "read prefix"
        /\ pc' = [pc EXCEPT ![r] = pc'[r]]
        /\ request'[r] = Blank(c) /\ request' = [request EXCEPT ![r] = request'[r]]
        /\ UNCHANGED <<world, caches>>
    BY DEF Ask, GoTo, Sound, TypeOK
  <1>2. /\ request'[r] \in Requests /\ request'[r].caller = c
        /\ request'[r].branches = NoBranches /\ request'[r].allowed = {}
    BY <1>1, BlankTyped
  <1>3. CallerOf[c].customer \in Customers \cup {None}
    BY ScopeAssumption
  <1>4. pc'[r] \in Labels /\ Resolved(r)' /\ Granted(r)' /\ Placed(r)'
    BY <1>1, <1>2, <1>3 DEF Labels, Resolved, Granted, Placed, Resolving, Prefixed, By
  <1>5. prefixCache' \in [Customers -> KnownPrefixes \cup {Missing}]
    BY <1>1 DEF caches, Sound, TypeOK
  <1> QED BY <1>1, <1>2, <1>4, <1>5, QuietStep DEF caches

\* A step towards the prefix.
LEMMA PrefixStep ==
    ASSUME Sound, Remember, NEW r \in Slots, pc[r] # "idle", pc[r] \notin Scoped,
           UNCHANGED <<world, scopeCache, aclCache>>,
           prefixCache' \in [Customers -> KnownPrefixes \cup {Missing}],
           pc' = [pc EXCEPT ![r] = pc'[r]], pc'[r] \in Labels \ {"paths"},
           NEW p \in KnownPrefixes \cup {None},
           Keep(r, "prefix", p) \/ (UNCHANGED request /\ p = request[r].prefix),
           pc'[r] \in Resolving => CallerOf[By(r)].customer \in Customers,
           pc'[r] \in Prefixed => p \in KnownPrefixes
    PROVE  Sound'
  <1>1. request[r] \in Requests /\ request[r].branches = NoBranches /\ request[r].allowed = {}
    BY Unread DEF Permitted, Scoped
  <1>2. /\ request' = [request EXCEPT ![r] = request'[r]]
        /\ request'[r].caller = By(r) /\ request'[r].prefix = p
        /\ request'[r].branches = NoBranches /\ request'[r].allowed = {}
        /\ request'[r] \in Requests
    <2>1. CASE Keep(r, "prefix", p)
      BY <1>1, <2>1, KeepsPrefix DEF Sound
    <2>2. CASE UNCHANGED request /\ p = request[r].prefix
      BY <1>1, <2>2 DEF Sound, TypeOK, By
    <2> QED BY <2>1, <2>2
  <1>3. By(r) \in Callers
    BY DEF Sound, Resolved
  <1>4. Resolved(r)' /\ Granted(r)' /\ Placed(r)'
    BY <1>2, <1>3 DEF Resolved, Granted, Placed, By
  <1>5. pc'[r] \in Labels
    OBVIOUS
  <1> QED BY <1>2, <1>4, <1>5, QuietStep

LEMMA FindPrefixKeeps ==
    ASSUME Sound, Remember, NEW r \in Slots,
           ReadPrefix(r) \/ LookUpCustomer(r) \/ KeepPrefix(r) \/ MatchTitle(r)
    PROVE  Sound'
  <1> DEFINE customer == CallerOf[By(r)].customer
  <1>1. /\ By(r) \in Callers \/ pc[r] = "idle"
        /\ pc[r] \in Resolving => customer \in Customers
        /\ pc[r] \in Prefixed => request[r].prefix \in KnownPrefixes
    BY DEF Sound, Resolved
  <1>2. /\ request[r].prefix \in KnownPrefixes \cup {None}
        /\ prefixCache \in [Customers -> KnownPrefixes \cup {Missing}]
        /\ mapping \in [Customers -> KnownPrefixes \cup {None}]
        /\ pc \in [Slots -> Labels]
    BY DEF Sound, TypeOK, Requests
  <1>3. CASE ReadPrefix(r)
    <2>1. pc[r] = "read prefix" /\ UNCHANGED <<world, caches>>
      BY <1>3 DEF ReadPrefix
    <2>2. CASE prefixCache[customer] = Missing
      <3>1. pc' = [pc EXCEPT ![r] = "customer"] /\ UNCHANGED request
        BY <1>3, <2>2 DEF ReadPrefix, GoTo
      <3> QED BY <1>1, <1>2, <2>1, <3>1, PrefixStep DEF Resolving, Prefixed, Labels, Scoped, caches
    <2>3. CASE prefixCache[customer] # Missing
      <3>1. pc' = [pc EXCEPT ![r] = "read scope"] /\ Keep(r, "prefix", prefixCache[customer])
        BY <1>3, <2>3 DEF ReadPrefix, GoTo
      <3>2. prefixCache[customer] \in KnownPrefixes
        BY <1>1, <1>2, <2>1, <2>3 DEF Resolving
      <3> QED BY <1>1, <1>2, <2>1, <3>1, <3>2, PrefixStep DEF Resolving, Prefixed, Labels, Scoped, caches
    <2> QED BY <2>2, <2>3
  <1>4. CASE LookUpCustomer(r)
    <2>1. pc[r] = "customer" /\ UNCHANGED <<world, caches>> /\ Keep(r, "prefix", mapping[customer])
      BY <1>4 DEF LookUpCustomer
    <2>2. pc' = [pc EXCEPT ![r] = IF mapping[customer] = None THEN "title" ELSE "keep prefix"]
      BY <1>4 DEF LookUpCustomer, GoTo
    <2>3. mapping[customer] \in KnownPrefixes \cup {None}
      BY <1>1, <1>2, <2>1 DEF Resolving
    <2>4. customer \in Customers
      BY <1>1, <2>1 DEF Resolving
    <2>5. /\ pc' = [pc EXCEPT ![r] = pc'[r]] /\ pc'[r] \in Labels \ {"paths"}
          /\ pc'[r] \in Prefixed => mapping[customer] \in KnownPrefixes
      BY <1>2, <2>2, <2>3 DEF Labels, Prefixed, Resolving
    <2> QED BY <1>2, <2>1, <2>3, <2>4, <2>5, PrefixStep DEF Scoped, caches
  <1>5. CASE KeepPrefix(r)
    <2>1. /\ pc[r] = "keep prefix" /\ pc' = [pc EXCEPT ![r] = "read scope"]
          /\ prefixCache' = [prefixCache EXCEPT ![customer] = request[r].prefix]
          /\ UNCHANGED <<world, scopeCache, aclCache, request>>
      BY <1>5 DEF KeepPrefix, GoTo
    <2>2. customer \in Customers /\ request[r].prefix \in KnownPrefixes
      BY <1>1, <2>1 DEF Resolving, Prefixed
    <2>3. prefixCache' \in [Customers -> KnownPrefixes \cup {Missing}]
      BY <1>2, <2>1, <2>2
    <2> QED BY <1>2, <2>1, <2>2, <2>3, PrefixStep DEF Prefixed, Labels, Scoped
  <1>6. CASE MatchTitle(r)
    <2> DEFINE found == CallerOf[By(r)].title
    <2>1. pc[r] = "title" /\ UNCHANGED <<world, caches>>
      BY <1>6 DEF MatchTitle
    <2>2. By(r) \in Callers /\ found \in KnownPrefixes \cup {None}
      BY <1>1, <2>1, ScopeAssumption
    <2>3. CASE found # None
      <3>1. pc' = [pc EXCEPT ![r] = "read scope"] /\ Keep(r, "prefix", found)
        BY <1>6, <2>3 DEF MatchTitle, GoTo
      <3> QED BY <1>2, <2>1, <2>2, <2>3, <3>1, PrefixStep DEF Resolving, Prefixed, Labels, Scoped, caches
    <2>4. CASE found = None /\ ~ Strict
      <3>1. pc' = [pc EXCEPT ![r] = "answered"] /\ UNCHANGED request
        BY <1>6, <2>4 DEF MatchTitle, GoTo
      <3> QED BY <1>2, <2>1, <2>2, <2>4, <3>1, PrefixStep DEF Resolving, Prefixed, Labels, Scoped, caches
    <2>5. CASE found = None /\ Strict
      BY <1>6, <2>1, <2>5, EndKeeps DEF MatchTitle
    <2> QED BY <2>3, <2>4, <2>5
  <1> QED BY <1>3, <1>4, <1>5, <1>6

(***************************************************************************)
(* The branches of the region.                                             *)
(***************************************************************************)
LEMMA ReadScopeKeeps ==
    ASSUME Sound, Remember, NEW r \in Slots, ReadScope(r)
    PROVE  Sound'
  <1>1. pc[r] = "read scope" /\ UNCHANGED <<world, caches>> /\ pc \in [Slots -> Labels]
    BY DEF ReadScope, Sound, TypeOK
  <1>2. By(r) \in Callers /\ request[r].prefix \in KnownPrefixes
    BY <1>1 DEF Sound, Resolved, Prefixed
  <1>3. prefixCache' \in [Customers -> KnownPrefixes \cup {Missing}]
    BY <1>1 DEF caches, Sound, TypeOK
  <1>4. CASE scopeCache[Own(r)] = Missing
    <2>1. pc' = [pc EXCEPT ![r] = "nodes"] /\ UNCHANGED request
      BY <1>4 DEF ReadScope, GoTo
    <2> QED BY <1>1, <1>2, <1>3, <2>1, PrefixStep DEF Resolving, Prefixed, Labels, Scoped, caches
  <1>5. CASE scopeCache[Own(r)] # Missing
    <2>1. pc' = [pc EXCEPT ![r] = "read acl"] /\ Keep(r, "branches", scopeCache[Own(r)])
      BY <1>5 DEF ReadScope, GoTo
    <2>2. Own(r) \in ScopeKeys /\ Own(r) = KeyOf(request[r].prefix, By(r))
      BY <1>2 DEF Own, ScopeKeys
    <2>3. scopeCache[Own(r)] \in BranchLists
      BY <1>5, <2>2 DEF Sound, TypeOK
    <2>4. Backed(scopeCache[Own(r)], recentTrees'[Own(r)], By(r))
      <3>1. Backed(scopeCache[Own(r)], recentTrees[Own(r)], By(r))
        BY <1>2, <1>5, <2>2 DEF Sound, Narrowed
      <3>2. recentTrees[Own(r)] \subseteq recentTrees'[Own(r)]
        BY <1>1, <1>5, <2>2, TreesRemembered DEF caches
      <3> QED BY <3>1, <3>2, BackedGrows
    <2>5. request[r] \in Requests /\ request[r].allowed = {}
      BY <1>1, Unread DEF Permitted
    <2>6. /\ request' = [request EXCEPT ![r] = request'[r]]
          /\ request'[r] \in Requests /\ request'[r].caller = By(r)
          /\ request'[r].prefix = request[r].prefix
          /\ request'[r].branches = scopeCache[Own(r)] /\ request'[r].allowed = {}
      BY <2>1, <2>3, <2>5, KeepsBranches DEF Sound
    <2>7. pc'[r] = "read acl" /\ pc'[r] \in Labels /\ pc' = [pc EXCEPT ![r] = pc'[r]]
      BY <1>1, <2>1 DEF Labels, Prefixed
    <2>8. Own(r)' = Own(r) /\ By(r)' = By(r)
      BY <2>6 DEF Own, By
    <2>9. Resolved(r)' /\ Granted(r)' /\ Placed(r)'
      BY <1>2, <2>4, <2>6, <2>7, <2>8 DEF Resolved, Granted, Placed, Resolving, Scoped
    <2> QED BY <1>1, <1>3, <2>6, <2>7, <2>9, QuietStep DEF caches
  <1> QED BY <1>4, <1>5

LEMMA ReadNodesKeeps ==
    ASSUME Sound, Remember, NEW r \in Slots, ReadNodes(r)
    PROVE  Sound'
  <1> DEFINE h == tree[request[r].prefix]
  <1>1. /\ pc[r] = "nodes" /\ UNCHANGED <<world, caches>> /\ Keep(r, "rows", h)
        /\ pc' = [pc EXCEPT ![r] = IF IsEmpty(h) THEN "read acl" ELSE "paths"]
    BY DEF ReadNodes, GoTo
  <1>2. By(r) \in Callers /\ request[r].prefix \in KnownPrefixes
    BY <1>1 DEF Sound, Resolved, Prefixed
  <1>3. h \in Hierarchy
    BY <1>2, ScopeAssumption DEF Sound, TypeOK
  <1>4. request[r].branches = NoBranches /\ request[r].allowed = {}
    BY <1>1, Unread DEF Permitted, Scoped
  <1>5. /\ request' = [request EXCEPT ![r] = request'[r]]
        /\ request'[r] \in Requests /\ request'[r].caller = By(r) /\ request'[r].rows = h
        /\ request'[r].prefix = request[r].prefix
        /\ request'[r].branches = NoBranches /\ request'[r].allowed = {}
    <2> HIDE DEF h
    <2> QED BY <1>1, <1>3, <1>4, KeepsRows DEF Sound
  <1>6. Own(r) \in ScopeKeys /\ Own(r)[1] = request[r].prefix /\ Own(r)' = Own(r)
    <2>1. Own(r) = KeyOf(request[r].prefix, By(r)) /\ Own(r)' = Own(r)
      BY <1>5 DEF Own, By
    <2>2. Own(r)[1] = request[r].prefix
      BY <2>1 DEF KeyOf
    <2>3. Own(r) \in ScopeKeys
      BY <1>2, <2>1 DEF ScopeKeys
    <2> QED BY <2>1, <2>2, <2>3
  <1>7. h \in recentTrees'[Own(r)]
    BY <1>1, <1>6, TreesRemembered DEF world
  <1>8. pc'[r] \in {"read acl", "paths"} /\ pc' = [pc EXCEPT ![r] = pc'[r]]
    BY <1>1 DEF Sound, TypeOK
  <1>9. pc'[r] \in Labels
    BY <1>8 DEF Labels, Prefixed
  <1>10. prefixCache' \in [Customers -> KnownPrefixes \cup {Missing}]
    BY <1>1 DEF caches, Sound, TypeOK
  <1> HIDE DEF h
  <1>11. Resolved(r)' /\ Granted(r)' /\ Placed(r)'
    BY <1>2, <1>5, <1>6, <1>7, <1>8 DEF Resolved, Granted, Placed, Resolving, By
  <1> QED BY <1>1, <1>5, <1>8, <1>9, <1>10, <1>11, QuietStep DEF caches

\* What the two statements of the scope find: the leaves of the first, at places in the
\* region that the first or the second shows.
LEMMA FilteredFacts ==
    ASSUME NEW r \in Slots, NEW S \in Filtered(r), NEW T,
           request[r].rows \in T, tree[request[r].prefix] \in T
    PROVE  /\ S \subseteq DOMAIN request[r].rows.leaf
           /\ \A l \in S : \E h \in T : InRegion(l, h, By(r))
  <1> DEFINE h == request[r].rows
             c == By(r)
  <1>1. CASE Region(c) = None
    BY <1>1 DEF Filtered, InRegion
  <1>2. CASE Region(c) # None /\ Matching(h, c) # {}
    <2>1. PICK m \in Matching(h, c) : S = {l \in DOMAIN h.leaf : m \in Above(r, l)}
      BY <1>2 DEF Filtered
    <2>2. Matches(m, Region(c))
      BY <2>1 DEF Matching
    <2>3. ASSUME NEW l \in S PROVE InRegion(l, tree[request[r].prefix], c)
      BY <2>1, <2>2, <2>3 DEF Above, InRegion
    <2> QED BY <2>1, <2>3
  <1>3. CASE Region(c) # None /\ Matching(h, c) = {} /\ CallerOf[c].explicit
    BY <1>3 DEF Filtered
  <1>4. CASE Region(c) # None /\ Matching(h, c) = {} /\ ~ CallerOf[c].explicit
    <2>1. S = DOMAIN h.leaf
      BY <1>4 DEF Filtered
    <2>2. \A l : InRegion(l, h, c)
      BY <1>4 DEF InRegion
    <2> QED BY <2>1, <2>2
  <1> QED BY <1>1, <1>2, <1>3, <1>4

LEMMA ReadPathsKeeps ==
    ASSUME Sound, Remember, NEW r \in Slots, ReadPaths(r)
    PROVE  Sound'
  <1> DEFINE h == request[r].rows
             T == recentTrees'[Own(r)]
  <1>1. PICK S \in Filtered(r) : Keep(r, "branches", Branches(h, S))
    BY DEF ReadPaths
  <1> DEFINE b == Branches(h, S)
  <1>2. /\ pc[r] = "paths" /\ UNCHANGED <<world, caches>>
        /\ pc' = [pc EXCEPT ![r] = "keep scope"]
    BY DEF ReadPaths, GoTo
  <1>3. /\ By(r) \in Callers /\ request[r].prefix \in KnownPrefixes
        /\ request[r] \in Requests /\ request[r].allowed = {} /\ h \in Hierarchy
    BY <1>2, Unread DEF Sound, Resolved, Prefixed, Permitted, Requests
  <1>4. Own(r) \in ScopeKeys /\ Own(r)[1] = request[r].prefix
    <2>1. Own(r) = KeyOf(request[r].prefix, By(r))
      BY DEF Own
    <2>2. Own(r)[1] = request[r].prefix
      BY <2>1 DEF KeyOf
    <2> QED BY <1>3, <2>1, <2>2 DEF ScopeKeys
  <1>5. /\ b \in BranchLists /\ DOMAIN b.nodes = DOMAIN b.devices /\ S \subseteq DOMAIN h.leaf
        /\ \A i \in DOMAIN b.nodes : b.nodes[i] \in S /\ h.leaf[b.nodes[i]].device = b.devices[i]
    <2>1. S \subseteq DOMAIN h.leaf
      <3>1. h \in {h, tree[request[r].prefix]} /\ tree[request[r].prefix] \in {h, tree[request[r].prefix]}
        OBVIOUS
      <3> HIDE DEF h
      <3> QED BY <3>1, FilteredFacts DEF h
    <2> QED BY <1>3, <2>1, BranchesFacts
  <1>6. /\ request' = [request EXCEPT ![r] = request'[r]]
        /\ request'[r] \in Requests /\ request'[r].caller = By(r) /\ request'[r].branches = b
        /\ request'[r].prefix = request[r].prefix /\ request'[r].allowed = {}
    <2>1. b \in BranchLists /\ Keep(r, "branches", b) /\ TypeOK
      BY <1>1, <1>5 DEF Sound
    <2> HIDE DEF b, h
    <2> QED BY <1>3, <2>1, KeepsBranches
  <1>7. h \in T /\ tree[request[r].prefix] \in T
    <2>1. h \in recentTrees[Own(r)]
      BY <1>2 DEF Sound, Narrowed, Placed
    <2>2. pc'[r] = "keep scope" /\ request'[r].prefix = request[r].prefix /\ request'[r].caller = By(r)
      BY <1>2, <1>6 DEF Sound, TypeOK
    <2>3. HoldsRows(r, Own(r))
      BY <2>2 DEF HoldsRows, Own
    <2>4. recentTrees[Own(r)] \subseteq T /\ tree'[request[r].prefix] \in T
      BY <1>4, <2>3, TreesRemembered
    <2> QED BY <1>2, <2>1, <2>4 DEF world
  <1>8. Backed(b, T, By(r))
    <2>1. \A l \in S : \E g \in T : InRegion(l, g, By(r))
      BY <1>7, FilteredFacts
    <2> HIDE DEF b, T, h
    <2>2. ASSUME NEW i \in DOMAIN b.nodes
          PROVE  /\ \E g \in T : InRegion(b.nodes[i], g, By(r))
                 /\ \E g \in T : b.nodes[i] \in DOMAIN g.leaf /\ g.leaf[b.nodes[i]].device = b.devices[i]
      BY <1>5, <1>7, <2>1
    <2> QED BY <1>5, <2>2 DEF Backed
  <1>9. pc'[r] = "keep scope" /\ pc' = [pc EXCEPT ![r] = pc'[r]]
    BY <1>2 DEF Sound, TypeOK
  <1>10. pc'[r] \in Labels
    BY <1>9 DEF Labels, Prefixed
  <1>11. prefixCache' \in [Customers -> KnownPrefixes \cup {Missing}]
    BY <1>2 DEF caches, Sound, TypeOK
  <1> HIDE DEF b, h
  <1>12. Resolved(r)' /\ Granted(r)' /\ Placed(r)'
    <2>1. Own(r)' = Own(r) /\ By(r)' = By(r)
      BY <1>6 DEF Own, By
    <2> QED BY <1>3, <1>6, <1>8, <1>9, <2>1 DEF Resolved, Granted, Placed, Resolving, Scoped
  <1> QED BY <1>2, <1>6, <1>9, <1>10, <1>11, <1>12, QuietStep DEF caches

LEMMA KeepScopeKeeps ==
    ASSUME Sound, Remember, NEW r \in Slots, KeepScope(r)
    PROVE  Sound'
  <1> DEFINE b == request[r].branches
  <1>1. /\ pc[r] = "keep scope" /\ pc' = [pc EXCEPT ![r] = "read acl"]
        /\ scopeCache' = [scopeCache EXCEPT ![Own(r)] = b]
        /\ UNCHANGED <<world, prefixCache, aclCache, request>>
    BY DEF KeepScope, GoTo
  <1>2. /\ By(r) \in Callers /\ request[r].prefix \in KnownPrefixes
        /\ request[r] \in Requests /\ b \in BranchLists /\ request[r].allowed = {}
    BY <1>1, Unread DEF Sound, Resolved, Prefixed, Permitted, Requests
  <1>3. Own(r) = KeyOf(request[r].prefix, By(r)) /\ Own(r) \in ScopeKeys
    BY <1>2 DEF Own, ScopeKeys
  <1>4. /\ pc'[r] = "read acl" /\ pc' = [pc EXCEPT ![r] = pc'[r]]
        /\ request' = [request EXCEPT ![r] = request'[r]] /\ request'[r] = request[r]
    BY <1>1 DEF Sound, TypeOK
  <1>5. TypeOK'
    <2>1. scopeCache' \in [ScopeKeys -> BranchLists \cup {Missing}]
      BY <1>1, <1>2, <1>3 DEF Sound, TypeOK
    <2>2. /\ prefixCache' \in [Customers -> KnownPrefixes \cup {Missing}]
          /\ aclCache' \in [Callers -> (SUBSET Devices) \cup {Missing}]
      BY <1>1 DEF Sound, TypeOK
    <2>3. pc'[r] \in Labels
      BY <1>4 DEF Labels, Prefixed
    <2> QED BY <1>1, <1>2, <1>4, <2>1, <2>2, <2>3, TypeKept
  <1>6. By(r)' = By(r) /\ Own(r)' = Own(r)
    BY <1>4 DEF By, Own
  <1>7. Placed(r)'
    BY <1>1, <1>4, StillPlaced DEF Scoped, By
  <1>8. Resolved(r)' /\ Granted(r)'
    BY <1>2, <1>4, <1>6 DEF Resolved, Granted, Resolving
  <1>9. \A c \in Callers : aclCache'[c] # Missing => aclCache'[c] \subseteq recentGrants'[c]
    BY <1>1, AclStays
  <1>10. ASSUME NEW p \in KnownPrefixes, NEW c \in Callers, scopeCache'[KeyOf(p, c)] # Missing
         PROVE  Backed(scopeCache'[KeyOf(p, c)], recentTrees'[KeyOf(p, c)], c)
    <2>1. KeyOf(p, c) \in ScopeKeys
      BY DEF ScopeKeys
    <2>2. CASE KeyOf(p, c) = Own(r)
      <3>1. scopeCache'[Own(r)] = b
        BY <1>1, <1>3 DEF Sound, TypeOK
      <3>2. Backed(b, recentTrees'[Own(r)], By(r))
        <4>1. CASE b = NoBranches
          BY <4>1 DEF Backed, NoBranches
        <4>2. CASE b # NoBranches
          BY <1>4, <1>6, <1>7, <4>2 DEF Placed
        <4> QED BY <4>1, <4>2
      <3> QED BY <1>3, <2>2, <3>1, <3>2, SameKeySameRegion
    <2>3. CASE KeyOf(p, c) # Own(r)
      <3>1. scopeCache'[KeyOf(p, c)] = scopeCache[KeyOf(p, c)]
        BY <1>1, <2>1, <2>3 DEF Sound, TypeOK
      <3> QED BY <1>10, <3>1, ScopeStays
    <2> QED BY <2>2, <2>3
  <1> QED BY <1>4, <1>5, <1>7, <1>8, <1>9, <1>10, SlotStep

(***************************************************************************)
(* The permissions.                                                        *)
(***************************************************************************)
\* A step of a request with its branches, which the permissions alone can change.
LEMMA PermissionStep ==
    ASSUME Sound, Remember, NEW r \in Slots, pc[r] \in Scoped, UNCHANGED <<world, caches>>,
           NEW label \in Scoped, label \in Prefixed => pc[r] \in Prefixed,
           pc' = [pc EXCEPT ![r] = label],
           UNCHANGED request \/ (\E D \in SUBSET Devices : Keep(r, "allowed", D)),
           Granted(r)'
    PROVE  Sound'
  <1>1. /\ pc'[r] = label /\ pc' = [pc EXCEPT ![r] = pc'[r]] /\ label \in Labels
    BY DEF Sound, TypeOK, Labels
  <1>2. /\ request' = [request EXCEPT ![r] = request'[r]]
        /\ request'[r] \in Requests /\ request'[r].caller = By(r)
        /\ request'[r].prefix = request[r].prefix /\ request'[r].branches = request[r].branches
    <2>1. CASE UNCHANGED request
      BY <2>1 DEF Sound, TypeOK, By
    <2>2. CASE \E D \in SUBSET Devices : Keep(r, "allowed", D)
      BY <2>2, KeepsAllowed DEF Sound
    <2> QED BY <2>1, <2>2
  <1>3. Placed(r)'
    BY <1>1, <1>2, StillPlaced
  <1>4. By(r) \in Callers /\ (pc[r] \in Prefixed => request[r].prefix \in KnownPrefixes)
    BY DEF Sound, Resolved, Scoped
  <1>5. Resolved(r)'
    <2>1. pc'[r] \notin Resolving
      BY <1>1 DEF Resolving, Scoped
    <2>2. By(r)' = By(r)
      BY <1>2 DEF By
    <2> QED BY <1>1, <1>2, <1>4, <2>1, <2>2 DEF Resolved
  <1>6. prefixCache' \in [Customers -> KnownPrefixes \cup {Missing}]
    BY DEF caches, Sound, TypeOK
  <1> QED BY <1>1, <1>2, <1>3, <1>5, <1>6, QuietStep DEF caches

LEMMA ReadAclKeeps ==
    ASSUME Sound, Remember, NEW r \in Slots, ReadAcl(r)
    PROVE  Sound'
  <1> DEFINE cached == aclCache[By(r)]
  <1>1. pc[r] = "read acl" /\ UNCHANGED <<world, caches>>
    BY DEF ReadAcl
  <1>2. By(r) \in Callers /\ request[r].allowed = {}
    BY <1>1, Unread DEF Sound, Resolved, Permitted
  <1>3. CASE session[By(r)] = "expired"
    BY <1>1, <1>3, EndKeeps DEF ReadAcl
  <1>4. CASE session[By(r)] # "expired" /\ cached = Missing
    <2>1. pc' = [pc EXCEPT ![r] = "user"] /\ UNCHANGED request
      BY <1>4 DEF ReadAcl, GoTo
    <2>2. Granted(r)'
      BY <1>2, <2>1 DEF Granted
    <2> QED BY <1>1, <2>1, <2>2, PermissionStep DEF Scoped, Prefixed
  <1>5. CASE session[By(r)] # "expired" /\ cached # Missing
    <2>1. pc' = [pc EXCEPT ![r] = "answered"] /\ Keep(r, "allowed", cached)
      BY <1>5 DEF ReadAcl, GoTo
    <2>2. cached \in SUBSET Devices
      BY <1>2, <1>5 DEF Sound, TypeOK
    <2>3. cached \subseteq recentGrants'[By(r)]
      BY <1>1, <1>2, <1>5, AclStays DEF caches
    <2>4. request'[r].allowed = cached /\ By(r)' = By(r)
      BY <2>1, <2>2, KeepsAllowed DEF Sound, By
    <2>5. pc'[r] \in Permitted
      BY <2>1 DEF Sound, TypeOK, Permitted
    <2>6. Granted(r)'
      BY <2>3, <2>4, <2>5 DEF Granted
    <2>7. \E D \in SUBSET Devices : Keep(r, "allowed", D)
      BY <2>1, <2>2
    <2> QED BY <1>1, <2>1, <2>6, <2>7, PermissionStep DEF Scoped, Prefixed, Resolving
  <1> QED BY <1>3, <1>4, <1>5

LEMMA AskThingsBoardKeeps ==
    ASSUME Sound, Remember, NEW r \in Slots, AskUser(r) \/ AskDevices(r)
    PROVE  Sound'
  <1>1. pc[r] \in {"user", "devices"} /\ UNCHANGED <<world, caches>>
    BY DEF AskUser, AskDevices
  <1>2. By(r) \in Callers /\ request[r].allowed = {}
    BY <1>1, Unread DEF Sound, Resolved, Permitted
  <1>3. CASE ~ Live(By(r))
    BY <1>1, <1>3, EndKeeps DEF AskUser, AskDevices
  <1>4. CASE Live(By(r)) /\ AskUser(r)
    <2>1. pc' = [pc EXCEPT ![r] = "devices"] /\ UNCHANGED request
      BY <1>4 DEF AskUser, GoTo
    <2>2. Granted(r)'
      BY <1>2, <2>1 DEF Granted
    <2> QED BY <1>1, <2>1, <2>2, PermissionStep DEF Scoped, Prefixed
  <1>5. CASE Live(By(r)) /\ AskDevices(r)
    <2> DEFINE D == granted[By(r)]
    <2>1. pc' = [pc EXCEPT ![r] = "keep acl"] /\ Keep(r, "allowed", D)
      BY <1>5 DEF AskDevices, GoTo
    <2>2. D \in SUBSET Devices
      BY <1>2 DEF Sound, TypeOK
    <2>3. D \subseteq recentGrants'[By(r)]
      BY <1>1, <1>2, <1>5, GrantsRemembered DEF Live, world
    <2>4. request'[r].allowed = D /\ By(r)' = By(r)
      BY <2>1, <2>2, KeepsAllowed DEF Sound, By
    <2>5. pc'[r] \in Permitted
      BY <2>1 DEF Sound, TypeOK, Permitted
    <2>6. Granted(r)'
      BY <2>3, <2>4, <2>5 DEF Granted
    <2>7. \E E \in SUBSET Devices : Keep(r, "allowed", E)
      BY <2>1, <2>2
    <2> QED BY <1>1, <2>1, <2>6, <2>7, PermissionStep DEF Scoped, Prefixed
  <1> QED BY <1>3, <1>4, <1>5

LEMMA KeepAclKeeps ==
    ASSUME Sound, Remember, NEW r \in Slots, KeepAcl(r)
    PROVE  Sound'
  <1>1. /\ pc[r] = "keep acl" /\ pc' = [pc EXCEPT ![r] = "answered"]
        /\ aclCache' = [aclCache EXCEPT ![By(r)] = request[r].allowed]
        /\ UNCHANGED <<world, prefixCache, scopeCache, request>>
    BY DEF KeepAcl, GoTo
  <1>2. By(r) \in Callers /\ request[r] \in Requests /\ request[r].allowed \in SUBSET Devices
    BY <1>1, Unread DEF Sound, Resolved, Requests
  <1>3. /\ pc'[r] = "answered" /\ pc' = [pc EXCEPT ![r] = pc'[r]] /\ By(r)' = By(r)
        /\ request' = [request EXCEPT ![r] = request'[r]] /\ request'[r] = request[r]
    BY <1>1 DEF Sound, TypeOK, By
  <1>4. TypeOK'
    <2>1. /\ prefixCache' \in [Customers -> KnownPrefixes \cup {Missing}]
          /\ scopeCache' \in [ScopeKeys -> BranchLists \cup {Missing}]
          /\ aclCache' \in [Callers -> (SUBSET Devices) \cup {Missing}]
      BY <1>1, <1>2 DEF Sound, TypeOK
    <2>2. pc'[r] \in Labels
      BY <1>3 DEF Labels, Scoped
    <2> QED BY <1>1, <1>2, <1>3, <2>1, <2>2, TypeKept
  <1>5. Placed(r)'
    BY <1>1, <1>3, StillPlaced DEF Scoped, By
  <1>6. Granted(r)'
    BY <1>1, <1>3, StillGranted DEF Permitted, By
  <1>7. Resolved(r)'
    BY <1>2, <1>3 DEF Resolved, Resolving, Prefixed
  <1>8. ASSUME NEW c \in Callers, aclCache'[c] # Missing PROVE aclCache'[c] \subseteq recentGrants'[c]
    <2>1. CASE c = By(r)
      BY <1>1, <1>2, <1>3, <1>6, <2>1 DEF Granted, Sound, TypeOK
    <2>2. CASE c # By(r)
      BY <1>1, <1>8, <2>2, AclStays DEF Sound, TypeOK
    <2> QED BY <2>1, <2>2
  <1>9. \A p \in KnownPrefixes, c \in Callers : scopeCache'[KeyOf(p, c)] # Missing =>
               Backed(scopeCache'[KeyOf(p, c)], recentTrees'[KeyOf(p, c)], c)
    BY <1>1, ScopeStays
  <1> QED BY <1>3, <1>4, <1>5, <1>6, <1>7, <1>8, <1>9, SlotStep

LEMMA CacheFailsKeeps ==
    ASSUME Sound, Remember, NEW r \in Slots, CacheFails(r)
    PROVE  Sound'
  <1>1. UNCHANGED <<world, caches, request>>
    BY DEF CacheFails
  <1>2. CASE pc[r] = "read scope" /\ GoTo(r, "nodes")
    <2>1. /\ pc' = [pc EXCEPT ![r] = "nodes"] /\ pc'[r] = "nodes"
      BY <1>2 DEF GoTo, Sound, TypeOK
    <2>2. By(r) \in Callers /\ request[r].prefix \in KnownPrefixes
      BY <1>2 DEF Sound, Resolved, Prefixed
    <2>3. request[r].prefix \in KnownPrefixes \cup {None}
      BY <2>2
    <2>4. prefixCache' \in [Customers -> KnownPrefixes \cup {Missing}]
      BY <1>1 DEF caches, Sound, TypeOK
    <2> QED BY <1>1, <1>2, <2>1, <2>2, <2>3, <2>4, PrefixStep DEF Labels, Resolving, Prefixed, Scoped, caches
  <1>3. CASE pc[r] \in {"keep scope", "read acl"} /\ pc' = [pc EXCEPT ![r] = pc'[r]] /\ pc'[r] \in {"read acl", "user"}
    <2>1. Granted(r)'
      BY <1>1, <1>3, Unread DEF Granted, Permitted
    <2> QED BY <1>1, <1>3, <2>1, PermissionStep DEF Scoped, Prefixed
  <1>4. CASE pc[r] = "keep acl" /\ GoTo(r, "answered")
    <2>1. pc' = [pc EXCEPT ![r] = "answered"] /\ pc'[r] = "answered"
      BY <1>4 DEF GoTo, Sound, TypeOK
    <2>2. Granted(r)'
      BY <1>1, <1>4, <2>1, StillGranted DEF Permitted, By
    <2> QED BY <1>1, <1>4, <2>1, <2>2, PermissionStep DEF Scoped, Prefixed
  <1>5. pc \in [Slots -> Labels]
    BY DEF Sound, TypeOK
  <1> QED BY <1>2, <1>3, <1>4, <1>5 DEF CacheFails, GoTo

(***************************************************************************)
(* The rest of the world, and every step together.                         *)
(***************************************************************************)
LEMMA OthersKeep ==
    ASSUME Sound, Remember, Others
    PROVE  Sound'
  <1>1. UNCHANGED <<pc, request>>
    BY DEF Others, Import, Seed, Grant, EndSession, ForgetPrefix, ForgetScope, ForgetAcl
  <1>2. /\ \A c \in Callers : aclCache'[c] \in {aclCache[c], Missing}
        /\ \A k \in ScopeKeys : scopeCache'[k] \in {scopeCache[k], Missing}
    BY DEF Others, Import, Seed, Grant, EndSession, ForgetPrefix, ForgetScope, ForgetAcl, caches, Sound, TypeOK
  <1>3. TypeOK'
    <2>1. DOMAIN recentTrees' = ScopeKeys /\ DOMAIN recentGrants' = Callers
      BY DEF Remember
    <2> USE DEF Sound, TypeOK, caches
    <2>2. CASE \E p \in KnownPrefixes, h \in Hierarchies : Import(p, h)
      BY <2>1, <2>2 DEF Import
    <2>3. CASE \E k \in Customers, p \in KnownPrefixes : Seed(k, p)
      BY <2>1, <2>3 DEF Seed
    <2>4. CASE \E c \in Callers : \/ ForgetAcl(c)
                                  \/ \E D \in Grants : Grant(c, D)
                                  \/ \E how \in {"revoked", "expired"} : EndSession(c, how)
      BY <2>1, <2>4, ScopeAssumption DEF ForgetAcl, Grant, EndSession, world
    <2>5. CASE \E k \in Customers : ForgetPrefix(k)
      BY <2>1, <2>5 DEF ForgetPrefix, world
    <2>6. CASE \E k \in ScopeKeys : ForgetScope(k)
      BY <2>1, <2>6 DEF ForgetScope, world
    <2> QED BY <2>2, <2>3, <2>4, <2>5, <2>6 DEF Others
  <1>4. \A r \in Slots : Resolved(r)' /\ Granted(r)' /\ Placed(r)'
    BY <1>1, SlotStays
  <1>5. Ceiling'
    BY <1>2, <1>4, AclStays DEF Ceiling
  <1>6. Narrowed'
    <2>1. \A k \in ScopeKeys : tree'[k[1]] \in recentTrees'[k]
      BY TreesRemembered
    <2>2. ASSUME NEW p \in KnownPrefixes, NEW c \in Callers, scopeCache'[KeyOf(p, c)] # Missing
          PROVE  Backed(scopeCache'[KeyOf(p, c)], recentTrees'[KeyOf(p, c)], c)
      <3>1. KeyOf(p, c) \in ScopeKeys
        BY DEF ScopeKeys
      <3> QED BY <1>2, <2>2, <3>1, ScopeStays
    <2> QED BY <1>4, <2>1, <2>2 DEF Narrowed
  <1> QED BY <1>3, <1>4, <1>5, <1>6 DEF Sound

LEMMA SoundInit == Init => Sound
  <1> SUFFICES ASSUME Init PROVE Sound
    OBVIOUS
  <1>1. Blank(AnyCaller) \in Requests /\ Blank(AnyCaller).branches = NoBranches
        /\ Blank(AnyCaller).allowed = {}
    BY BlankTyped
  <1>2. TypeOK
    <2>1. request \in [Slots -> Requests] /\ pc \in [Slots -> Labels]
      BY <1>1 DEF Init, Labels
    <2> QED BY <2>1 DEF Init, TypeOK
  <1>3. \A r \in Slots : pc[r] = "idle" /\ request[r].branches = NoBranches /\ request[r].allowed = {}
    BY <1>1 DEF Init
  <1>4. \A r \in Slots : Resolved(r) /\ Granted(r) /\ Placed(r)
    BY <1>3 DEF Resolved, Granted, Placed, Resolving, Prefixed
  <1>5. Ceiling
    BY <1>4 DEF Init, Ceiling
  <1>6. Narrowed
    <2>1. \A p \in KnownPrefixes, c \in Callers : scopeCache[KeyOf(p, c)] = Missing
      BY DEF Init, ScopeKeys
    <2> QED BY <1>4, <2>1 DEF Init, Narrowed
  <1> QED BY <1>2, <1>4, <1>5, <1>6 DEF Sound

LEMMA SoundNext ==
    ASSUME Sound, [Next]_vars
    PROVE  Sound'
  <1>1. ASSUME NEW r \in Slots, Step(r), Remember PROVE Sound'
    <2>1. CASE Reply(r)
      BY <1>1, <2>1, EndKeeps DEF Reply
    <2>2. CASE ~ Reply(r)
      BY <1>1, <2>2, FindPrefixKeeps, ReadScopeKeeps, ReadNodesKeeps, ReadPathsKeeps, KeepScopeKeeps,
         ReadAclKeeps, AskThingsBoardKeeps, KeepAclKeeps DEF Step
    <2> QED BY <2>1, <2>2
  <1>2. ASSUME NEW r \in Slots, Fails(r), Remember PROVE Sound'
    BY <1>2, EndKeeps DEF Fails
  <1>3. CASE Next
    BY <1>1, <1>2, <1>3, CacheFailsKeeps, AskKeeps, OthersKeep DEF Next
  <1>4. CASE UNCHANGED vars
    <2>1. UNCHANGED <<tree, mapping, granted, session, prefixCache, scopeCache, aclCache, pc, request,
                      recentTrees, recentGrants>>
      BY <1>4 DEF vars, world, caches
    <2>2. TypeOK'
      BY <2>1 DEF Sound, TypeOK
    <2>3. \A r \in Slots : By(r)' = By(r) /\ Own(r)' = Own(r)
      BY <2>1 DEF By, Own
    <2>4. \A r \in Slots : Resolved(r)' /\ Granted(r)' /\ Placed(r)'
      BY <2>1, <2>3 DEF Sound, Ceiling, Narrowed, Resolved, Granted, Placed
    <2>5. Ceiling'
      BY <2>1, <2>4 DEF Sound, Ceiling
    <2>6. Narrowed'
      BY <2>1, <2>4 DEF Sound, Narrowed
    <2> QED BY <2>2, <2>4, <2>5, <2>6 DEF Sound
  <1> QED BY <1>3, <1>4

LEMMA ScopeSound == Spec => []Sound
  <1>1. Sound /\ [Next]_vars => Sound'
    BY SoundNext
  <1> QED BY <1>1, SoundInit, PTL DEF Spec

(***************************************************************************)
(* The two boundaries.                                                     *)
(***************************************************************************)
\* An answer holds no device that ThingsBoard withdrew, or whose session ended, before
\* the caller's permissions were last read anew: for any number of overlapping
\* requests, expiring caches and failing calls.
THEOREM CeilingHolds == Spec => []WithinCeiling
  <1>1. Sound => WithinCeiling
    <2> SUFFICES ASSUME Sound, NEW r \in Slots, Answered(r)
                 PROVE  ToSet(Answer(r).devices) \subseteq recentGrants[By(r)]
      BY DEF WithinCeiling
    <2>1. ToSet(Answer(r).devices) \subseteq request[r].allowed
      BY DEF Answer, ToSet
    <2>2. Granted(r)
      BY DEF Sound, Ceiling
    <2> QED BY <2>1, <2>2 DEF Granted
  <1> QED BY <1>1, ScopeSound, PTL

\* Every branch of an answer is the caller's in a hierarchy that was committed since
\* the scope was last read anew, and is named beside the device of one, whatever
\* imports come between the statements and the caches of a request.
THEOREM RegionHolds == Spec => []WithinRegion
  <1>1. Sound => WithinRegion
    <2> SUFFICES ASSUME Sound, NEW r \in Slots, Answered(r)
                 PROVE  /\ DOMAIN Answer(r).nodes = DOMAIN Answer(r).devices
                        /\ \A i \in DOMAIN Answer(r).nodes :
                             /\ \E h \in recentTrees[Own(r)] : InRegion(Answer(r).nodes[i], h, By(r))
                             /\ \E h \in recentTrees[Own(r)] :
                                   /\ Answer(r).nodes[i] \in DOMAIN h.leaf
                                   /\ h.leaf[Answer(r).nodes[i]].device = Answer(r).devices[i]
      BY DEF WithinRegion
    <2> DEFINE b == request[r].branches
               kept == {i \in DOMAIN b.devices : b.devices[i] \in request[r].allowed}
    <2>1. Backed(b, recentTrees[Own(r)], By(r))
      <3>1. CASE b = NoBranches
        BY <3>1 DEF Backed, NoBranches
      <3>2. CASE b # NoBranches
        BY <3>2 DEF Sound, Narrowed, Placed
      <3> QED BY <3>1, <3>2
    <2>2. Len(b.nodes) = Len(b.devices)
      <3>1. b.nodes \in Seq(Leaves) /\ b.devices \in Seq(Devices)
        BY DEF Sound, TypeOK, Requests, BranchLists
      <3> QED BY <2>1, <3>1 DEF Backed
    <2>3. /\ Answer(r).nodes = [i \in kept |-> b.nodes[i]]
          /\ Answer(r).devices = [i \in kept |-> b.devices[i]]
      BY <2>2 DEF Answer
    <2>4. DOMAIN Answer(r).nodes = DOMAIN Answer(r).devices
      BY <2>3
    <2>5. ASSUME NEW i \in DOMAIN Answer(r).nodes
          PROVE  /\ i \in DOMAIN b.nodes
                 /\ Answer(r).nodes[i] = b.nodes[i] /\ Answer(r).devices[i] = b.devices[i]
      BY <2>1, <2>3 DEF Backed
    <2> HIDE DEF b, kept
    <2> QED BY <2>1, <2>4, <2>5 DEF Backed
  <1> QED BY <1>1, ScopeSound, PTL
=============================================================================
