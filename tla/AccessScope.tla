---------------------------- MODULE AccessScope ----------------------------
(***************************************************************************)
(* Which branches a caller may be told about: the caller's customer prefix *)
(* (customers.py), the branches of that prefix below the caller's region   *)
(* (branch_scope), cut down to the devices ThingsBoard authorizes          *)
(* (authorized_device_ids, resolved_scope). Each of the three answers has  *)
(* a Redis cache with a lifetime of its own; the requests of all callers   *)
(* interleave at every await with one another, with hierarchy imports and  *)
(* with what ThingsBoard grants and revokes.                               *)
(*                                                                         *)
(* A hierarchy is what HierarchyStore commits: leaves, and for each leaf   *)
(* its device and the containers above it.                                 *)
(***************************************************************************)
EXTENDS Naturals, FiniteSets, SequencesExt

CONSTANTS
    Customers, KnownPrefixes, Devices, Leaves, Containers,
    None,          \* no prefix, no region, no device
    Missing,       \* no such key in Redis
    NameOf,        \* container -> the words of its name: [kind, rest]
    RegionKinds,   \* REGION_PREFIXES
    Hierarchies,   \* the hierarchies an import may commit
    Callers,       \* tokens: each stands for one signed-in user
    CallerOf,      \* caller -> [customer, title, region, explicit]
    Grants,        \* the device sets ThingsBoard may grant
    Strict,        \* settings.strict_customer_mapping
    Slots,         \* requests that may be under way at once
    MaxChanges,    \* bound: imports, seedings, grants and ended sessions
    MaxFaults      \* bound: failed calls

Hierarchy ==
    UNION {[containers : SUBSET Containers,
            leaf : [S -> [device : Devices \cup {None}, above : SUBSET Containers]]] :
              S \in SUBSET Leaves}

ASSUME ScopeAssumption ==
    /\ Hierarchies \subseteq Hierarchy /\ IsFiniteSet(Leaves)
    /\ None \notin KnownPrefixes \cup Devices \cup Customers
    /\ Grants \subseteq SUBSET Devices
    /\ DOMAIN CallerOf = Callers
    /\ \A c \in Callers : CallerOf[c].customer \in Customers \cup {None}
                          /\ CallerOf[c].title \in KnownPrefixes \cup {None}
    /\ Strict \in BOOLEAN
    /\ MaxChanges \in Nat /\ MaxFaults \in Nat

VARIABLES
    tree,         \* prefix -> the committed hierarchy
    mapping,      \* customer table: customer -> prefix or None
    granted,      \* caller -> the devices ThingsBoard lets it see
    session,      \* caller -> "live", "revoked" (only ThingsBoard knows) or "expired"
    prefixCache,  \* customer:prefix:<id>
    scopeCache,   \* branch_scope:v2:<prefix>:<scope>
    aclCache,     \* tbacl:v1:<token>
    pc,           \* slot -> where its request stands
    request,      \* slot -> [caller, prefix, rows, branches, allowed]
    recentTrees,  \* scope key -> hierarchies an answer may still go back to
    recentGrants, \* caller -> devices an answer may still go back to
    changes, faults

world  == <<tree, mapping, granted, session, changes>>
caches == <<prefixCache, scopeCache, aclCache>>
vars   == <<world, caches, pc, request, recentTrees, recentGrants, faults>>

NoBranches == [nodes |-> <<>>, devices |-> <<>>]
NoLeaves   == [containers |-> {}, leaf |-> [l \in {} |-> [device |-> None, above |-> {}]]]
Blank(c)   == [caller |-> c, prefix |-> None, rows |-> NoLeaves,
               branches |-> NoBranches, allowed |-> {}]
AnyCaller  == CHOOSE c \in Callers : TRUE

Region(c) == CallerOf[c].region

\* The cached list is the filtered one, so its key names the scope and how it was found.
KeyOfRegion(prefix, c) == <<prefix, Region(c)>>                            \* mutant
KeyOf(prefix, c) ==
    <<prefix, Region(c), IF Region(c) = None THEN FALSE ELSE CallerOf[c].explicit>>
ScopeKeys == {KeyOf(p, c) : p \in KnownPrefixes, c \in Callers}

Fault == faults < MaxFaults /\ faults' = faults + 1
GoTo(r, label) == pc' = [pc EXCEPT ![r] = label]
Keep(r, field, value) == request' = [request EXCEPT ![r][field] = value]
By(r)   == request[r].caller
Own(r)  == KeyOf(request[r].prefix, By(r))

\* A request that ends, with an answer or an error.
End(r) == /\ GoTo(r, "idle")
          /\ request' = [request EXCEPT ![r] = Blank(AnyCaller)]

Init ==
    /\ tree \in [KnownPrefixes -> Hierarchies]
    /\ mapping \in [Customers -> KnownPrefixes \cup {None}]
    /\ granted = [c \in Callers |-> Devices]
    /\ session = [c \in Callers |-> "live"]
    /\ prefixCache = [k \in Customers |-> Missing]
    /\ scopeCache = [k \in ScopeKeys |-> Missing]
    /\ aclCache = [c \in Callers |-> Missing]
    /\ pc = [r \in Slots |-> "idle"]
    /\ request = [r \in Slots |-> Blank(AnyCaller)]
    /\ recentTrees = [k \in ScopeKeys |-> {tree[k[1]]}]
    /\ recentGrants = [c \in Callers |-> Devices]
    /\ changes = 0 /\ faults = 0

----------------------------------------------------------------------------
(* current_tenant: the customer's prefix. *)

Ask(r, c) ==
    /\ pc[r] = "idle"
    /\ request' = [request EXCEPT ![r] = Blank(c)]
    /\ GoTo(r, IF CallerOf[c].customer = None THEN "title" ELSE "read prefix")
    /\ UNCHANGED <<world, caches, faults>>

ReadPrefix(r) ==
    LET cached == prefixCache[CallerOf[By(r)].customer] IN
    /\ pc[r] = "read prefix"
    /\ IF cached = Missing
         THEN GoTo(r, "customer") /\ UNCHANGED request
         ELSE GoTo(r, "read scope") /\ Keep(r, "prefix", cached)
    /\ UNCHANGED <<world, caches, faults>>

LookUpCustomer(r) ==
    LET found == mapping[CallerOf[By(r)].customer] IN
    /\ pc[r] = "customer"
    /\ Keep(r, "prefix", found)
    /\ GoTo(r, IF found = None THEN "title" ELSE "keep prefix")
    /\ UNCHANGED <<world, caches, faults>>

KeepPrefix(r) ==
    /\ pc[r] = "keep prefix"
    /\ prefixCache' = [prefixCache EXCEPT ![CallerOf[By(r)].customer] = request[r].prefix]
    /\ GoTo(r, "read scope")
    /\ UNCHANGED <<world, scopeCache, aclCache, request, faults>>

\* A customer the table does not know goes by its title. Without a prefix the
\* request is refused, or answered with nothing.
MatchTitle(r) ==
    LET found == CallerOf[By(r)].title IN
    /\ pc[r] = "title"
    /\ IF found # None THEN Keep(r, "prefix", found) /\ GoTo(r, "read scope")
       ELSE IF Strict THEN End(r)
       ELSE GoTo(r, "answered") /\ UNCHANGED request
    /\ UNCHANGED <<world, caches, faults>>

----------------------------------------------------------------------------
(* branch_scope: the branches of the prefix below the caller's region. *)

ReadScope(r) ==
    LET cached == scopeCache[Own(r)] IN
    /\ pc[r] = "read scope"
    /\ IF cached = Missing
         THEN GoTo(r, "nodes") /\ UNCHANGED request
         ELSE GoTo(r, "read acl") /\ Keep(r, "branches", cached)
    /\ UNCHANGED <<world, caches, faults>>

IsEmpty(h) == h.containers = {} /\ DOMAIN h.leaf = {}

\* The nodes. A customer without any has no branches, and that is not cached.
ReadNodes(r) ==
    LET h == tree[request[r].prefix] IN
    /\ pc[r] = "nodes"
    /\ Keep(r, "rows", h)
    /\ GoTo(r, IF IsEmpty(h) THEN "read acl" ELSE "paths")
    /\ UNCHANGED <<world, caches, faults>>

\* _matches_region_node: the same name, or a region with the same rest.
Matches(c, name) ==
    \/ NameOf[c] = name
    \/ name.kind \in RegionKinds /\ name.rest # "" /\ NameOf[c].rest = name.rest

Matching(h, c) == {m \in h.containers : Matches(m, Region(c))}

\* What the closure table says of a leaf when it is read.
Above(r, l) == LET h == tree[request[r].prefix] IN
               IF l \in DOMAIN h.leaf THEN h.leaf[l].above ELSE {}

\* filter_branches. Which of several matching containers comes first is up to the
\* database, whose rows come in no order.
Filtered(r) ==
    LET h == request[r].rows
        c == By(r)
    IN IF Region(c) = None THEN {DOMAIN h.leaf}
       ELSE IF Matching(h, c) # {}
         THEN {{l \in DOMAIN h.leaf : m \in Above(r, l)} : m \in Matching(h, c)}
       ELSE IF CallerOf[c].explicit THEN {{}}
       ELSE {DOMAIN h.leaf}

\* Two lists, position by position; a leaf without a device is in neither.
Branches(h, S) ==
    LET nodes == SetToSeq({l \in S : h.leaf[l].device # None}) IN
    [nodes |-> nodes, devices |-> [i \in DOMAIN nodes |-> h.leaf[nodes[i]].device]]

ReadPaths(r) ==
    /\ pc[r] = "paths"
    /\ \E S \in Filtered(r) : Keep(r, "branches", Branches(request[r].rows, S))
    /\ GoTo(r, "keep scope")
    /\ UNCHANGED <<world, caches, faults>>

KeepScope(r) ==
    /\ pc[r] = "keep scope"
    /\ scopeCache' = [scopeCache EXCEPT ![Own(r)] = request[r].branches]
    /\ GoTo(r, "read acl")
    /\ UNCHANGED <<world, prefixCache, aclCache, request, faults>>

----------------------------------------------------------------------------
(* authorized_device_ids: what ThingsBoard lets the caller see. *)

\* A token past its expiry is turned away before the cache is asked.
ReadAcl(r) ==
    LET cached == aclCache[By(r)] IN
    /\ pc[r] = "read acl"
    /\ IF session[By(r)] = "expired" THEN End(r)
       ELSE IF cached = Missing THEN GoTo(r, "user") /\ UNCHANGED request
       ELSE GoTo(r, "answered") /\ Keep(r, "allowed", cached)
    /\ UNCHANGED <<world, caches, faults>>

Live(c) == session[c] = "live"

\* Mutant: an unconfirmed caller is answered from the local scope.
AskUserOpen(r) ==
    /\ pc[r] = "user"
    /\ IF Live(By(r)) THEN GoTo(r, "devices") /\ UNCHANGED request
       ELSE GoTo(r, "answered") /\ Keep(r, "allowed", Devices)
    /\ UNCHANGED <<world, caches, faults>>

\* GET /api/auth/user. A rejected token ends the request.
AskUser(r) ==
    /\ pc[r] = "user"
    /\ IF Live(By(r)) THEN GoTo(r, "devices") /\ UNCHANGED request ELSE End(r)
    /\ UNCHANGED <<world, caches, faults>>

AskDevices(r) ==
    /\ pc[r] = "devices"
    /\ IF Live(By(r)) THEN GoTo(r, "keep acl") /\ Keep(r, "allowed", granted[By(r)]) ELSE End(r)
    /\ UNCHANGED <<world, caches, faults>>

KeepAcl(r) ==
    /\ pc[r] = "keep acl"
    /\ aclCache' = [aclCache EXCEPT ![By(r)] = request[r].allowed]
    /\ GoTo(r, "answered")
    /\ UNCHANGED <<world, prefixCache, scopeCache, request, faults>>

\* resolved_scope: the branches whose device ThingsBoard authorizes, each at the place
\* it had. Lists that do not match lose their names.
Answer(r) ==
    LET b == request[r].branches
        kept == {i \in DOMAIN b.devices : b.devices[i] \in request[r].allowed}
    IN [nodes |-> [i \in IF Len(b.nodes) = Len(b.devices) THEN kept ELSE {} |-> b.nodes[i]],
        devices |-> [i \in kept |-> b.devices[i]]]

Reply(r) ==
    /\ pc[r] = "answered"
    /\ End(r)
    /\ UNCHANGED <<world, caches, faults>>

----------------------------------------------------------------------------
(* Failures. *)

\* Redis while the prefix is resolved, the database, or ThingsBoard: the request ends.
Fails(r) ==
    /\ pc[r] \in {"read prefix", "customer", "keep prefix", "nodes", "paths", "user", "devices"}
    /\ Fault
    /\ End(r)
    /\ UNCHANGED <<world, caches>>

\* A cache of the scope or of the permissions that does not answer costs a query.
CacheFails(r) ==
    /\ \/ pc[r] = "read scope" /\ GoTo(r, "nodes")
       \/ pc[r] = "keep scope" /\ GoTo(r, "read acl")
       \/ pc[r] = "read acl" /\ session[By(r)] # "expired" /\ GoTo(r, "user")
       \/ pc[r] = "keep acl" /\ GoTo(r, "answered")
    /\ Fault
    /\ UNCHANGED <<world, caches, request>>

Step(r) ==
    \/ ReadPrefix(r) \/ LookUpCustomer(r) \/ KeepPrefix(r) \/ MatchTitle(r)
    \/ ReadScope(r) \/ ReadNodes(r) \/ ReadPaths(r) \/ KeepScope(r)
    \/ ReadAcl(r) \/ AskUser(r) \/ AskDevices(r) \/ KeepAcl(r) \/ Reply(r)

----------------------------------------------------------------------------
(* The rest of the world. *)

Change == changes < MaxChanges /\ changes' = changes + 1

\* An admin commits an import.
Import(p, h) ==
    /\ Change
    /\ tree' = [tree EXCEPT ![p] = h]
    /\ UNCHANGED <<mapping, granted, session, caches, pc, request, faults>>

\* scripts/seed_customers.py
Seed(k, p) ==
    /\ Change
    /\ mapping' = [mapping EXCEPT ![k] = p]
    /\ UNCHANGED <<tree, granted, session, caches, pc, request, faults>>

Grant(c, D) ==
    /\ Change
    /\ granted' = [granted EXCEPT ![c] = D]
    /\ UNCHANGED <<tree, mapping, session, caches, pc, request, faults>>

EndSession(c, how) ==
    /\ session[c] = "live"
    /\ Change
    /\ session' = [session EXCEPT ![c] = how]
    /\ UNCHANGED <<tree, mapping, granted, caches, pc, request, faults>>

ForgetPrefix(k) ==
    /\ prefixCache[k] # Missing
    /\ prefixCache' = [prefixCache EXCEPT ![k] = Missing]
    /\ UNCHANGED <<world, scopeCache, aclCache, pc, request, faults>>

ForgetScope(k) ==
    /\ scopeCache[k] # Missing
    /\ scopeCache' = [scopeCache EXCEPT ![k] = Missing]
    /\ UNCHANGED <<world, prefixCache, aclCache, pc, request, faults>>

ForgetNever(c) == FALSE /\ UNCHANGED vars              \* mutant: SET without EX

ForgetAcl(c) ==
    /\ aclCache[c] # Missing
    /\ aclCache' = [aclCache EXCEPT ![c] = Missing]
    /\ UNCHANGED <<world, prefixCache, scopeCache, pc, request, faults>>

Others ==
    \/ \E p \in KnownPrefixes, h \in Hierarchies : Import(p, h)
    \/ \E k \in Customers, p \in KnownPrefixes : Seed(k, p)
    \/ \E c \in Callers : \/ ForgetAcl(c)
                          \/ \E D \in Grants : Grant(c, D)
                          \/ \E how \in {"revoked", "expired"} : EndSession(c, how)
    \/ \E k \in Customers : ForgetPrefix(k)
    \/ \E k \in ScopeKeys : ForgetScope(k)

\* What an answer may go back to: all there was since the last moment at which
\* neither the cache nor a request held any of it.
HoldsRows(r, k)  == pc'[r] \in {"paths", "keep scope", "read acl", "user", "devices", "keep acl", "answered"}
                    /\ KeyOf(request'[r].prefix, request'[r].caller) = k
HoldsGrants(r, c) == pc'[r] \in {"keep acl", "answered"} /\ request'[r].caller = c

Remember ==
    /\ recentTrees' = [k \in ScopeKeys |->
         IF scopeCache'[k] = Missing /\ \A r \in Slots : ~ HoldsRows(r, k)
           THEN {tree'[k[1]]} ELSE recentTrees[k] \cup {tree'[k[1]]}]
    /\ recentGrants' = [c \in Callers |->
         LET now == IF session'[c] = "live" THEN granted'[c] ELSE {} IN
         IF aclCache'[c] = Missing /\ \A r \in Slots : ~ HoldsGrants(r, c)
           THEN now ELSE recentGrants[c] \cup now]

Next ==
    /\ \/ \E r \in Slots : Step(r) \/ Fails(r) \/ CacheFails(r) \/ \E c \in Callers : Ask(r, c)
       \/ Others
    /\ Remember

Spec == Init /\ [][Next]_vars

\* Requests go on, and what is cached expires.
FairSpec ==
    /\ Spec
    /\ \A r \in Slots : WF_vars(Step(r) /\ Remember)
    /\ \A k \in Customers : WF_vars(ForgetPrefix(k) /\ Remember)
    /\ \A k \in ScopeKeys : WF_vars(ForgetScope(k) /\ Remember)
    /\ \A c \in Callers : WF_vars(ForgetAcl(c) /\ Remember)

----------------------------------------------------------------------------
(* Properties. *)

Answered(r) == pc[r] = "answered"

\* ThingsBoard is the ceiling: an answer holds no device that was withdrawn, nor
\* anything for a session that ended, before the permissions were last read anew.
WithinCeiling ==
    \A r \in Slots : Answered(r) => ToSet(Answer(r).devices) \subseteq recentGrants[By(r)]

InRegion(l, h, c) ==
    \/ Region(c) = None
    \/ ~ CallerOf[c].explicit /\ Matching(h, c) = {}
    \/ l \in DOMAIN h.leaf /\ \E m \in h.leaf[l].above : Matches(m, Region(c))

\* The local hierarchy narrows it: every branch is, in a hierarchy that was committed
\* since the scope was last read anew, below a container with the caller's region, or
\* the caller has none, or only a guessed one that such a hierarchy lacked; and it
\* stands beside the device such a hierarchy gives it, though the two statements that
\* find them have an import between them.
WithinRegion ==
    \A r \in Slots : Answered(r) => LET a == Answer(r) IN
        /\ DOMAIN a.nodes = DOMAIN a.devices
        /\ \A i \in DOMAIN a.nodes :
             /\ \E h \in recentTrees[Own(r)] : InRegion(a.nodes[i], h, By(r))
             /\ \E h \in recentTrees[Own(r)] :
                   a.nodes[i] \in DOMAIN h.leaf /\ h.leaf[a.nodes[i]].device = a.devices[i]

\* What a caller should be told now.
Current(c, k) ==
    LET p == IF CallerOf[c].customer = None \/ mapping[CallerOf[c].customer] = None
               THEN CallerOf[c].title ELSE mapping[CallerOf[c].customer]
        h == tree[p]
        usable == {l \in DOMAIN h.leaf : h.leaf[l].device \in granted[c]}
        below(m) == {l \in usable : m \in h.leaf[l].above}
    IN IF p = None \/ ~ Live(c) THEN {{}}
       ELSE IF Region(c) = None \/ (Matching(h, c) = {} /\ ~ CallerOf[c].explicit) THEN {usable}
       ELSE IF Matching(h, c) = {} THEN {{}}
       ELSE {below(m) : m \in Matching(h, c)}

\* After the last import, seeding, grant and session's end, answers finally say what
\* holds: no stale entry outlives its cache by being written back.
Converges ==
    <>[](\A r \in Slots : Answered(r) => ToSet(Answer(r).nodes) \in Current(By(r), Own(r)))
=============================================================================
