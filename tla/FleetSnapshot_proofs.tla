----------------------- MODULE FleetSnapshot_proofs -----------------------
(***************************************************************************)
(* Mutual exclusion of snapshot rebuilds, and what becomes of a device's   *)
(* hash.  The lock is a key that anyone deletes and that expires by        *)
(* itself, so the proof is not that of an owned lock: it needs that        *)
(* whoever rebuilds still has the key, which holds only while no rebuild   *)
(* outlives it.  What is said of the hashes needs no lock; that a cycle    *)
(* records all it observes does, since a second one would compare with a   *)
(* hash that the first has already left behind.                            *)
(***************************************************************************)
EXTENDS FleetSnapshot, TLAPS

\* No rebuild takes longer than _LOCK_TTL_SECONDS, and Redis does not evict the key.
Timely == "lapse" \notin FaultKinds

PcDomain == pc \in [Procs -> Labels]
LockHeld == \A p \in Procs : Critical(p) => lock
Exclusion == PcDomain /\ LockHeld /\ RebuildExclusive

LEMMA ExclusionInit == Init => Exclusion
  BY DEF Init, Exclusion, PcDomain, LockHeld, RebuildExclusive, Critical, Rebuilding, Labels

\* A process that goes on with a rebuild, or ends one without the lock, cannot
\* disturb the exclusion.
LEMMA Continue ==
    ASSUME Exclusion, NEW p \in Procs, NEW label \in Labels, pc' = [pc EXCEPT ![p] = label],
           UNCHANGED lock, label \in Rebuilding => Critical(p)
    PROVE  Exclusion'
  BY DEF Exclusion, PcDomain, LockHeld, RebuildExclusive, Critical, Labels

\* The process that takes the free lock becomes the only one to rebuild.
LEMMA Acquire ==
    ASSUME Exclusion, NEW p \in Procs, Lock, pc' = [pc EXCEPT ![p] = "next"]
    PROVE  Exclusion'
  BY DEF Exclusion, PcDomain, LockHeld, RebuildExclusive, Critical, Lock, Labels, Rebuilding

\* A process that was rebuilding ends: it was the only one, so the lock may go.
LEMMA Finish ==
    ASSUME Exclusion, NEW p \in Procs, Critical(p), pc' = [pc EXCEPT ![p] = "idle"],
           lock' \in BOOLEAN
    PROVE  Exclusion'
  BY DEF Exclusion, PcDomain, LockHeld, RebuildExclusive, Critical, Labels, Rebuilding

LEMMA SyncStepKeeps ==
    ASSUME Exclusion, lock \in BOOLEAN, NEW p \in Syncs, StartSync(p) \/ SyncStep(p)
    PROVE  Exclusion'
  <1> p \in Procs
    BY DEF Procs
  <1>1. CASE StartSync(p)
    BY <1>1, Acquire DEF StartSync, GoTo
  <1>2. CASE \E d \in Devices : Fetch(p, d)
    <2>1. PICK d \in Devices : Fetch(p, d)
      BY <1>2
    <2>2. CASE tb[d] = Empty
      BY <2>1, <2>2 DEF Fetch, Skip, Exclusion, PcDomain, LockHeld, RebuildExclusive, Critical
    <2>3. CASE tb[d] # Empty
      BY <2>1, <2>3, Continue DEF Fetch, GoTo, Labels, Rebuilding, Critical
    <2> QED BY <2>2, <2>3
  <1>3. CASE ReadBaseline(p) \/ Record(p) \/ Store(p)
    BY <1>3, Continue DEF ReadBaseline, Record, Store, Delete, HSet, Expire, GoTo, Labels,
       Rebuilding, Critical
  <1>4. CASE Release(p)
    BY <1>4, Finish DEF Release, Leave, GoTo, Critical, Rebuilding
  <1> QED BY <1>1, <1>2, <1>3, <1>4 DEF SyncStep

LEMMA ReplayStepKeeps ==
    ASSUME Exclusion, lock \in BOOLEAN, NEW r \in Replays,
           RequestReplay(r) \/ Reconcile(r) \/ ReplayStep(r)
    PROVE  Exclusion'
  <1> r \in Procs
    BY DEF Procs
  <1>1. CASE RequestReplay(r) \/ Reconcile(r) \/ ReadEvents(r)
    <2>1. \E label \in {"read", "repair", "lock", "repairlock"} : pc' = [pc EXCEPT ![r] = label]
      BY <1>1 DEF RequestReplay, Reconcile, ReadEvents, GoTo
    <2> QED BY <1>1, <2>1, Continue DEF RequestReplay, Reconcile, ReadEvents, Labels, Rebuilding
  <1>2. CASE LockReplay(r)
    <2>1. CASE lock
      BY <1>2, <2>1, Continue DEF LockReplay, Leave, GoTo, Labels, Rebuilding
    <2>2. CASE ~ lock
      BY <1>2, <2>2, Acquire DEF LockReplay, GoTo
    <2> QED BY <2>1, <2>2
  <1>3. CASE Store(r) \/ \E d \in Devices : NextState(r, d)
    BY <1>3, Continue DEF NextState, Store, Delete, HSet, Expire, GoTo, Labels, Rebuilding, Critical
  <1>4. CASE Release(r)
    BY <1>4, Finish DEF Release, Leave, GoTo, Critical, Rebuilding
  <1> QED BY <1>1, <1>2, <1>3, <1>4 DEF ReplayStep

LEMMA FailureKeeps ==
    ASSUME Exclusion, lock \in BOOLEAN, NEW p \in Procs, Fails(p)
    PROVE  Exclusion'
  <1>1. CASE StoreRaises(p)
    BY <1>1, Finish DEF StoreRaises, Leave, GoTo, Critical, Rebuilding
  <1>2. CASE Crash(p)
    BY <1>2, Continue DEF Crash, Leave, GoTo, Labels, Rebuilding
  <1>3. CASE RecordFails(p)
    BY <1>3, Continue DEF RecordFails, GoTo, Labels, Rebuilding, Critical
  <1>4. CASE \E d \in Devices : FetchFails(p, d)
    BY <1>4 DEF FetchFails, Skip, Exclusion, PcDomain, LockHeld, RebuildExclusive, Critical
  <1> QED BY <1>1, <1>2, <1>3, <1>4 DEF Fails

\* The lock goes by itself only when nobody rebuilds.
LEMMA LapseKeeps ==
    ASSUME ~ Fault("lapse"), Exclusion, Lapse
    PROVE  Exclusion'
  <1>1. ~ \E p \in Procs : Critical(p)
    BY DEF Lapse
  <1>2. UNCHANGED pc
    BY DEF Lapse, local
  <1> QED BY <1>1, <1>2 DEF Exclusion, PcDomain, LockHeld, RebuildExclusive, Critical

LEMMA ExclusionStep ==
    ASSUME ~ Fault("lapse"), Exclusion, lock \in BOOLEAN, [Next]_vars
    PROVE  Exclusion' /\ lock' \in BOOLEAN
  <1>1. Exclusion'
    <2>1. CASE UNCHANGED <<lock, local>>
      BY <2>1 DEF local, Exclusion, PcDomain, LockHeld, RebuildExclusive, Critical
    <2>2. CASE \E d \in Devices : \/ SnapshotExpires(d)
                                  \/ \E s \in Readings : Report(d, s)
                                  \/ \E e \in Events : Ingest(d, e)
      BY <2>1, <2>2 DEF SnapshotExpires, Report, Ingest
    <2>3. CASE MergeFields \/ MergeExpire \/ MergeStops
      BY <2>1, <2>3 DEF MergeFields, MergeExpire, MergeStops
    <2> QED
      BY <2>1, <2>2, <2>3, SyncStepKeeps, ReplayStepKeeps, FailureKeeps, LapseKeeps DEF Next, vars
  <1>2. lock' \in BOOLEAN
    BY DEF Next, vars, StartSync, Lock, SyncStep, Fetch, ReadBaseline, Record, Store, Delete, HSet,
       Expire, Release, RequestReplay, Reconcile, ReplayStep, ReadEvents, LockReplay, NextState,
       Fails, StoreRaises, Crash, RecordFails, FetchFails, SnapshotExpires, Report, Ingest,
       MergeFields, MergeExpire, MergeStops, Lapse
  <1> QED BY <1>1, <1>2

\* Live sync and replay never rebuild one customer at once, whatever crashes and
\* whoever deletes the lock, as long as no rebuild outlives it.
THEOREM RebuildsExclude == ASSUME Timely PROVE Spec => []RebuildExclusive
  <1>1. Init => Exclusion /\ lock \in BOOLEAN
    BY ExclusionInit DEF Init
  <1>2. Exclusion /\ lock \in BOOLEAN /\ [Next]_vars => (Exclusion /\ lock \in BOOLEAN)'
    BY ExclusionStep DEF Timely, Fault
  <1>3. Exclusion => RebuildExclusive
    BY DEF Exclusion
  <1> QED BY <1>1, <1>2, <1>3, PTL DEF Spec

----------------------------------------------------------------------------

\* Overlaying two sets of fields gives one, and an empty one only from empty ones.
LEMMA OverlayType ==
    ASSUME NEW s \in State, NEW t \in State
    PROVE  Overlay(s, t) \in State /\ (Overlay(s, t) = Empty => s = Empty)
  <1>1. PICK A \in SUBSET Fields : s \in [A -> Values]
    BY DEF State
  <1>2. PICK B \in SUBSET Fields : t \in [B -> Values]
    BY DEF State
  <1>3. DOMAIN s = A /\ DOMAIN t = B
    BY <1>1, <1>2
  <1>4. Overlay(s, t) \in [A \cup B -> Values]
    BY <1>1, <1>2, <1>3 DEF Overlay
  <1>5. A \cup B \in SUBSET Fields
    OBVIOUS
  <1>6. [A \cup B -> Values] \in {[S -> Values] : S \in SUBSET Fields}
    BY <1>5
  <1>7. ASSUME Overlay(s, t) = Empty
        PROVE  s = Empty
    <2>1. DOMAIN Overlay(s, t) = {}
      BY <1>7 DEF Empty
    <2>2. A = {}
      BY <1>3, <2>1 DEF Overlay
    <2> QED BY <1>1, <2>2 DEF Empty
  <1> QED BY <1>4, <1>6, <1>7 DEF State

\* The changed fields of a reading are a set of fields, and so is none.
LEMMA ChangedType ==
    ASSUME NEW s \in State, NEW t
    PROVE  Changed(s, t) \in State
  <1>1. PICK A \in SUBSET Fields : s \in [A -> Values]
    BY DEF State
  <1> DEFINE B == {g \in DOMAIN s : g \notin DOMAIN t \/ t[g] # s[g]}
  <1>2. B \in SUBSET Fields /\ Changed(s, t) \in [B -> Values]
    BY <1>1 DEF Changed
  <1> HIDE DEF B
  <1>3. [B -> Values] \in {[S -> Values] : S \in SUBSET Fields}
    BY <1>2
  <1> QED BY <1>2, <1>3 DEF State

LEMMA EmptyType == Empty \in State
  <1>1. Empty \in [{} -> Values]
    BY DEF Empty
  <1> QED BY <1>1 DEF State

LEMMA InitSnapshotType == Init => TypeOK
  <1> SUFFICES ASSUME Init PROVE TypeOK
    OBVIOUS
  <1>1. Home \in Devices
    BY SnapshotAssumption DEF Home
  <1>2. tb \in [Devices -> State]
    BY SnapshotAssumption DEF Init
  <1>3. snap \in [Devices -> State] /\ last \in [Devices -> State] /\ ttl \in [Devices -> BOOLEAN]
    BY <1>2, EmptyType DEF Init
  <1>4. merging \in [pc : {"idle", "hset", "expire"}, device : Devices, fields : State]
    BY <1>1, EmptyType DEF Init
  <1>5. /\ cur \in [Procs -> Devices] /\ got \in [Procs -> [Devices -> State]]
        /\ delta \in [Procs -> State] /\ table \in [Devices -> State]
    BY <1>1, EmptyType DEF Init
  <1>6. pc \in [Procs -> Labels] /\ todo \in [Procs -> SUBSET Devices]
    BY DEF Init, Labels
  <1>7. faults \in 0 .. MaxFaults /\ inputs \in 0 .. MaxInputs
    BY SnapshotAssumption DEF Init
  <1> QED BY <1>3, <1>4, <1>5, <1>6, <1>7 DEF Init, TypeOK

\* What a process keeps for itself, well typed.
LocalType ==
    /\ pc \in [Procs -> Labels] /\ todo \in [Procs -> SUBSET Devices] /\ cur \in [Procs -> Devices]
    /\ got \in [Procs -> [Devices -> State]] /\ delta \in [Procs -> State]

\* What everyone shares.
SharedType ==
    /\ lock \in BOOLEAN /\ tb \in [Devices -> Readings]
    /\ snap \in [Devices -> State] /\ ttl \in [Devices -> BOOLEAN]
    /\ table \in [Devices -> State] /\ last \in [Devices -> State]
    /\ merging \in [pc : {"idle", "hset", "expire"}, device : Devices, fields : State]
    /\ faults \in 0 .. MaxFaults /\ inputs \in 0 .. MaxInputs

LEMMA FaultType == ASSUME TypeOK, NEW k, Fault(k) PROVE faults' \in 0 .. MaxFaults /\ faults' # 0
  BY SnapshotAssumption DEF TypeOK, Fault

LEMMA InputType == ASSUME TypeOK, Input PROVE inputs' \in 0 .. MaxInputs
  BY SnapshotAssumption DEF TypeOK, Input

LEMMA LeaveType == ASSUME TypeOK, NEW p \in Procs, Leave(p) PROVE LocalType'
  <1>1. Home \in Devices
    BY SnapshotAssumption DEF Home
  <1>2. pc' \in [Procs -> Labels] /\ todo' \in [Procs -> SUBSET Devices] /\ cur' \in [Procs -> Devices]
    BY <1>1 DEF TypeOK, Leave, GoTo, Labels
  <1>3. got' \in [Procs -> [Devices -> State]] /\ delta' \in [Procs -> State]
    BY EmptyType DEF TypeOK, Leave
  <1> QED BY <1>2, <1>3 DEF LocalType

LEMMA GoToLabel == ASSUME TypeOK, NEW p \in Procs, NEW label \in Labels, GoTo(p, label) PROVE pc' \in [Procs -> Labels]
  BY DEF TypeOK, GoTo

\* The steps of a live-sync cycle before it stores a device.
LEMMA SyncType ==
    ASSUME TypeOK, NEW p \in Procs,
           StartSync(p) \/ (\E d \in Devices : Fetch(p, d) \/ FetchFails(p, d)) \/ ReadBaseline(p)
               \/ Record(p) \/ RecordFails(p)
    PROVE  LocalType' /\ SharedType'
  <1> USE DEF LocalType, SharedType
  <1>1. CASE StartSync(p)
    <2>1. pc' \in [Procs -> Labels] /\ todo' \in [Procs -> SUBSET Devices]
      BY <1>1 DEF TypeOK, StartSync, GoTo, Labels, Rebuilding
    <2> QED BY <1>1, <2>1 DEF TypeOK, StartSync, Lock, redis
  <1>2. CASE \E d \in Devices : Fetch(p, d) \/ FetchFails(p, d)
    <2>1. PICK d \in Devices : Fetch(p, d) \/ FetchFails(p, d)
      BY <1>2
    <2>2. tb[d] \in State
      BY SnapshotAssumption DEF TypeOK
    <2>3. todo' \in [Procs -> SUBSET Devices] /\ cur' \in [Procs -> Devices]
      <3>1. todo' = todo \/ todo' = [todo EXCEPT ![p] = @ \ {d}]
        BY <2>1 DEF Fetch, FetchFails, Skip
      <3>2. cur' = cur \/ cur' = [cur EXCEPT ![p] = d]
        BY <2>1 DEF Fetch, FetchFails, Skip
      <3>3. todo \in [Procs -> SUBSET Devices] /\ cur \in [Procs -> Devices]
        BY DEF TypeOK
      <3>4. todo[p] \ {d} \in SUBSET Devices
        BY <3>3
      <3>5. todo' \in [Procs -> SUBSET Devices]
        BY <3>1, <3>3, <3>4
      <3>6. cur' \in [Procs -> Devices]
        BY <3>2, <3>3
      <3> QED BY <3>5, <3>6
    <2>8. pc' \in [Procs -> Labels]
      <3>1. pc' = pc \/ GoTo(p, "baseline")
        BY <2>1 DEF Fetch, FetchFails, Skip
      <3>2. "baseline" \in Labels
        BY DEF Labels, Rebuilding
      <3> QED BY <3>1, <3>2, GoToLabel DEF TypeOK
    <2>4. got' \in [Procs -> [Devices -> State]]
      <3>1. got' = got \/ got' = [got EXCEPT ![p][d] = tb[d]]
        BY <2>1 DEF Fetch, FetchFails, Skip
      <3>2. got[p] \in [Devices -> State] /\ [got[p] EXCEPT ![d] = tb[d]] \in [Devices -> State]
        BY <2>2 DEF TypeOK
      <3>3. got' = got \/ got' = [got EXCEPT ![p] = [got[p] EXCEPT ![d] = tb[d]]]
        BY <3>1
      <3> QED BY <3>2, <3>3 DEF TypeOK
    <2>5. faults' \in 0 .. MaxFaults
      BY <2>1, FaultType DEF Fetch, FetchFails, TypeOK
    <2> QED BY <2>1, <2>3, <2>8, <2>4, <2>5 DEF TypeOK, Fetch, FetchFails, redis
  <1>3. CASE ReadBaseline(p)
    <2>1. got[p][cur[p]] \in State
      BY DEF TypeOK
    <2>2. delta' \in [Procs -> State]
      BY <1>3, <2>1, ChangedType DEF ReadBaseline, TypeOK
    <2>3. pc' \in [Procs -> Labels]
      BY <1>3, GoToLabel DEF ReadBaseline, Labels, Rebuilding
    <2>4. faults' \in 0 .. MaxFaults
      BY <1>3, FaultType DEF ReadBaseline, TypeOK
    <2> QED BY <1>3, <2>2, <2>3, <2>4 DEF TypeOK, ReadBaseline, redis
  <1>4. CASE Record(p) \/ RecordFails(p)
    <2>1. pc' \in [Procs -> Labels]
      BY <1>4, GoToLabel DEF Record, RecordFails, Labels, Rebuilding
    <2>2. last' \in [Devices -> State]
      <3>1. delta[p] \in State /\ last[cur[p]] \in State
        BY DEF TypeOK
      <3> QED BY <1>4, <3>1, OverlayType DEF Record, RecordFails, TypeOK
    <2>3. faults' \in 0 .. MaxFaults
      BY <1>4, FaultType DEF Record, RecordFails, TypeOK
    <2> QED BY <1>4, <2>1, <2>2, <2>3 DEF TypeOK, Record, RecordFails, redis
  <1> QED BY <1>1, <1>2, <1>3, <1>4

\* The store of a device, and the ways a rebuild ends.
LEMMA StoreType ==
    ASSUME TypeOK, NEW p \in Procs, Store(p) \/ Release(p) \/ StoreRaises(p) \/ Crash(p)
    PROVE  LocalType' /\ SharedType'
  <1> USE DEF LocalType, SharedType
  <1>1. CASE Store(p)
    <2>1. pc' \in [Procs -> Labels]
      BY <1>1, GoToLabel DEF Store, Delete, HSet, Expire, Labels, Rebuilding
    <2>2. todo' \in [Procs -> SUBSET Devices]
      BY <1>1 DEF Store, Delete, HSet, Expire, TypeOK
    <2>3. snap' \in [Devices -> State]
      <3>1. got[p][cur[p]] \in State /\ snap[cur[p]] \in State
        BY DEF TypeOK
      <3>2. Overlay(snap[cur[p]], got[p][cur[p]]) \in State
        BY <3>1, OverlayType
      <3>3. \/ UNCHANGED snap
            \/ snap' = [snap EXCEPT ![cur[p]] = Empty]
            \/ snap' = [snap EXCEPT ![cur[p]] = Overlay(@, got[p][cur[p]])]
        BY <1>1 DEF Store, Delete, HSet, Expire
      <3> QED BY <3>2, <3>3, EmptyType DEF TypeOK
    <2>4. ttl' \in [Devices -> BOOLEAN]
      BY <1>1 DEF Store, Delete, HSet, Expire, TypeOK
    <2> QED BY <1>1, <2>1, <2>2, <2>3, <2>4 DEF TypeOK, Store, Delete, HSet, Expire
  <1>2. CASE Release(p) \/ StoreRaises(p) \/ Crash(p)
    <2>1. LocalType'
      BY <1>2, LeaveType DEF Release, StoreRaises, Crash
    <2>2. faults' \in 0 .. MaxFaults
      BY <1>2, FaultType DEF Release, StoreRaises, Crash, TypeOK
    <2>3. lock' \in BOOLEAN
      BY <1>2 DEF Release, StoreRaises, Crash, TypeOK
    <2> QED BY <1>2, <2>1, <2>2, <2>3 DEF TypeOK, Release, StoreRaises, Crash, redis
  <1> QED BY <1>1, <1>2

\* The steps of replays and reconciliations.
LEMMA ReplayType ==
    ASSUME TypeOK, NEW r \in Procs,
           RequestReplay(r) \/ Reconcile(r) \/ ReadEvents(r) \/ LockReplay(r)
               \/ \E d \in Devices : NextState(r, d)
    PROVE  LocalType' /\ SharedType'
  <1> USE DEF LocalType, SharedType
  <1>1. CASE RequestReplay(r) \/ Reconcile(r) \/ ReadEvents(r)
    <2>1. pc' \in [Procs -> Labels]
      BY <1>1 DEF RequestReplay, Reconcile, ReadEvents, TypeOK, GoTo, Labels
    <2>2. got' \in [Procs -> [Devices -> State]]
      BY <1>1 DEF RequestReplay, Reconcile, ReadEvents, TypeOK
    <2>3. inputs' \in 0 .. MaxInputs
      BY <1>1, InputType DEF RequestReplay, Reconcile, ReadEvents, TypeOK
    <2> QED BY <1>1, <2>1, <2>2, <2>3 DEF RequestReplay, Reconcile, ReadEvents, TypeOK, redis
  <1>2. CASE LockReplay(r)
    <2>1. CASE lock
      <3>1. LocalType'
        BY <1>2, <2>1, LeaveType DEF LockReplay
      <3> QED BY <1>2, <2>1, <3>1 DEF LockReplay, TypeOK, redis
    <2>2. CASE ~ lock
      <3>1. pc' \in [Procs -> Labels]
        BY SMTT(20), <1>2, <2>2, GoToLabel DEF LockReplay, Labels, Rebuilding
      <3>2. todo' \in [Procs -> SUBSET Devices]
        BY SMTT(20), <1>2, <2>2 DEF LockReplay, TypeOK
      <3>3. lock' \in BOOLEAN
        BY <1>2, <2>2 DEF LockReplay, Lock
      <3>4. UNCHANGED <<cur, got, delta, tb, redis, table, last, merging, faults, inputs>>
        BY <1>2, <2>2 DEF LockReplay
      <3> QED BY <3>1, <3>2, <3>3, <3>4 DEF TypeOK, redis
    <2> QED BY <2>1, <2>2
  <1>3. CASE \E d \in Devices : NextState(r, d)
    <2>1. pc' \in [Procs -> Labels] /\ cur' \in [Procs -> Devices]
      BY <1>3 DEF NextState, TypeOK, GoTo, Labels, Rebuilding
    <2> QED BY <1>3, <2>1 DEF NextState, TypeOK, redis
  <1> QED BY <1>1, <1>2, <1>3

\* The steps of ThingsBoard, Redis and the consumer.
LEMMA WorldType ==
    ASSUME TypeOK,
           \/ \E d \in Devices : \/ SnapshotExpires(d)
                                 \/ \E s \in Readings : Report(d, s)
                                 \/ \E e \in Events : Ingest(d, e)
           \/ MergeFields \/ MergeExpire \/ MergeStops \/ Lapse
    PROVE  LocalType' /\ SharedType'
  <1> USE DEF LocalType, SharedType
  <1> DEFINE Work == [pc : {"idle", "hset", "expire"}, device : Devices, fields : State]
  <1>1. LocalType'
    BY DEF TypeOK, local, SnapshotExpires, Report, Ingest, MergeFields, MergeExpire, MergeStops, Lapse
  <1>2. inputs' \in 0 .. MaxInputs
    BY InputType DEF TypeOK, SnapshotExpires, Report, Ingest, MergeFields, MergeExpire, MergeStops, Lapse
  <1>3. faults' \in 0 .. MaxFaults
    BY FaultType DEF TypeOK, SnapshotExpires, Report, Ingest, MergeFields, MergeExpire, MergeStops, Lapse
  <1>4. merging.device \in Devices /\ merging.fields \in State
    BY DEF TypeOK
  <1>5. snap' \in [Devices -> State] /\ ttl' \in [Devices -> BOOLEAN]
    <2>1. CASE \E d \in Devices : SnapshotExpires(d)
      BY <2>1, EmptyType DEF TypeOK, SnapshotExpires
    <2>2. CASE MergeFields
      <3>1. Overlay(snap[merging.device], merging.fields) \in State
        BY <1>4, OverlayType DEF TypeOK
      <3> QED BY <2>2, <3>1 DEF TypeOK, MergeFields
    <2>3. CASE MergeExpire
      BY <2>3 DEF TypeOK, MergeExpire
    <2>4. CASE UNCHANGED redis
      BY <2>4 DEF TypeOK, redis
    <2> QED BY <2>1, <2>2, <2>3, <2>4 DEF Report, Ingest, MergeStops, Lapse
  <1>6. merging' \in Work
    <2>1. Home \in Devices
      BY SnapshotAssumption DEF Home
    <2>2. CASE \E d \in Devices, e \in Events : Ingest(d, e)
      BY <2>2, SnapshotAssumption DEF Ingest
    <2>3. CASE MergeFields
      BY <2>3 DEF MergeFields, TypeOK
    <2>4. CASE MergeExpire \/ MergeStops
      BY <2>1, <2>4, EmptyType DEF MergeExpire, MergeStops
    <2>5. CASE UNCHANGED merging
      BY <2>5 DEF TypeOK
    <2> QED BY <2>2, <2>3, <2>4, <2>5 DEF SnapshotExpires, Report, Lapse
  <1>7. table' \in [Devices -> State] /\ last' \in [Devices -> State]
    <2>1. CASE \E d \in Devices, e \in Events : Ingest(d, e)
      <3>1. PICK d \in Devices, e \in Events : Ingest(d, e)
        BY <2>1
      <3>2. e \in State /\ table[d] \in State /\ last[d] \in State
        BY SnapshotAssumption DEF TypeOK
      <3>3. PICK late \in BOOLEAN :
              /\ table' = [table EXCEPT ![d] = IF late THEN Overlay(e, @) ELSE Overlay(@, e)]
              /\ last' = [last EXCEPT ![d] = IF late THEN Overlay(e, @) ELSE Overlay(@, e)]
        BY <3>1 DEF Ingest
      <3> QED BY <3>2, <3>3, OverlayType DEF TypeOK
    <2>2. CASE UNCHANGED <<table, last>>
      BY <2>2 DEF TypeOK
    <2> QED BY <2>1, <2>2 DEF SnapshotExpires, Report, MergeFields, MergeExpire, MergeStops, Lapse
  <1>8. tb' \in [Devices -> Readings] /\ lock' \in BOOLEAN
    <2>1. CASE \E d \in Devices, s \in Readings : Report(d, s)
      BY <2>1 DEF TypeOK, Report
    <2>2. CASE UNCHANGED tb /\ lock' \in {lock, FALSE}
      BY <2>2 DEF TypeOK
    <2> QED BY <2>1, <2>2 DEF SnapshotExpires, Ingest, MergeFields, MergeExpire, MergeStops, Lapse
  <1> QED BY <1>1, <1>2, <1>3, <1>5, <1>6, <1>7, <1>8

LEMMA SnapshotNextType == TypeOK /\ [Next]_vars => TypeOK'
  <1> SUFFICES ASSUME TypeOK, [Next]_vars PROVE TypeOK'
    OBVIOUS
  <1>1. Syncs \subseteq Procs /\ Replays \subseteq Procs
    BY DEF Procs
  <1>2. CASE UNCHANGED vars
    BY <1>2 DEF TypeOK, vars, local, redis
  <1>3. CASE Next
    <2>1. LocalType' /\ SharedType'
      BY <1>1, <1>3, SyncType, StoreType, ReplayType, WorldType DEF Next, SyncStep, ReplayStep, Fails
    <2> QED BY <2>1 DEF LocalType, SharedType, TypeOK
  <1> QED BY <1>2, <1>3

\* Every variable keeps to its type: the hashes, the event rows and the baselines are
\* sets of fields, whatever is merged, replayed or left out of them.
THEOREM SnapshotTypeCorrect == Spec => []TypeOK
  BY InitSnapshotType, SnapshotNextType, PTL DEF Spec

----------------------------------------------------------------------------

\* Somebody is about to give the hash of a device its expiry.
Attended(d) ==
    \/ \E p \in Procs : pc[p] \in {"hset", "expire"} /\ cur[p] = d
    \/ merging.pc = "expire" /\ merging.device = d

\* A hash that is there expires, or is attended to.
Mortal(d) == snap[d] # Empty /\ ~ ttl[d] => Attended(d)

\* Who is not about to set an expiry may do what he likes with his own state.
LEMMA Bystander ==
    ASSUME NEW p \in Procs, NEW d \in Devices, Mortal(d), pc[p] \notin {"hset", "expire"},
           \A q \in Procs : q # p => pc'[q] = pc[q] /\ cur'[q] = cur[q],
           UNCHANGED <<redis, merging>>
    PROVE  Mortal(d)'
  BY DEF Mortal, Attended, redis

LEMMA OwnStateOnly ==
    ASSUME TypeOK, NEW p \in Procs, faults' = 0,
           \/ StartSync(p) \/ SyncStep(p) \/ RequestReplay(p) \/ Reconcile(p) \/ ReplayStep(p) \/ Fails(p),
           ~ Store(p)
    PROVE  /\ pc[p] \notin {"hset", "expire"}
           /\ \A q \in Procs : q # p => pc'[q] = pc[q] /\ cur'[q] = cur[q]
           /\ UNCHANGED <<redis, merging>>
  <1>1. ~ \E k : Fault(k)
    BY FaultType
  <1>2. ~ StoreRaises(p) /\ ~ Crash(p) /\ ~ RecordFails(p) /\ \A d \in Devices : ~ FetchFails(p, d)
    BY <1>1 DEF StoreRaises, Crash, RecordFails, FetchFails
  <1> DEFINE Own == /\ pc[p] \notin {"hset", "expire"}
                    /\ \A q \in Procs : q # p => pc'[q] = pc[q] /\ cur'[q] = cur[q]
                    /\ UNCHANGED <<redis, merging>>
  <1>3. CASE StartSync(p) \/ RequestReplay(p) \/ Reconcile(p) \/ ReadEvents(p) \/ ReadBaseline(p) \/ Record(p)
    BY <1>3 DEF StartSync, RequestReplay, Reconcile, ReadEvents, ReadBaseline, Record, GoTo, TypeOK
  <1>4. CASE \E d \in Devices : Fetch(p, d)
    BY <1>4 DEF Fetch, Skip, GoTo, TypeOK
  <1>5. CASE Release(p) \/ LockReplay(p)
    BY <1>5 DEF Release, LockReplay, Leave, GoTo, TypeOK
  <1>6. CASE \E d \in Devices : NextState(p, d)
    BY <1>6 DEF NextState, GoTo, TypeOK
  <1> QED BY <1>2, <1>3, <1>4, <1>5, <1>6 DEF SyncStep, ReplayStep, Fails

\* The three commands of a store, each on its own device.
LEMMA StoreMortal ==
    ASSUME TypeOK, NEW p \in Procs, Store(p), NEW d \in Devices, Mortal(d)
    PROVE  Mortal(d)'
  <1>1. UNCHANGED <<cur, merging>> /\ cur[p] \in Devices
    BY DEF Store, Delete, HSet, Expire, TypeOK
  <1>2. \A q \in Procs : q # p => pc'[q] = pc[q]
    BY DEF Store, Delete, HSet, Expire, GoTo, TypeOK
  <1>3. CASE Delete(p)
    <2>1. CASE d = cur[p]
      BY <1>3, <2>1 DEF Delete, Mortal, TypeOK
    <2>2. CASE d # cur[p]
      <3>1. snap'[d] = snap[d] /\ ttl'[d] = ttl[d]
        BY <1>3, <2>2 DEF Delete, TypeOK
      <3> QED BY <1>1, <1>2, <2>2, <3>1 DEF Mortal, Attended
    <2> QED BY <2>1, <2>2
  <1>4. CASE HSet(p)
    <2>1. pc'[p] = "expire"
      BY <1>4 DEF HSet, GoTo, TypeOK
    <2>2. CASE d = cur[p]
      BY <1>1, <2>1, <2>2 DEF Mortal, Attended
    <2>3. CASE d # cur[p]
      <3>1. snap'[d] = snap[d] /\ ttl'[d] = ttl[d]
        BY <1>4, <2>3 DEF HSet, TypeOK
      <3> QED BY <1>1, <1>2, <2>3, <3>1 DEF Mortal, Attended
    <2> QED BY <2>2, <2>3
  <1>5. CASE Expire(p)
    <2>1. CASE d = cur[p]
      BY <1>5, <2>1 DEF Expire, Mortal, TypeOK
    <2>2. CASE d # cur[p]
      <3>1. snap'[d] = snap[d] /\ ttl'[d] = ttl[d]
        BY <1>5, <2>2 DEF Expire, TypeOK
      <3> QED BY <1>1, <1>2, <2>2, <3>1 DEF Mortal, Attended
    <2> QED BY <2>1, <2>2
  <1> QED BY <1>3, <1>4, <1>5 DEF Store

\* The consumer and the world.
LEMMA WorldMortal ==
    ASSUME TypeOK, faults' = 0, NEW d \in Devices, Mortal(d),
           \/ \E e \in Devices : \/ SnapshotExpires(e)
                                 \/ \E s \in Readings : Report(e, s)
                                 \/ \E s \in Events : Ingest(e, s)
           \/ MergeFields \/ MergeExpire \/ MergeStops \/ Lapse
    PROVE  Mortal(d)'
  <1>1. UNCHANGED <<pc, cur>> /\ merging.device \in Devices
    BY DEF TypeOK, local, SnapshotExpires, Report, Ingest, MergeFields, MergeExpire, MergeStops, Lapse
  <1>2. CASE \E e \in Devices : SnapshotExpires(e)
    BY <1>1, <1>2 DEF SnapshotExpires, Mortal, Attended, TypeOK
  <1>3. CASE \E e \in Devices : \/ \E s \in Readings : Report(e, s)
                                \/ \E s \in Events : Ingest(e, s)
    BY <1>1, <1>3 DEF Report, Ingest, Mortal, Attended, redis
  <1>4. CASE MergeFields
    <2>1. merging'.pc = "expire" /\ merging'.device = merging.device
      BY <1>4 DEF MergeFields, TypeOK
    <2>2. CASE d = merging.device
      BY <2>1, <2>2 DEF Mortal, Attended
    <2>3. CASE d # merging.device
      <3>1. snap'[d] = snap[d] /\ ttl'[d] = ttl[d]
        BY <1>4, <2>3 DEF MergeFields, TypeOK
      <3> QED BY <1>1, <2>3, <3>1 DEF Mortal, Attended
    <2> QED BY <2>2, <2>3
  <1>5. CASE MergeExpire
    <2>1. CASE d = merging.device
      BY <1>5, <2>1 DEF MergeExpire, Mortal, TypeOK
    <2>2. CASE d # merging.device
      <3>1. snap'[d] = snap[d] /\ ttl'[d] = ttl[d]
        BY <1>5, <2>2 DEF MergeExpire, TypeOK
      <3> QED BY <1>1, <2>2, <3>1 DEF Mortal, Attended
    <2> QED BY <2>1, <2>2
  <1>6. ~ MergeStops
    BY FaultType DEF MergeStops
  <1>7. CASE Lapse
    BY <1>1, <1>7 DEF Lapse, Mortal, Attended, redis
  <1> QED BY <1>2, <1>3, <1>4, <1>5, <1>6, <1>7

\* Failures are counted, so that none has happened as long as the count is 0.
LEMMA FaultsCount ==
    ASSUME TypeOK, [Next]_vars, faults' = 0
    PROVE  faults = 0
  <1>1. faults' = faults \/ \E k : Fault(k)
    BY DEF Next, vars, StartSync, SyncStep, Fetch, ReadBaseline, Record, Store, Delete, HSet,
       Expire, Release, RequestReplay, Reconcile, ReplayStep, ReadEvents, LockReplay, NextState,
       Fails, StoreRaises, Crash, RecordFails, FetchFails, SnapshotExpires, Report, Ingest,
       MergeFields, MergeExpire, MergeStops, Lapse
  <1> QED BY <1>1, FaultType

\* While no command fails and no process dies, every hash has an expiry or somebody is
\* about to give it one, though consumer, cycles and replays write it side by side.
THEOREM NoHashForever == Spec => []NoImmortalSnapshot
  <1>1. Init => NoImmortalSnapshot
    <2> SUFFICES ASSUME Init, NEW d \in Devices PROVE snap[d] # Empty => ttl[d]
      BY DEF NoImmortalSnapshot
    <2>1. CASE snap = tb /\ ttl = [e \in Devices |-> tb[e] # Empty]
      BY <2>1, Zenon
    <2>2. CASE snap = [e \in Devices |-> Empty]
      BY <2>2
    <2> QED BY <2>1, <2>2 DEF Init
  <1>2. TypeOK /\ NoImmortalSnapshot /\ [Next]_vars => NoImmortalSnapshot'
    <2> SUFFICES ASSUME TypeOK, NoImmortalSnapshot, [Next]_vars, faults' = 0, NEW d \in Devices
                 PROVE  Mortal(d)'
      BY DEF NoImmortalSnapshot, Mortal, Attended
    <2>1. Mortal(d)
      BY FaultsCount DEF NoImmortalSnapshot, Mortal, Attended
    <2>2. Syncs \subseteq Procs /\ Replays \subseteq Procs
      BY DEF Procs
    <2>3. CASE \E p \in Procs : Store(p)
      BY <2>1, <2>3, StoreMortal
    <2>4. CASE \E p \in Procs : /\ \/ StartSync(p) \/ SyncStep(p) \/ RequestReplay(p)
                                   \/ Reconcile(p) \/ ReplayStep(p) \/ Fails(p)
                                /\ ~ Store(p)
      BY <2>1, <2>4, OwnStateOnly, Bystander
    <2>5. CASE UNCHANGED vars
      BY <2>1, <2>5 DEF vars, local, redis, Mortal, Attended
    <2> QED BY <2>1, <2>2, <2>3, <2>4, <2>5, WorldMortal DEF Next
  <1> QED BY <1>1, <1>2, SnapshotTypeCorrect, PTL DEF Spec

----------------------------------------------------------------------------

\* A process that is storing a device has something to store, and a replay still has
\* for every device it means to store.
HasSomething(p) ==
    /\ pc[p] \in Rebuilding \ {"next"} => got[p][cur[p]] # Empty
    /\ pc[p] \notin Rebuilding => todo[p] = {}
    /\ p \in Replays => \A d \in todo[p] : got[p][d] # Empty
Loaded == \A p \in Procs : HasSomething(p)

\* Every step is one process's own or leaves the processes alone.
LEMMA OneProcess ==
    ASSUME TypeOK, [Next]_vars
    PROVE  \/ UNCHANGED local
           \/ \E p \in Procs :
                /\ \/ p \in Syncs /\ (StartSync(p) \/ SyncStep(p))
                   \/ p \in Replays /\ (RequestReplay(p) \/ Reconcile(p) \/ ReplayStep(p))
                   \/ Fails(p)
                /\ \A q \in Procs : q # p => /\ pc'[q] = pc[q] /\ todo'[q] = todo[q]
                                             /\ cur'[q] = cur[q] /\ got'[q] = got[q]
                                           /\ delta'[q] = delta[q]
  <1>1. \A p \in Procs : p \in Syncs \/ p \in Replays
    BY DEF Procs
  <1>2. ASSUME NEW p \in Procs, NEW q \in Procs, q # p,
               StartSync(p) \/ SyncStep(p) \/ RequestReplay(p) \/ Reconcile(p) \/ ReplayStep(p) \/ Fails(p)
        PROVE  /\ pc'[q] = pc[q] /\ todo'[q] = todo[q] /\ cur'[q] = cur[q] /\ got'[q] = got[q]
               /\ delta'[q] = delta[q]
    <2>1. CASE StartSync(p) \/ (\E d \in Devices : Fetch(p, d) \/ FetchFails(p, d)) \/ ReadBaseline(p)
                 \/ Record(p) \/ RecordFails(p)
      BY <1>2, <2>1 DEF StartSync, Fetch, FetchFails, Skip, ReadBaseline, Record, RecordFails, GoTo, TypeOK
    <2>2. CASE Store(p)
      BY <1>2, <2>2 DEF Store, Delete, HSet, Expire, GoTo, TypeOK
    <2>3. CASE Release(p) \/ StoreRaises(p) \/ Crash(p)
      BY <1>2, <2>3 DEF Release, StoreRaises, Crash, Leave, GoTo, TypeOK
    <2>4. CASE RequestReplay(p) \/ Reconcile(p) \/ ReadEvents(p) \/ LockReplay(p)
                 \/ \E d \in Devices : NextState(p, d)
      BY <1>2, <2>4 DEF RequestReplay, Reconcile, ReadEvents, LockReplay, NextState, Leave, GoTo, TypeOK
    <2> QED BY <1>2, <2>1, <2>2, <2>3, <2>4 DEF SyncStep, ReplayStep, Fails
  <1>3. CASE Next
    <2>1. CASE \/ \E d \in Devices : \/ SnapshotExpires(d)
                                     \/ \E s \in Readings : Report(d, s)
                                     \/ \E e \in Events : Ingest(d, e)
               \/ MergeFields \/ MergeExpire \/ MergeStops \/ Lapse
      BY <2>1 DEF SnapshotExpires, Report, Ingest, MergeFields, MergeExpire, MergeStops, Lapse
    <2> QED BY <1>2, <1>3, <2>1 DEF Next, Procs
  <1> QED BY <1>3 DEF vars

\* What a sync cycle fetches is not empty.
LEMMA SyncLoads ==
    ASSUME TypeOK, Loaded, NEW p \in Procs,
           \/ p \in Syncs /\ (StartSync(p) \/ \E d \in Devices : Fetch(p, d) \/ FetchFails(p, d))
           \/ ReadBaseline(p) \/ Record(p) \/ RecordFails(p)
    PROVE  HasSomething(p)'
  <1>1. HasSomething(p)
    BY DEF Loaded
  <1>2. CASE p \in Syncs /\ StartSync(p)
    <2>1. p \notin Replays /\ pc'[p] = "next"
      BY <1>2, SnapshotAssumption DEF StartSync, GoTo, TypeOK
    <2> QED BY <2>1 DEF HasSomething, Rebuilding
  <1>3. CASE p \in Syncs /\ \E d \in Devices : Fetch(p, d) \/ FetchFails(p, d)
    <2>1. PICK d \in Devices : Fetch(p, d) \/ FetchFails(p, d)
      BY <1>3
    <2>2. p \notin Replays
      BY <1>3, SnapshotAssumption
    <2>3. CASE Skip(p, d)
      <3>1. pc'[p] = "next"
        BY <2>1, <2>3 DEF Skip, Fetch, FetchFails
      <3> QED BY <2>2, <3>1 DEF HasSomething, Rebuilding
    <2>4. CASE ~ Skip(p, d)
      <3>1. /\ tb[d] # Empty /\ pc'[p] = "baseline" /\ cur'[p] = d /\ got'[p][d] = tb[d]
        BY <2>1, <2>4 DEF Fetch, FetchFails, GoTo, TypeOK
      <3> QED BY <2>2, <3>1 DEF HasSomething, Rebuilding
    <2> QED BY <2>3, <2>4
  <1>4. CASE ReadBaseline(p) \/ Record(p) \/ RecordFails(p)
    <2>1. pc[p] \in Rebuilding \ {"next"} /\ pc'[p] \in Rebuilding \ {"next"}
      BY <1>4 DEF ReadBaseline, Record, RecordFails, GoTo, TypeOK, Rebuilding
    <2>2. UNCHANGED <<todo, cur, got>>
      BY <1>4 DEF ReadBaseline, Record, RecordFails
    <2> QED BY <1>1, <2>1, <2>2 DEF HasSomething
  <1> QED BY <1>2, <1>3, <1>4

\* A replay stores what it read, and only the devices that have anything.
LEMMA ReplayLoads ==
    ASSUME TypeOK, Loaded, NEW p \in Procs,
           \/ p \in Replays /\ \/ RequestReplay(p) \/ Reconcile(p) \/ ReadEvents(p) \/ LockReplay(p)
                               \/ \E d \in Devices : NextState(p, d)
           \/ Store(p) \/ Release(p) \/ StoreRaises(p) \/ Crash(p)
    PROVE  HasSomething(p)'
  <1>1. HasSomething(p)
    BY DEF Loaded
  <1>2. ASSUME Leave(p) PROVE HasSomething(p)'
    <2>1. pc'[p] = "idle" /\ todo'[p] = {}
      BY <1>2 DEF Leave, GoTo, TypeOK
    <2> QED BY <2>1 DEF HasSomething, Rebuilding
  <1>3. CASE RequestReplay(p) \/ Reconcile(p) \/ ReadEvents(p)
    <2>1. pc[p] \notin Rebuilding /\ pc'[p] \notin Rebuilding /\ UNCHANGED todo
      BY <1>3 DEF RequestReplay, Reconcile, ReadEvents, GoTo, TypeOK, Rebuilding
    <2> QED BY <1>1, <2>1 DEF HasSomething
  <1>4. CASE LockReplay(p)
    <2>1. CASE lock
      BY <1>2, <1>4, <2>1 DEF LockReplay
    <2>2. CASE ~ lock
      <3>1. pc'[p] = "next" /\ got' = got /\ todo'[p] = {d \in Devices : got[p][d] # Empty}
        BY <1>4, <2>2 DEF LockReplay, GoTo, TypeOK
      <3> QED BY <3>1 DEF HasSomething, Rebuilding
    <2> QED BY <2>1, <2>2
  <1>5. CASE p \in Replays /\ \E d \in Devices : NextState(p, d)
    <2>1. PICK d \in Devices : NextState(p, d)
      BY <1>5
    <2>2. /\ pc'[p] = "delete" /\ cur'[p] = d /\ d \in todo[p]
          /\ got' = got /\ todo' = todo
      BY <2>1 DEF NextState, GoTo, TypeOK
    <2>3. got[p][d] # Empty
      BY <1>1, <1>5, <2>2 DEF HasSomething
    <2> QED BY <1>1, <2>2, <2>3 DEF HasSomething, Rebuilding
  <1>6. CASE Store(p)
    <2>1. UNCHANGED <<cur, got>> /\ todo'[p] \subseteq todo[p]
      BY <1>6 DEF Store, Delete, HSet, Expire, TypeOK
    <2>2. pc[p] \in Rebuilding \ {"next"} /\ pc'[p] \in Rebuilding
      BY <1>6 DEF Store, Delete, HSet, Expire, GoTo, TypeOK, Rebuilding
    <2> QED BY <1>1, <2>1, <2>2 DEF HasSomething
  <1>7. CASE Release(p) \/ StoreRaises(p) \/ Crash(p)
    BY <1>2, <1>7 DEF Release, StoreRaises, Crash
  <1> QED BY <1>3, <1>4, <1>5, <1>6, <1>7

LEMMA LoadedInvariant == Spec => [](TypeOK /\ Loaded)
  <1>1. Init => TypeOK /\ Loaded
    BY InitSnapshotType DEF Init, Loaded, HasSomething, Rebuilding
  <1>2. TypeOK /\ Loaded /\ [Next]_vars => (TypeOK /\ Loaded)'
    <2> SUFFICES ASSUME TypeOK, Loaded, [Next]_vars PROVE Loaded'
      BY SnapshotNextType
    <2>1. CASE UNCHANGED local
      BY <2>1 DEF local, Loaded, HasSomething
    <2>2. CASE ~ UNCHANGED local
      <3>1. PICK p \in Procs :
              /\ \/ p \in Syncs /\ (StartSync(p) \/ SyncStep(p))
                 \/ p \in Replays /\ (RequestReplay(p) \/ Reconcile(p) \/ ReplayStep(p))
                 \/ Fails(p)
              /\ \A q \in Procs : q # p => /\ pc'[q] = pc[q] /\ todo'[q] = todo[q]
                                           /\ cur'[q] = cur[q] /\ got'[q] = got[q]
        BY <2>2, OneProcess
      <3>2. HasSomething(p)'
        BY <3>1, SyncLoads, ReplayLoads DEF SyncStep, ReplayStep, Fails
      <3>3. \A q \in Procs : q # p => HasSomething(q)'
        BY <3>1 DEF Loaded, HasSomething
      <3> QED BY <3>2, <3>3 DEF Loaded
    <2> QED BY <2>1, <2>2
  <1> QED BY <1>1, <1>2, PTL DEF Spec

\* What a step may do to a hash that is there.
WipesOpenly ==
    \A d \in Devices : snap[d] # Empty /\ snap'[d] = Empty =>
        \/ \E p \in Procs : pc'[p] = "hset" /\ cur'[p] = d /\ got'[p][d] # Empty
        \/ ttl[d] /\ UNCHANGED local

LEMMA WipeStep ==
    ASSUME TypeOK, Loaded, [Next]_vars
    PROVE  WipesOpenly
  <1> SUFFICES ASSUME NEW d \in Devices, snap[d] # Empty, snap'[d] = Empty
               PROVE  \/ \E p \in Procs : pc'[p] = "hset" /\ cur'[p] = d /\ got'[p][d] # Empty
                      \/ ttl[d] /\ UNCHANGED local
    BY DEF WipesOpenly
  <1>1. CASE \E p \in Procs : Delete(p)
    <2>1. PICK p \in Procs : Delete(p)
      BY <1>1
    <2>2. d = cur[p]
      BY <2>1 DEF Delete, TypeOK
    <2>3. got[p][cur[p]] # Empty
      BY <2>1 DEF Delete, Loaded, HasSomething, Rebuilding
    <2>4. pc'[p] = "hset" /\ UNCHANGED <<cur, got>>
      BY <2>1 DEF Delete, GoTo, TypeOK
    <2> QED BY <2>2, <2>3, <2>4
  <1>2. ASSUME NEW e \in Devices, NEW s \in State, snap' = [snap EXCEPT ![e] = Overlay(@, s)]
        PROVE  FALSE
    <2>1. snap[d] \in State /\ snap'[d] \in {snap[d], Overlay(snap[d], s)}
      BY <1>2 DEF TypeOK
    <2> QED BY <2>1, OverlayType
  <1>3. CASE \E p \in Procs : HSet(p)
    <2>1. PICK p \in Procs : HSet(p)
      BY <1>3
    <2>2. cur[p] \in Devices /\ got[p][cur[p]] \in State
      BY DEF TypeOK
    <2> QED BY <1>2, <2>1, <2>2 DEF HSet
  <1>4. CASE MergeFields
    <2>1. merging.device \in Devices /\ merging.fields \in State
      BY DEF TypeOK
    <2> QED BY <1>2, <1>4, <2>1 DEF MergeFields
  <1>5. CASE \E e \in Devices : SnapshotExpires(e)
    BY <1>5 DEF SnapshotExpires, TypeOK
  <1>6. CASE UNCHANGED snap
    BY <1>6
  <1>7. Syncs \subseteq Procs /\ Replays \subseteq Procs
    BY DEF Procs
  <1> QED
    BY <1>1, <1>3, <1>4, <1>5, <1>6, <1>7
       DEF Next, vars, redis, StartSync, SyncStep, Fetch, ReadBaseline, Record, Store, Expire, Release,
           RequestReplay, Reconcile, ReplayStep, ReadEvents, LockReplay, NextState, Fails, StoreRaises,
           Crash, RecordFails, FetchFails, Report, Ingest, MergeExpire, MergeStops, Lapse

\* No failure wipes a device: a hash goes only with its key's expiry, or under a rebuild
\* that has something to put in its place.
THEOREM NothingWipedSilently == Spec => NoSilentWipe
  <1>1. TypeOK /\ Loaded /\ [Next]_vars => [WipesOpenly]_vars
    BY WipeStep
  <1>2. NoSilentWipe <=> [][WipesOpenly]_vars
    BY DEF NoSilentWipe, WipesOpenly
  <1> QED BY <1>1, <1>2, LoadedInvariant, PTL DEF Spec

----------------------------------------------------------------------------

(***************************************************************************)
(* What was observed is recorded.  Only live sync writes a key that no     *)
(* event carries, so that the hash shows of those only what is recorded:   *)
(* a cycle that leaves out what the hash shows leaves out nothing.  It is  *)
(* not so from a cycle's record to its own DEL, which is why two cycles    *)
(* must not meet.                                                          *)
(***************************************************************************)
\* Of the keys that no event carries, t has what s has.
Holds(s, t) == \A f \in DOMAIN s \ Carried : f \in DOMAIN t /\ t[f] = s[f]
Agree(s, t) == Holds(s, t) /\ Holds(t, s)

LEMMA HoldsFacts ==
    ASSUME NEW s, NEW t, NEW u, NEW e, Agree(t, u)
    PROVE  /\ Holds(s, t) => Holds(s, u)
           /\ Holds(t, s) => Holds(u, s)
           /\ Holds(s, Overlay(t, e)) => Holds(s, Overlay(u, e))
  BY DEF Agree, Holds, Overlay

\* What an event adds is of other keys, wherever its time places it.
LEMMA CarriedApart ==
    ASSUME NEW s, NEW e, DOMAIN e \subseteq Carried
    PROVE  /\ Agree(s, Overlay(s, e)) /\ Agree(s, Overlay(e, s))
           /\ DOMAIN s \subseteq Carried => /\ DOMAIN Overlay(s, e) \subseteq Carried
                                            /\ DOMAIN Overlay(e, s) \subseteq Carried
  BY DEF Agree, Holds, Overlay

LEMMA OverlayHolds ==
    ASSUME NEW s, NEW t, NEW u, Holds(s, u), Holds(t, u)
    PROVE  Holds(Overlay(s, t), u)
  BY DEF Holds, Overlay

\* The baseline is recorded, so what differs from it is all there is to record.
LEMMA ChangesSuffice ==
    ASSUME NEW s, NEW t, NEW u, Holds(t, u)
    PROVE  Holds(s, Overlay(u, Changed(s, t)))
  BY DEF Holds, Overlay, Changed

LEMMA EmptyHolds == \A s : Holds(Empty, s) /\ DOMAIN Empty \subseteq Carried
  BY DEF Holds, Empty

\* Events and replays write what events carry.
Sources ==
    /\ \A d \in Devices : DOMAIN table[d] \subseteq Carried
    /\ DOMAIN merging.fields \subseteq Carried
    /\ \A r \in Replays, d \in Devices : DOMAIN got[r][d] \subseteq Carried

\* A hash shows what is recorded, or a cycle that recorded something newer replaces it.
Superseded(d) == \E p \in Syncs : pc[p] = "delete" /\ cur[p] = d
Truthful(d)   == Holds(snap[d], last[d]) \/ Superseded(d)

Storing == {"delete", "hset", "expire"}
Recorder(p) ==
    /\ pc[p] = "record" => Holds(got[p][cur[p]], Overlay(last[cur[p]], delta[p]))
    /\ pc[p] \in Storing => Holds(got[p][cur[p]], last[cur[p]])

Recorded == Sources /\ (\A d \in Devices : Truthful(d)) /\ \A p \in Syncs : Recorder(p)

LEMMA RecordedInit == Init => Recorded
  <1> SUFFICES ASSUME Init PROVE Recorded
    OBVIOUS
  <1>1. Sources
    BY EmptyHolds, Zenon DEF Init, Sources, Procs
  <1>2. \A d \in Devices : Truthful(d)
    BY DEF Init, Truthful, Holds
  <1>3. \A p \in Syncs : Recorder(p)
    BY DEF Init, Recorder, Storing, Procs
  <1> QED BY <1>1, <1>2, <1>3 DEF Recorded

\* The steps of one process that write neither the hashes nor the database.
LEMMA Aside ==
    ASSUME Recorded, NEW p \in Procs,
           \A q \in Procs : q # p => /\ pc'[q] = pc[q] /\ cur'[q] = cur[q]
                                     /\ got'[q] = got[q] /\ delta'[q] = delta[q],
           UNCHANGED <<snap, last, table, merging>>,
           p \in Syncs => pc[p] # "delete" /\ Recorder(p)',
           p \in Replays => \A d \in Devices : DOMAIN got'[p][d] \subseteq Carried
    PROVE  Recorded'
  <1>1. Syncs \subseteq Procs /\ Replays \subseteq Procs
    BY DEF Procs
  <1>2. Sources'
    BY <1>1 DEF Recorded, Sources
  <1>3. \A d \in Devices : Truthful(d)'
    BY <1>1 DEF Recorded, Truthful, Superseded
  <1>4. ASSUME NEW q \in Syncs PROVE Recorder(q)'
    BY <1>1 DEF Recorded, Recorder
  <1> QED BY <1>2, <1>3, <1>4 DEF Recorded

LEMMA SyncAside ==
    ASSUME TypeOK, Recorded, RebuildExclusive, NEW p \in Syncs, faults' = 0,
           \/ StartSync(p) \/ ReadBaseline(p) \/ Release(p)
           \/ \E d \in Devices : Fetch(p, d)
    PROVE  /\ UNCHANGED <<snap, last, table, merging>>
           /\ pc[p] # "delete" /\ Recorder(p)'
  <1>1. p \in Procs
    BY DEF Procs
  <1>2. CASE StartSync(p) \/ Release(p)
    <2>1. pc'[p] \in {"next", "idle"} /\ pc[p] \in {"idle", "next"}
      BY <1>1, <1>2 DEF StartSync, Release, Leave, GoTo, TypeOK
    <2> QED BY <1>2, <2>1 DEF StartSync, Release, redis, Recorder, Storing
  <1>3. CASE \E d \in Devices : Fetch(p, d)
    <2>1. pc'[p] \in {"next", "baseline"} /\ pc[p] = "next"
      BY <1>1, <1>3 DEF Fetch, Skip, GoTo, TypeOK
    <2> QED BY <1>3, <2>1 DEF Fetch, redis, Recorder, Storing
  <1>4. CASE ReadBaseline(p)
    <2>1. pc[p] = "baseline" /\ pc'[p] = "record"
      BY <1>1, <1>4 DEF ReadBaseline, GoTo, TypeOK
    <2>2. delta' = [delta EXCEPT ![p] = Changed(got[p][cur[p]], snap[cur[p]])]
      BY <1>4, FaultType DEF ReadBaseline
    <2>3. cur[p] \in Devices /\ UNCHANGED <<cur, got, snap, last, table, merging>>
      BY <1>1, <1>4 DEF ReadBaseline, redis, TypeOK
    <2>4. ~ Superseded(cur[p])
      BY <1>1, <2>1 DEF Superseded, RebuildExclusive, Critical, Rebuilding, Procs
    <2>5. Holds(snap[cur[p]], last[cur[p]])
      BY <2>3, <2>4 DEF Recorded, Truthful
    <2>6. delta'[p] = Changed(got[p][cur[p]], snap[cur[p]])
      BY <1>1, <2>2 DEF TypeOK
    <2>7. Holds(got[p][cur[p]], Overlay(last[cur[p]], delta'[p]))
      BY <2>5, <2>6, ChangesSuffice
    <2>8. Recorder(p)'
      BY <2>1, <2>3, <2>7 DEF Recorder, Storing
    <2> QED BY <2>1, <2>3, <2>8
  <1> QED BY <1>2, <1>3, <1>4

LEMMA ReplayAside ==
    ASSUME TypeOK, Recorded, NEW r \in Replays,
           \/ RequestReplay(r) \/ Reconcile(r) \/ ReadEvents(r) \/ LockReplay(r) \/ Release(r)
           \/ \E d \in Devices : NextState(r, d)
    PROVE  /\ UNCHANGED <<snap, last, table, merging>>
           /\ \A d \in Devices : DOMAIN got'[r][d] \subseteq Carried
  <1>1. r \in Procs
    BY DEF Procs
  <1>2. got'[r] \in {got[r], table, [d \in Devices |-> Empty]}
    BY <1>1 DEF RequestReplay, Reconcile, ReadEvents, LockReplay, Release, NextState, Leave, TypeOK
  <1>3. \A d \in Devices : DOMAIN got'[r][d] \subseteq Carried
    BY <1>2, EmptyHolds DEF Recorded, Sources
  <1>4. UNCHANGED <<snap, last, table, merging>>
    BY DEF RequestReplay, Reconcile, ReadEvents, LockReplay, Release, NextState, redis
  <1> QED BY <1>3, <1>4

\* Recording makes the hash out of date until the same cycle deletes it.
LEMMA RecordRecords ==
    ASSUME TypeOK, Recorded, RebuildExclusive, NEW p \in Syncs, Record(p)
    PROVE  Recorded'
  <1>1. p \in Procs /\ Syncs \subseteq Procs /\ cur[p] \in Devices
    BY DEF Procs, TypeOK
  <1>2. /\ pc[p] = "record" /\ pc' = [pc EXCEPT ![p] = "delete"]
        /\ last' = [last EXCEPT ![cur[p]] = Overlay(last[cur[p]], delta[p])]
        /\ UNCHANGED <<cur, got, delta, snap, table, merging>>
    BY DEF Record, GoTo, redis
  <1>3. pc'[p] = "delete" /\ (\A q \in Procs : q # p => pc'[q] = pc[q])
    BY <1>1, <1>2 DEF TypeOK
  <1>4. last'[cur[p]] = Overlay(last[cur[p]], delta[p]) /\ \A d \in Devices : d # cur[p] => last'[d] = last[d]
    BY <1>1, <1>2 DEF TypeOK
  <1>5. Sources'
    BY <1>2 DEF Recorded, Sources
  <1>6. ASSUME NEW d \in Devices PROVE Truthful(d)'
    <2>1. CASE d = cur[p]
      BY <1>2, <1>3, <2>1 DEF Truthful, Superseded
    <2>2. CASE d # cur[p]
      <3>1. Truthful(d)
        BY DEF Recorded
      <3> QED BY <1>1, <1>2, <1>3, <1>4, <2>2, <3>1 DEF Truthful, Superseded
    <2> QED BY <2>1, <2>2
  <1>7. ASSUME NEW q \in Syncs PROVE Recorder(q)'
    <2>1. CASE q = p
      <3>1. Holds(got[p][cur[p]], last'[cur[p]])
        BY <1>2, <1>4 DEF Recorded, Recorder
      <3> QED BY <1>2, <1>3, <2>1, <3>1 DEF Recorder
    <2>2. CASE q # p
      <3>1. ~ Critical(q)
        BY <1>1, <1>2, <2>2 DEF RebuildExclusive, Critical, Rebuilding
      <3> QED BY <1>1, <1>3, <2>2, <3>1 DEF Recorder, Critical, Rebuilding, Storing
    <2> QED BY <2>1, <2>2
  <1> QED BY <1>5, <1>6, <1>7 DEF Recorded

\* A hash is deleted, or gets what is recorded.
LEMMA StoreRecords ==
    ASSUME TypeOK, Recorded, NEW p \in Procs, Store(p)
    PROVE  Recorded'
  <1>1. Syncs \subseteq Procs /\ cur[p] \in Devices
    BY DEF Procs, TypeOK
  <1>2. /\ pc[p] \in Storing /\ pc'[p] \in {"hset", "expire", "next"} /\ (\A q \in Procs : q # p => pc'[q] = pc[q])
        /\ pc'[p] \in Storing \/ pc'[p] = "next"
        /\ UNCHANGED <<cur, got, delta, last, table, merging>>
    BY DEF Store, Delete, HSet, Expire, GoTo, Storing, TypeOK
  <1>3. Sources'
    BY <1>2 DEF Recorded, Sources
  <1>4. ASSUME NEW q \in Syncs PROVE Recorder(q)'
    BY <1>1, <1>2 DEF Recorded, Recorder, Storing
  <1>5. ASSUME NEW d \in Devices PROVE Truthful(d)'
    <2>1. Truthful(d)
      BY DEF Recorded
    <2>2. CASE Delete(p)
      <3>1. CASE d = cur[p]
        <4>1. snap'[d] = Empty
          BY <1>1, <2>2, <3>1 DEF Delete, TypeOK
        <4> QED BY <4>1, EmptyHolds DEF Truthful
      <3>2. CASE d # cur[p]
        <4>1. snap'[d] = snap[d]
          BY <1>1, <2>2, <3>2 DEF Delete, TypeOK
        <4> QED BY <1>1, <1>2, <2>1, <3>2, <4>1 DEF Truthful, Superseded
      <3> QED BY <3>1, <3>2
    <2>3. CASE HSet(p)
      <3>1. pc[p] = "hset"
        BY <2>3 DEF HSet
      <3>2. Superseded(d)' \/ Holds(snap[d], last[d])
        BY <1>1, <1>2, <2>1, <3>1 DEF Truthful, Superseded
      <3>3. CASE d = cur[p]
        <4>1. snap'[d] = Overlay(snap[d], got[p][cur[p]])
          BY <1>1, <2>3, <3>3 DEF HSet, TypeOK
        <4>2. Holds(got[p][cur[p]], last[d])
          <5>1. CASE p \in Syncs
            BY <3>1, <3>3, <5>1 DEF Recorded, Recorder, Storing
          <5>2. CASE p \in Replays
            BY <1>1, <5>2 DEF Recorded, Sources, Holds
          <5> QED BY <5>1, <5>2 DEF Procs
        <4> QED BY <1>2, <3>2, <4>1, <4>2, OverlayHolds DEF Truthful
      <3>4. CASE d # cur[p]
        <4>1. snap'[d] = snap[d]
          BY <1>1, <2>3, <3>4 DEF HSet, TypeOK
        <4> QED BY <1>2, <3>2, <4>1 DEF Truthful
      <3> QED BY <3>3, <3>4
    <2>4. CASE Expire(p)
      <3>1. pc[p] = "expire" /\ snap' = snap
        BY <2>4 DEF Expire
      <3> QED BY <1>1, <1>2, <2>1, <3>1 DEF Truthful, Superseded
    <2> QED BY <2>2, <2>3, <2>4 DEF Store
  <1> QED BY <1>3, <1>4, <1>5 DEF Recorded

LEMMA WorldRecords ==
    ASSUME TypeOK, Recorded, faults' = 0,
           \/ \E d \in Devices : \/ SnapshotExpires(d)
                                 \/ \E r \in Readings : Report(d, r)
                                 \/ \E e \in Events : Ingest(d, e)
           \/ MergeFields \/ MergeExpire \/ MergeStops \/ Lapse
    PROVE  Recorded'
  <1>1. UNCHANGED <<pc, cur, got, delta>>
    BY DEF local, SnapshotExpires, Report, Ingest, MergeFields, MergeExpire, MergeStops, Lapse
  <1>2. CASE \E d \in Devices : SnapshotExpires(d)
    <2>1. UNCHANGED <<table, last, merging>>
      BY <1>2 DEF SnapshotExpires
    <2>2. \A d \in Devices : snap'[d] \in {snap[d], Empty}
      BY <1>2 DEF SnapshotExpires, TypeOK
    <2> QED BY <1>1, <2>1, <2>2, EmptyHolds DEF Recorded, Sources, Truthful, Superseded, Recorder
  <1>3. CASE \E d \in Devices : \E r \in Readings : Report(d, r)
    BY <1>1, <1>3 DEF Report, redis, Recorded, Sources, Truthful, Superseded, Recorder
  <1>4. CASE \E d \in Devices : \E e \in Events : Ingest(d, e)
    <2>1. PICK d \in Devices, e \in Events : Ingest(d, e)
      BY <1>4
    <2>2. PICK late \in BOOLEAN :
            /\ table' = [table EXCEPT ![d] = IF late THEN Overlay(e, table[d]) ELSE Overlay(table[d], e)]
            /\ last' = [last EXCEPT ![d] = IF late THEN Overlay(e, last[d]) ELSE Overlay(last[d], e)]
      BY <2>1 DEF Ingest
    <2>3. merging'.fields = e /\ UNCHANGED snap /\ DOMAIN e \subseteq Carried
      BY <2>1 DEF Ingest, redis, Carried
    <2>4. \A c \in Devices : Agree(last[c], last'[c])
      <3> TAKE c \in Devices
      <3>1. last'[c] \in {last[c], Overlay(e, last[c]), Overlay(last[c], e)}
        BY <2>2 DEF TypeOK
      <3>2. Agree(last[c], last[c])
        BY DEF Agree, Holds
      <3> QED BY <2>3, <3>1, <3>2, CarriedApart
    <2>5. \A c \in Devices : DOMAIN table'[c] \subseteq Carried
      <3> TAKE c \in Devices
      <3>1. table'[c] \in {table[c], Overlay(e, table[c]), Overlay(table[c], e)}
        BY <2>2 DEF TypeOK
      <3> QED BY <2>3, <3>1, CarriedApart DEF Recorded, Sources
    <2>6. Sources'
      BY <1>1, <2>3, <2>5 DEF Recorded, Sources
    <2>7. ASSUME NEW c \in Devices PROVE Truthful(c)'
      BY <1>1, <2>3, <2>4, HoldsFacts DEF Recorded, Truthful, Superseded
    <2>8. ASSUME NEW p \in Syncs PROVE Recorder(p)'
      <3>1. cur[p] \in Devices
        BY DEF TypeOK, Procs
      <3>2. Recorder(p)
        BY DEF Recorded
      <3> QED BY <1>1, <2>4, <3>1, <3>2, HoldsFacts DEF Recorder
    <2> QED BY <2>6, <2>7, <2>8 DEF Recorded
  <1>5. CASE MergeFields
    <2>1. /\ snap' = [snap EXCEPT ![merging.device] = Overlay(snap[merging.device], merging.fields)]
          /\ merging.device \in Devices /\ merging'.fields = merging.fields /\ UNCHANGED <<table, last>>
      BY <1>5 DEF MergeFields, TypeOK
    <2>2. DOMAIN merging.fields \subseteq Carried
      BY DEF Recorded, Sources
    <2>3. Sources'
      BY <1>1, <2>1, <2>2 DEF Recorded, Sources
    <2>4. ASSUME NEW d \in Devices PROVE Truthful(d)'
      <3>1. Truthful(d)
        BY DEF Recorded
      <3>2. snap'[d] \in {snap[d], Overlay(snap[d], merging.fields)}
        BY <2>1 DEF TypeOK
      <3>3. Agree(snap[d], Overlay(snap[d], merging.fields))
        BY <2>2, CarriedApart
      <3>4. Holds(snap[d], last[d]) => Holds(snap'[d], last[d])
        BY <3>2, <3>3, HoldsFacts
      <3> QED BY <1>1, <2>1, <3>1, <3>4 DEF Truthful, Superseded
    <2>5. ASSUME NEW p \in Syncs PROVE Recorder(p)'
      BY <1>1, <2>1 DEF Recorded, Recorder
    <2> QED BY <2>3, <2>4, <2>5 DEF Recorded
  <1>6. CASE MergeExpire
    <2>1. merging'.fields = Empty /\ UNCHANGED <<snap, table, last>>
      BY <1>6 DEF MergeExpire
    <2> QED BY <1>1, <2>1, EmptyHolds DEF Recorded, Sources, Truthful, Superseded, Recorder
  <1>7. ~ MergeStops
    BY FaultType DEF MergeStops
  <1>8. CASE Lapse
    BY <1>1, <1>8 DEF Lapse, redis, Recorded, Sources, Truthful, Superseded, Recorder
  <1> QED BY <1>2, <1>3, <1>4, <1>5, <1>6, <1>7, <1>8

LEMMA RecordedStep ==
    ASSUME TypeOK, Recorded, RebuildExclusive, faults' = 0, [Next]_vars
    PROVE  Recorded'
  <1>1. CASE UNCHANGED local /\ ~ \E p \in Procs : Store(p) \/ Record(p)
    <2>1. CASE UNCHANGED <<snap, last, table, merging>>
      BY <1>1, <2>1 DEF local, Recorded, Sources, Truthful, Superseded, Recorder
    <2>2. CASE ~ UNCHANGED <<snap, last, table, merging>>
      <3>1. CASE \E p \in Procs : Fails(p)
        BY <2>2, <3>1 DEF Fails, StoreRaises, Crash, RecordFails, FetchFails, redis
      <3>2. CASE \E p \in Syncs : StartSync(p) \/ SyncStep(p)
        BY <1>1, <2>2, <3>2
           DEF Procs, SyncStep, StartSync, Fetch, ReadBaseline, Release, redis
      <3>3. CASE \E r \in Replays : RequestReplay(r) \/ Reconcile(r) \/ ReplayStep(r)
        BY <1>1, <2>2, <3>3
           DEF Procs, ReplayStep, RequestReplay, Reconcile, ReadEvents, LockReplay, NextState, Release, redis
      <3>4. CASE UNCHANGED vars
        BY <2>2, <3>4 DEF vars, redis
      <3> QED BY <3>1, <3>2, <3>3, <3>4, WorldRecords DEF Next
    <2> QED BY <2>1, <2>2
  <1>2. CASE ~ UNCHANGED local
    <2>1. PICK p \in Procs :
            /\ \/ p \in Syncs /\ (StartSync(p) \/ SyncStep(p))
               \/ p \in Replays /\ (RequestReplay(p) \/ Reconcile(p) \/ ReplayStep(p))
               \/ Fails(p)
            /\ \A q \in Procs : q # p => /\ pc'[q] = pc[q] /\ cur'[q] = cur[q] /\ got'[q] = got[q]
                                         /\ delta'[q] = delta[q]
      BY <1>2, OneProcess
    <2>2. ~ Fails(p)
      BY FaultType DEF Fails, StoreRaises, Crash, RecordFails, FetchFails
    <2>3. CASE Store(p)
      BY <2>3, StoreRecords
    <2>4. CASE p \in Syncs /\ Record(p)
      BY <2>4, RecordRecords
    <2>5. CASE p \in Syncs /\ \/ StartSync(p) \/ ReadBaseline(p) \/ Release(p)
                              \/ \E d \in Devices : Fetch(p, d)
      BY <2>1, <2>5, SyncAside, Aside, SnapshotAssumption
    <2>6. CASE p \in Replays /\ \/ RequestReplay(p) \/ Reconcile(p) \/ ReadEvents(p) \/ LockReplay(p)
                                \/ Release(p) \/ \E d \in Devices : NextState(p, d)
      BY <2>1, <2>6, ReplayAside, Aside, SnapshotAssumption
    <2> QED BY <2>1, <2>2, <2>3, <2>4, <2>5, <2>6 DEF SyncStep, ReplayStep
  <1>3. CASE \E p \in Procs : Store(p)
    BY <1>3, StoreRecords
  <1>4. ASSUME UNCHANGED local, NEW p \in Procs PROVE ~ Record(p)
    BY <1>4 DEF Record, GoTo, local, TypeOK
  <1> QED BY <1>1, <1>2, <1>3, <1>4

\* Live sync loses no change of a key that no event carries, for any number of cycles,
\* replays and events side by side, any time between their steps and any expiry of the
\* hash it compares with, until something fails.
THEOREM ChangesAreRecorded == Spec => []ObservedIsRecorded
  <1> DEFINE Exact == faults = 0 => Exclusion /\ Recorded
             Inv   == TypeOK /\ lock \in BOOLEAN /\ Exact
  <1>1. Init => Inv
    BY InitSnapshotType, ExclusionInit, RecordedInit DEF TypeOK
  <1>2. Inv /\ [Next]_vars => Inv'
    <2> SUFFICES ASSUME Inv, [Next]_vars PROVE Inv'
      OBVIOUS
    <2>1. TypeOK' /\ lock' \in BOOLEAN
      BY SnapshotNextType DEF TypeOK
    <2>2. ASSUME faults' = 0 PROVE Exclusion' /\ Recorded'
      <3>1. faults = 0 /\ ~ Fault("lapse")
        BY <2>2, FaultsCount, FaultType
      <3>2. Exclusion /\ Recorded /\ RebuildExclusive
        BY <3>1 DEF Exclusion
      <3> QED BY <2>2, <3>1, <3>2, ExclusionStep, RecordedStep
    <2> QED BY <2>1, <2>2
  <1>3. Inv => ObservedIsRecorded
    BY DEF Recorded, Recorder, Holds, Storing, ObservedIsRecorded
  <1> QED BY <1>1, <1>2, <1>3, PTL DEF Spec
============================================================================
