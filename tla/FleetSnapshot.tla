--------------------------- MODULE FleetSnapshot ---------------------------
(***************************************************************************)
(* The Redis fleet snapshot of one customer and everything that writes it: *)
(* live-sync cycles and replays, which rebuild it under the rebuild lock,  *)
(* the reconciliation job, which starts replays, and the event consumer,   *)
(* which merges single fields without the lock. device_telemetry is        *)
(* modelled by its last value of each key, because live sync records a     *)
(* value only when the snapshot, its baseline, shows another one.          *)
(***************************************************************************)
EXTENDS Naturals

CONSTANTS
    Devices, Fields, Values,
    Syncs,       \* processes that run the live-sync job
    Replays,     \* processes that run replays and reconciliations
    Readings,    \* the field sets ThingsBoard may hold for a device
    Events,      \* the field sets a webhook event may carry
    FaultKinds,  \* what may go wrong: see FaultKind
    MaxFaults,   \* bound: failures
    MaxInputs    \* bound: readings, events, replay requests and expiries

State == UNION {[S -> Values] : S \in SUBSET Fields}
Empty == [f \in {} |-> 0]
Home  == CHOOSE d \in Devices : TRUE
Procs == Syncs \cup Replays

FaultKind == {"fetch", "database", "redis", "crash", "lapse"}

ASSUME SnapshotAssumption ==
    /\ Devices # {} /\ Syncs \cap Replays = {}
    /\ Readings \subseteq State /\ Events \subseteq State
    /\ FaultKinds \subseteq FaultKind
    /\ MaxFaults \in Nat /\ MaxInputs \in Nat

VARIABLES
    lock,     \* the key fleet:v1:lock:<customer> exists
    pc,       \* where each process stands
    todo,     \* process -> devices its rebuild has not reached yet
    cur,      \* process -> the device being rebuilt
    got,      \* process -> device -> the fields it will store
    delta,    \* sync -> what differs from the baseline
    tb,       \* ThingsBoard's latest state of each device
    snap,     \* device -> the hash in Redis, empty when there is no key
    ttl,      \* device -> the key has an expiry
    table,    \* device -> the fold of its event rows, oldest first
    last,     \* device -> the last recorded value of each key
    merging,  \* the consumer: where it stands, on which device, with what
    faults, inputs

local == <<pc, todo, cur, got, delta>>
redis == <<snap, ttl>>
vars  == <<lock, local, tb, redis, table, last, merging, faults, inputs>>

Overlay(s, t) == [f \in DOMAIN s \cup DOMAIN t |-> IF f \in DOMAIN t THEN t[f] ELSE s[f]]

\* Mutant: only new keys count as changed.
NewKeysOnly(new, previous) == [f \in DOMAIN new \ DOMAIN previous |-> new[f]]

\* changed_fields
Changed(new, previous) ==
    [f \in {g \in DOMAIN new : g \notin DOMAIN previous \/ previous[g] # new[g]} |-> new[f]]

Rebuilding == {"next", "baseline", "record", "delete", "hset", "expire"}
Critical(p) == pc[p] \in Rebuilding

Fault(kind) == kind \in FaultKinds /\ faults < MaxFaults /\ faults' = faults + 1
Input       == inputs < MaxInputs /\ inputs' = inputs + 1
GoTo(p, label) == pc' = [pc EXCEPT ![p] = label]

\* A rebuild that ends, however it ends, leaves no local state behind.
Leave(p) ==
    /\ GoTo(p, "idle")
    /\ todo' = [todo EXCEPT ![p] = {}]
    /\ cur' = [cur EXCEPT ![p] = Home]
    /\ got' = [got EXCEPT ![p] = [d \in Devices |-> Empty]]
    /\ delta' = [delta EXCEPT ![p] = Empty]

\* The first cycle has stored what ThingsBoard holds, and no event came yet, or
\* nothing was stored at all.
Init ==
    /\ lock = FALSE
    /\ pc = [p \in Procs |-> "idle"]
    /\ todo = [p \in Procs |-> {}]
    /\ cur = [p \in Procs |-> Home]
    /\ got = [p \in Procs |-> [d \in Devices |-> Empty]]
    /\ delta = [p \in Procs |-> Empty]
    /\ tb \in [Devices -> Readings]
    /\ table = [d \in Devices |-> Empty]
    /\ \/ snap = tb /\ last = tb /\ ttl = [d \in Devices |-> tb[d] # Empty]
       \/ /\ snap = [d \in Devices |-> Empty] /\ last = [d \in Devices |-> Empty]
          /\ ttl = [d \in Devices |-> FALSE]
    /\ merging = [pc |-> "idle", device |-> Home, fields |-> Empty]
    /\ faults = 0 /\ inputs = 0

----------------------------------------------------------------------------
(* The rebuild lock. *)

LockAnyway == lock' = TRUE            \* mutant: SET without NX

\* SET NX EX
Lock == ~ lock /\ lock' = TRUE

\* A live-sync cycle. A running rebuild is skipped, not queued.
StartSync(p) ==
    /\ pc[p] = "idle"
    /\ Lock
    /\ GoTo(p, "next")
    /\ todo' = [todo EXCEPT ![p] = Devices]
    /\ UNCHANGED <<cur, got, delta, tb, redis, table, last, merging, faults, inputs>>

\* The key is deleted whoever set it.
Release(p) ==
    /\ pc[p] = "next" /\ todo[p] = {}
    /\ lock' = FALSE
    /\ Leave(p)
    /\ UNCHANGED <<tb, redis, table, last, merging, faults, inputs>>

LapseNever == FALSE /\ UNCHANGED vars \* mutant: SET without EX

\* The key expires: after its holder died, or under a holder that takes longer
\* than the key lives.
Lapse ==
    /\ lock
    /\ IF \E p \in Procs : Critical(p) THEN Fault("lapse") ELSE UNCHANGED faults
    /\ lock' = FALSE
    /\ UNCHANGED <<local, tb, redis, table, last, merging, inputs>>

----------------------------------------------------------------------------
(* Live sync, device by device. *)

Skip(p, d) == /\ todo' = [todo EXCEPT ![p] = @ \ {d}]
              /\ UNCHANGED <<pc, cur, got>>

\* Mutant: the guard on an empty fetch is dropped.
FetchAnything(p, d) ==
    /\ pc[p] = "next" /\ d \in todo[p]
    /\ got' = [got EXCEPT ![p][d] = tb[d]]
    /\ cur' = [cur EXCEPT ![p] = d]
    /\ GoTo(p, "baseline")
    /\ UNCHANGED <<lock, todo, delta, tb, redis, table, last, merging, faults, inputs>>

\* fetch_device_fields. A device without fields is skipped.
Fetch(p, d) ==
    /\ pc[p] = "next" /\ d \in todo[p]
    /\ IF tb[d] = Empty
         THEN Skip(p, d)
         ELSE /\ got' = [got EXCEPT ![p][d] = tb[d]]
              /\ cur' = [cur EXCEPT ![p] = d]
              /\ GoTo(p, "baseline")
              /\ UNCHANGED todo
    /\ UNCHANGED <<lock, delta, tb, redis, table, last, merging, faults, inputs>>

\* A device whose fetch fails keeps its snapshot.
FetchFails(p, d) ==
    /\ pc[p] = "next" /\ d \in todo[p]
    /\ Fault("fetch")
    /\ Skip(p, d)
    /\ UNCHANGED <<lock, delta, tb, redis, table, last, merging, inputs>>

\* An unreadable baseline counts as an empty one.
ReadBaseline(p) ==
    /\ pc[p] = "baseline"
    /\ \/ /\ delta' = [delta EXCEPT ![p] = Changed(got[p][cur[p]], snap[cur[p]])]
          /\ UNCHANGED faults
       \/ /\ delta' = [delta EXCEPT ![p] = got[p][cur[p]]]
          /\ Fault("redis")
    /\ GoTo(p, "record")
    /\ UNCHANGED <<lock, todo, cur, got, tb, redis, table, last, merging, inputs>>

Record(p) ==
    /\ pc[p] = "record"
    /\ last' = [last EXCEPT ![cur[p]] = Overlay(@, delta[p])]
    /\ GoTo(p, "delete")
    /\ UNCHANGED <<lock, todo, cur, got, delta, tb, redis, table, merging, faults, inputs>>

\* A database failure is logged and does not cost the cache update.
RecordFails(p) ==
    /\ pc[p] = "record" /\ delta[p] # Empty
    /\ Fault("database")
    /\ GoTo(p, "delete")
    /\ UNCHANGED <<lock, todo, cur, got, delta, tb, redis, table, last, merging, inputs>>

----------------------------------------------------------------------------
(* store_device_state: DEL, HSET, EXPIRE. *)

Delete(p) ==
    /\ pc[p] = "delete"
    /\ snap' = [snap EXCEPT ![cur[p]] = Empty]
    /\ ttl' = [ttl EXCEPT ![cur[p]] = FALSE]
    /\ GoTo(p, "hset")
    /\ UNCHANGED <<lock, todo, cur, got, delta, tb, table, last, merging, faults, inputs>>

HSet(p) ==
    /\ pc[p] = "hset"
    /\ snap' = [snap EXCEPT ![cur[p]] = Overlay(@, got[p][cur[p]])]
    /\ GoTo(p, "expire")
    /\ UNCHANGED <<lock, todo, cur, got, delta, tb, ttl, table, last, merging, faults, inputs>>

Expire(p) ==
    /\ pc[p] = "expire"
    /\ ttl' = [ttl EXCEPT ![cur[p]] = snap[cur[p]] # Empty]
    /\ todo' = [todo EXCEPT ![p] = @ \ {cur[p]}]
    /\ GoTo(p, "next")
    /\ UNCHANGED <<lock, cur, got, delta, tb, snap, table, last, merging, faults, inputs>>

\* A Redis command raises; the rebuild ends and its finally clause releases the
\* lock, if that command does not fail as well.
StoreRaises(p) ==
    /\ pc[p] \in {"delete", "hset", "expire"}
    /\ Fault("redis")
    /\ lock' = FALSE \/ UNCHANGED lock
    /\ Leave(p)
    /\ UNCHANGED <<tb, redis, table, last, merging, inputs>>

\* The process dies and starts again.
Crash(p) ==
    /\ pc[p] # "idle"
    /\ Fault("crash")
    /\ Leave(p)
    /\ UNCHANGED <<lock, tb, redis, table, last, merging, inputs>>

----------------------------------------------------------------------------
(* Replay and reconciliation. *)

\* POST /replay
RequestReplay(r) ==
    /\ pc[r] = "idle"
    /\ Input
    /\ GoTo(r, "read")
    /\ UNCHANGED <<lock, todo, cur, got, delta, tb, redis, table, last, merging, faults>>

\* detect_missing: the snapshots are read without the lock.
Missing == {d \in Devices : table[d] # Empty /\ snap[d] = Empty}

Reconcile(r) ==
    /\ pc[r] = "idle"
    /\ Missing # {}
    /\ GoTo(r, "repair")
    /\ UNCHANGED <<lock, todo, cur, got, delta, tb, redis, table, last, merging, faults, inputs>>

\* replay_customer reads the event rows before it asks for the lock.
ReadEvents(r) ==
    /\ pc[r] \in {"read", "repair"}
    /\ got' = [got EXCEPT ![r] = table]
    /\ GoTo(r, IF pc[r] = "read" THEN "lock" ELSE "repairlock")
    /\ UNCHANGED <<lock, todo, cur, delta, tb, redis, table, last, merging, faults, inputs>>

\* ReplayInProgressError ends a replay that finds the lock taken.
LockReplay(r) ==
    /\ pc[r] \in {"lock", "repairlock"}
    /\ IF lock
         THEN Leave(r) /\ UNCHANGED lock
         ELSE /\ Lock
              /\ GoTo(r, "next")
              /\ todo' = [todo EXCEPT ![r] = {d \in Devices : got[r][d] # Empty}]
              /\ UNCHANGED <<cur, got, delta>>
    /\ UNCHANGED <<tb, redis, table, last, merging, faults, inputs>>

NextState(r, d) ==
    /\ pc[r] = "next" /\ d \in todo[r]
    /\ cur' = [cur EXCEPT ![r] = d]
    /\ GoTo(r, "delete")
    /\ UNCHANGED <<lock, todo, got, delta, tb, redis, table, last, merging, faults, inputs>>

----------------------------------------------------------------------------
(* ThingsBoard and the event consumer. *)

Report(d, s) ==
    /\ Input
    /\ tb' = [tb EXCEPT ![d] = s]
    /\ UNCHANGED <<lock, local, redis, table, last, merging, faults>>

\* The consumer stores an event and its telemetry, then folds it. The event's own
\* time may place it before the rows already there.
Ingest(d, e) ==
    /\ merging.pc = "idle"
    /\ Input
    /\ \E late \in BOOLEAN :
        LET Add(s) == IF late THEN Overlay(e, s) ELSE Overlay(s, e) IN
        /\ table' = [table EXCEPT ![d] = Add(@)]
        /\ last' = [last EXCEPT ![d] = Add(@)]
    /\ merging' = [pc |-> "hset", device |-> d, fields |-> e]
    /\ UNCHANGED <<lock, local, tb, redis, faults>>

\* merge_device_state: HSET, EXPIRE
MergeFields ==
    /\ merging.pc = "hset"
    /\ snap' = [snap EXCEPT ![merging.device] = Overlay(@, merging.fields)]
    /\ merging' = [merging EXCEPT !.pc = "expire"]
    /\ UNCHANGED <<lock, local, tb, ttl, table, last, faults, inputs>>

\* Mutant: HSET without EXPIRE.
MergeWithoutExpire ==
    /\ merging.pc = "expire"
    /\ merging' = [pc |-> "idle", device |-> Home, fields |-> Empty]
    /\ UNCHANGED <<lock, local, tb, redis, table, last, faults, inputs>>

MergeExpire ==
    /\ merging.pc = "expire"
    /\ ttl' = [ttl EXCEPT ![merging.device] = snap[merging.device] # Empty]
    /\ merging' = [pc |-> "idle", device |-> Home, fields |-> Empty]
    /\ UNCHANGED <<lock, local, tb, snap, table, last, faults, inputs>>

\* The consumer dies, or a command of its fold raises, which ends it as well.
MergeStops ==
    /\ merging.pc # "idle"
    /\ Fault("crash")
    /\ merging' = [pc |-> "idle", device |-> Home, fields |-> Empty]
    /\ UNCHANGED <<lock, local, tb, redis, table, last, inputs>>

\* No cycle reached the device for SNAPSHOT_TTL_SECONDS, or Redis evicted the key.
SnapshotExpires(d) ==
    /\ snap[d] # Empty /\ ttl[d]
    /\ Input
    /\ snap' = [snap EXCEPT ![d] = Empty]
    /\ ttl' = [ttl EXCEPT ![d] = FALSE]
    /\ UNCHANGED <<lock, local, tb, table, last, merging, faults>>

Store(p) == Delete(p) \/ HSet(p) \/ Expire(p)

SyncStep(p) ==
    \/ \E d \in Devices : Fetch(p, d)
    \/ ReadBaseline(p) \/ Record(p) \/ Store(p) \/ Release(p)

ReplayStep(r) ==
    \/ ReadEvents(r) \/ LockReplay(r) \/ Store(r) \/ Release(r)
    \/ \E d \in Devices : NextState(r, d)

Fails(p) ==
    \/ StoreRaises(p) \/ Crash(p)
    \/ p \in Syncs /\ (RecordFails(p) \/ \E d \in Devices : FetchFails(p, d))

Next ==
    \/ \E p \in Syncs : StartSync(p) \/ SyncStep(p)
    \/ \E r \in Replays : RequestReplay(r) \/ Reconcile(r) \/ ReplayStep(r)
    \/ \E p \in Procs : Fails(p)
    \/ \E d \in Devices : \/ SnapshotExpires(d)
                          \/ \E s \in Readings : Report(d, s)
                          \/ \E e \in Events : Ingest(d, e)
    \/ MergeFields \/ MergeExpire \/ MergeStops \/ Lapse

Spec == Init /\ [][Next]_vars

\* The schedulers start a cycle every interval, a running rebuild goes on, Redis
\* drops an abandoned lock.
Fairness ==
    /\ \A p \in Syncs : WF_vars(SyncStep(p))
    /\ WF_vars(\E p \in Syncs : StartSync(p))
    /\ \A r \in Replays : WF_vars(ReplayStep(r))
    /\ WF_vars(Lapse /\ UNCHANGED faults)
    /\ WF_vars(MergeFields) /\ WF_vars(MergeExpire)

FairSpec == Spec /\ Fairness

----------------------------------------------------------------------------
(* Properties. *)

Labels == Rebuilding \cup {"idle", "read", "repair", "lock", "repairlock"}

TypeOK ==
    /\ lock \in BOOLEAN
    /\ pc \in [Procs -> Labels]
    /\ todo \in [Procs -> SUBSET Devices]
    /\ cur \in [Procs -> Devices]
    /\ got \in [Procs -> [Devices -> State]]
    /\ delta \in [Procs -> State]
    /\ tb \in [Devices -> Readings]
    /\ snap \in [Devices -> State] /\ ttl \in [Devices -> BOOLEAN]
    /\ table \in [Devices -> State] /\ last \in [Devices -> State]
    /\ merging \in [pc : {"idle", "hset", "expire"}, device : Devices, fields : State]
    /\ faults \in 0 .. MaxFaults /\ inputs \in 0 .. MaxInputs

\* Live sync and replay can never rebuild one customer at once, as long as no
\* rebuild outlives its lock.
RebuildExclusive ==
    \A p, q \in Procs : Critical(p) /\ Critical(q) => p = q

\* A snapshot without an expiry is about to get one, so none outlives its writers:
\* while no command fails and no process dies between HSET and EXPIRE.
NoImmortalSnapshot ==
    faults = 0 =>
    \A d \in Devices : snap[d] # Empty /\ ~ ttl[d] =>
        \/ \E p \in Procs : pc[p] \in {"hset", "expire"} /\ cur[p] = d
        \/ merging.pc = "expire" /\ merging.device = d

\* A failed fetch or record never wipes a device: a snapshot disappears only because
\* its key expired or because a rebuild is about to store the device again.
NoSilentWipe ==
    [][\A d \in Devices : snap[d] # Empty /\ snap'[d] = Empty =>
        \/ \E p \in Procs : pc'[p] = "hset" /\ cur'[p] = d /\ got'[p][d] # Empty
        \/ ttl[d] /\ UNCHANGED local]_vars

\* "No information is lost": live sync records only what differs from the snapshot,
\* which replays, events and expiries change as well. Once a cycle has stored a device,
\* the last recorded value of each key is the one observed, for the keys that no
\* webhook event carries and while the database answers.
Carried == UNION {DOMAIN e : e \in Events}

ObservedIsRecorded ==
    faults = 0 =>
    \A p \in Syncs : pc[p] = "expire" =>
        \A f \in DOMAIN got[p][cur[p]] \ Carried :
            f \in DOMAIN last[cur[p]] /\ last[cur[p]][f] = got[p][cur[p]][f]

\* However the rebuilds interleave and fail, the snapshot of every device catches up
\* with ThingsBoard again and again.
CatchesUp == []<>(\A d \in Devices : \A f \in DOMAIN tb[d] :
                    f \in DOMAIN snap[d] /\ snap[d][f] = tb[d][f])
============================================================================
