--------------------------- MODULE EventPipeline ---------------------------
(***************************************************************************)
(* The ingestion path of one tenant: webhook, RabbitMQ topology, consumer  *)
(* workers, the device_event and device_telemetry tables, the idempotency  *)
(* keys and the per-event fold into the Redis fleet snapshot.              *)
(*                                                                         *)
(* A report is one webhook request, named by its serial number in `sent`.  *)
(* Every await of process_event is a step of its own, so that workers      *)
(* interleave and crash between any two of them.                           *)
(***************************************************************************)
EXTENDS Naturals, Sequences

CONSTANTS
    Devices, Customers, Fields, Values,
    None,            \* an absent id, timestamp or customer, and a JSON null
    Ids,             \* the message ids ThingsBoard may put in a payload
    Times,           \* the timestamps a payload may carry
    Bodies,          \* the payloads that pass the webhook's checks
    Keys,            \* the routing keys
    RoutingKey,      \* customer (or None) -> routing key, not injective
    Wildcard,        \* the binding "customer.#"
    Queues, Binding, \* queue -> routing key or Wildcard
    Workers, QueueOf,\* worker -> the queue it consumes
    Prefetch,        \* channel.set_qos(prefetch_count)
    Fallback,        \* settings.webhook_direct_write_fallback
    MaxReports,      \* bound: webhook requests
    MaxFaults,       \* bound: failures and crashes
    MaxImports       \* bound: hierarchy changes

State == UNION {[S -> Values \cup {None}] : S \in SUBSET Fields}

Body == [id : Ids \cup {None}, ts : Times \cup {None}, device : Devices,
         customer : Customers \cup {None}, data : State, top : State]

ASSUME ParameterAssumption ==
    /\ Bodies \subseteq Body
    /\ None \notin Customers
    /\ Times \subseteq Nat
    /\ RoutingKey \in [Customers \cup {None} -> Keys]
    /\ Binding \in [Queues -> Keys \cup {Wildcard}]
    /\ QueueOf \in [Workers -> Queues]
    /\ Fallback \in BOOLEAN
    /\ Prefetch \in Nat /\ MaxReports \in Nat /\ MaxFaults \in Nat
    /\ MaxImports \in Nat

\* declare_topology binds the catch-all queue whoever starts first.
ASSUME CatchAllAssumption == \E q \in Queues : Binding[q] = Wildcard

\* A ThingsBoard message id names one message; a digest of a body is no such id.
ASSUME IdAssumption ==
    /\ \A a, b \in Bodies : a.id # None /\ a.id = b.id => a = b
    /\ Ids \cap Bodies = {}

VARIABLES
    now,       \* what the next datetime.now(UTC) returns
    sent,      \* the reports posted so far
    accepted,  \* the reports the webhook answered with 202
    direct,    \* fallback writes under way: [report, time]
    queue,     \* queue -> reports waiting in it
    inbox,     \* worker -> reports delivered to it and not acknowledged
    job,       \* worker -> where process_event stands on the first of its inbox
    dead,      \* reports in the dead-letter queue
    rows,      \* device_event: [id, time, report]
    history,   \* device_telemetry: [device, key, time, value]
    seen,      \* idempotency keys in Redis
    snap,      \* fleet snapshot: customer -> device -> fields
    tree,      \* customer hierarchies: <<customer, device>> -> presence as a leaf
    known,     \* worker -> <<customer, device>> -> cached answer
    faults,    \* failures so far
    imports    \* hierarchy changes so far

broker == <<queue, inbox, dead>>
store  == <<rows, history>>
cache  == <<seen, snap>>
forest == <<tree, imports>>
vars   == <<now, sent, accepted, direct, broker, job, store, cache, forest, known, faults>>

Reports == 1 .. Len(sent)
Pairs   == Customers \X Devices

\* EventParse.from_payload: the payload's own id, or a digest of the body that
\* does not contain the arrival time; the payload's own time, or the clock.
EventId(b)  == IF b.id # None THEN b.id ELSE b
StampWithoutClock(b) == b.ts                                   \* mutant
Stamp(b)    == IF b.ts # None THEN b.ts ELSE now
IdOf(n)     == EventId(sent[n])

\* fold_payload: containers first, then top-level keys over them.
Overlay(s, t) == [f \in DOMAIN s \cup DOMAIN t |-> IF f \in DOMAIN t THEN t[f] ELSE s[f]]
Fold(b)       == Overlay(b.data, b.top)

\* INSERT ... ON CONFLICT DO NOTHING on (event_id, time).
Insert(n, time) ==
    rows' = IF \E r \in rows : r.id = IdOf(n) /\ r.time = time
              THEN rows
              ELSE rows \cup {[id |-> IdOf(n), time |-> time, report |-> n]}

Idle == [pc |-> "idle", time |-> 0, aborted |-> FALSE]
Down == [pc |-> "down", time |-> 0, aborted |-> FALSE]
Pcs  == {"down", "idle", "event", "telemetry", "lookup", "merge", "mark", "ack"}

InboxSet(w)  == {inbox[w][i] : i \in 1 .. Len(inbox[w])}
Current(w)   == Head(inbox[w])
At(w, label) == job[w].pc = label /\ inbox[w] # <<>>
GoTo(w, label) == job' = [job EXCEPT ![w].pc = label]
Fault == faults < MaxFaults /\ faults' = faults + 1

Init ==
    /\ now = 1
    /\ sent = <<>> /\ accepted = {} /\ direct = {}
    /\ queue = [q \in Queues |-> {}]
    /\ inbox = [w \in Workers |-> <<>>]
    /\ job = [w \in Workers |-> Idle]
    /\ dead = {} /\ rows = {} /\ history = {} /\ seen = {}
    /\ snap = [c \in Customers |-> [d \in Devices |-> [f \in {} |-> None]]]
    /\ tree \in [Pairs -> {"absent", "present"}]
    /\ known = [w \in Workers |-> [p \in Pairs |-> "unknown"]]
    /\ faults = 0 /\ imports = 0

----------------------------------------------------------------------------
(* The webhook. *)

\* The topic exchange copies a message to every queue whose binding matches.
Matches(q, b) == Binding[q] \in {Wildcard, RoutingKey[b.customer]}
Enqueue(n, b) ==
    queue' = [q \in Queues |-> IF Matches(q, b) THEN queue[q] \cup {n} ELSE queue[q]]

\* Published and confirmed: the webhook answers {"queued": true}.
Publish(n, b) == /\ Enqueue(n, b)
                 /\ accepted' = accepted \cup {n}
                 /\ UNCHANGED <<direct, faults>>

\* publish raised. The broker may have taken the message all the same. Without
\* the fallback the request ends in a 503.
PublishFails(n, b) ==
    /\ Fault
    /\ Enqueue(n, b) \/ UNCHANGED queue
    /\ direct' = IF Fallback THEN direct \cup {[report |-> n, time |-> Stamp(b)]} ELSE direct
    /\ UNCHANGED accepted

Post(b) ==
    /\ Len(sent) < MaxReports
    /\ sent' = Append(sent, b)
    /\ now' = now + 1
    /\ Publish(Len(sent) + 1, b) \/ PublishFails(Len(sent) + 1, b)
    /\ UNCHANGED <<inbox, job, dead, store, cache, forest, known>>

\* The synchronous write of the fallback: the event row and nothing else.
DirectWrite(x) ==
    /\ Insert(x.report, x.time)
    /\ accepted' = accepted \cup {x.report}
    /\ direct' = direct \ {x}
    /\ UNCHANGED <<now, sent, broker, job, history, cache, forest, known, faults>>

\* The database refuses, or the process dies, before the fallback committed.
DirectFails(x) ==
    /\ Fault
    /\ direct' = direct \ {x}
    /\ UNCHANGED <<now, sent, accepted, broker, job, store, cache, forest, known>>

----------------------------------------------------------------------------
(* A consumer worker. *)

\* The broker pushes the head of the queue while fewer than Prefetch messages
\* are unacknowledged; a returned message is at the head again.
Deliver(w) ==
    LET q == QueueOf[w] IN
    /\ job[w].pc # "down"
    /\ Len(inbox[w]) < Prefetch
    /\ \E n \in queue[q] :
        /\ \A m \in queue[q] : n <= m
        /\ inbox' = [inbox EXCEPT ![w] = Append(@, n)]
        /\ queue' = [queue EXCEPT ![q] = @ \ {n}]
    /\ UNCHANGED <<now, sent, accepted, direct, job, dead, store, cache, forest, known, faults>>

\* Mutant: the key is set on arrival, as a SETNX check would.
BeginMarkingSeen(w) ==
    /\ At(w, "idle")
    /\ now' = now + 1
    /\ seen' = seen \cup {IdOf(Current(w))}
    /\ job' = [job EXCEPT ![w] =
                 [pc |-> IF IdOf(Current(w)) \in seen THEN "ack" ELSE "event",
                  time |-> Stamp(sent[Current(w)]), aborted |-> FALSE]]
    /\ UNCHANGED <<sent, accepted, direct, broker, store, snap, forest, known, faults>>

\* The message is parsed and its idempotency key read; an unreadable key counts
\* as absent.
Begin(w) ==
    /\ At(w, "idle")
    /\ now' = now + 1
    /\ \E skip \in BOOLEAN :
        /\ skip => IdOf(Current(w)) \in seen
        /\ IF ~skip /\ IdOf(Current(w)) \in seen THEN Fault ELSE UNCHANGED faults
        /\ job' = [job EXCEPT ![w] = [pc      |-> IF skip THEN "ack" ELSE "event",
                                      time    |-> Stamp(sent[Current(w)]),
                                      aborted |-> FALSE]]
    /\ UNCHANGED <<sent, accepted, direct, broker, store, cache, forest, known>>

\* Mutant: a failed insert is logged and the consumer moves on.
WriteEventMovingOn(w) ==
    /\ At(w, "event")
    /\ \/ Insert(Current(w), job[w].time) /\ UNCHANGED faults
       \/ Fault /\ UNCHANGED rows
    /\ GoTo(w, "telemetry")
    /\ UNCHANGED <<now, sent, accepted, direct, broker, history, cache, forest, known>>

\* write_event inserts and commits.
WriteEvent(w) ==
    /\ At(w, "event")
    /\ Insert(Current(w), job[w].time)
    /\ GoTo(w, "telemetry")
    /\ UNCHANGED <<now, sent, accepted, direct, broker, history, cache, forest, known, faults>>

\* Mutant: observed_at is not passed on.
ObservationsAtNow(w) ==
    LET b == sent[Current(w)] IN
    {[device |-> b.device, key |-> f, time |-> now, value |-> b.data[f]] : f \in DOMAIN b.data}

\* write_telemetry: one row per non-null container field, unless that device and
\* key already have one at that time.
Observations(w) ==
    LET b == sent[Current(w)] IN
    {[device |-> b.device, key |-> f, time |-> job[w].time, value |-> b.data[f]] :
        f \in {g \in DOMAIN b.data : b.data[g] # None}}
Fresh(o) == ~ \E h \in history : h.device = o.device /\ h.key = o.key /\ h.time = o.time

InsertTelemetry(w) == history' = history \cup {o \in Observations(w) : Fresh(o)}

WriteTelemetry(w) ==
    /\ At(w, "telemetry")
    /\ InsertTelemetry(w)
    /\ GoTo(w, "lookup")
    /\ UNCHANGED <<now, sent, accepted, direct, broker, rows, cache, forest, known, faults>>

\* write_telemetry raises and the consumer goes on with the same session, whose
\* transaction may now be aborted. The commit may have been done all the same.
TelemetryFails(w) ==
    /\ At(w, "telemetry")
    /\ Observations(w) # {}
    /\ Fault
    /\ InsertTelemetry(w) \/ UNCHANGED history
    /\ \E a \in BOOLEAN :
        job' = [job EXCEPT ![w].pc = "lookup", ![w].aborted = a]
    /\ UNCHANGED <<now, sent, accepted, direct, broker, rows, cache, forest, known>>

Pair(w) == <<sent[Current(w)].customer, sent[Current(w)].device>>

\* _device_in_customer_hierarchy through the worker's own cache.
NoCustomer(w) ==
    /\ At(w, "lookup")
    /\ sent[Current(w)].customer = None
    /\ GoTo(w, "mark")
    /\ UNCHANGED <<now, sent, accepted, direct, broker, store, cache, forest, known, faults>>

LookupCached(w) ==
    /\ At(w, "lookup")
    /\ sent[Current(w)].customer # None
    /\ known[w][Pair(w)] # "unknown"
    /\ GoTo(w, IF known[w][Pair(w)] = "yes" THEN "merge" ELSE "mark")
    /\ UNCHANGED <<now, sent, accepted, direct, broker, store, cache, forest, known, faults>>

Queries(w) == /\ At(w, "lookup")
              /\ sent[Current(w)].customer # None
              /\ known[w][Pair(w)] = "unknown"

\* Mutant: the query does not filter on the customer.
LookupAnyCustomer(w) ==
    /\ Queries(w)
    /\ ~ job[w].aborted
    /\ known' = [known EXCEPT ![w][Pair(w)] = "yes"]
    /\ GoTo(w, "merge")
    /\ UNCHANGED <<now, sent, accepted, direct, broker, store, cache, forest, faults>>

LookupTree(w) ==
    /\ Queries(w)
    /\ ~ job[w].aborted
    /\ known' = [known EXCEPT ![w][Pair(w)] = IF tree[Pair(w)] = "present" THEN "yes" ELSE "no"]
    /\ GoTo(w, IF tree[Pair(w)] = "present" THEN "merge" ELSE "mark")
    /\ UNCHANGED <<now, sent, accepted, direct, broker, store, cache, forest, faults>>

\* Mutant: HSETNX.
HSetAbsentOnly(b) == snap' = [snap EXCEPT ![b.customer][b.device] = Overlay(Fold(b), @)]

\* merge_device_state: HSET of the folded fields.
HSet(b) == snap' = [snap EXCEPT ![b.customer][b.device] = Overlay(@, Fold(b))]

Merge(w) ==
    /\ At(w, "merge")
    /\ HSet(sent[Current(w)])
    /\ GoTo(w, "mark")
    /\ UNCHANGED <<now, sent, accepted, direct, broker, store, seen, forest, known, faults>>

\* mark_processed swallows a failure.
MarkSeen(w) ==
    /\ At(w, "mark")
    /\ \/ seen' = seen \cup {IdOf(Current(w))} /\ UNCHANGED faults
       \/ Fault /\ UNCHANGED seen
    /\ GoTo(w, "ack")
    /\ UNCHANGED <<now, sent, accepted, direct, broker, store, snap, forest, known>>

Ack(w) ==
    /\ At(w, "ack")
    /\ inbox' = [inbox EXCEPT ![w] = Tail(@)]
    /\ job' = [job EXCEPT ![w] = Idle]
    /\ UNCHANGED <<now, sent, accepted, direct, queue, dead, store, cache, forest, known, faults>>

\* What the broker does with the unacknowledged messages of a lost connection.
ReturnNothing(w, S) == UNCHANGED queue                         \* mutant: automatic acks
Return(w, S) == queue' = [queue EXCEPT ![QueueOf[w]] = @ \cup S]

Stop(w) == /\ inbox' = [inbox EXCEPT ![w] = <<>>]
           /\ job' = [job EXCEPT ![w] = Down]
           /\ known' = [known EXCEPT ![w] = [p \in Pairs |-> "unknown"]]

\* An exception leaves message.process(requeue=False): the message is rejected to
\* the dead-letter queue and the exception ends the worker. A failed write may have
\* been done; in an aborted transaction the hierarchy query fails for certain.
Raise(w) ==
    \/ /\ At(w, "event") /\ Fault
       /\ Insert(Current(w), job[w].time) \/ UNCHANGED rows
       /\ UNCHANGED snap
    \/ /\ Queries(w)
       /\ Fault \/ (job[w].aborted /\ UNCHANGED faults)
       /\ UNCHANGED <<rows, snap>>
    \/ /\ At(w, "merge") /\ Fault
       /\ HSet(sent[Current(w)]) \/ UNCHANGED snap
       /\ UNCHANGED rows

DiscardRejected(w) == UNCHANGED dead                           \* mutant: no dead-letter exchange
DeadLetter(w) == dead' = dead \cup {Current(w)}

Reject(w) ==
    /\ Raise(w)
    /\ DeadLetter(w)
    /\ Return(w, {inbox[w][i] : i \in 2 .. Len(inbox[w])})
    /\ Stop(w)
    /\ UNCHANGED <<now, sent, accepted, direct, history, seen, forest>>

\* The process or its connection dies between two steps.
Crash(w) ==
    /\ job[w].pc # "down"
    /\ Fault
    /\ Return(w, InboxSet(w))
    /\ Stop(w)
    /\ UNCHANGED <<now, sent, accepted, direct, dead, store, cache, forest>>

\* restart: always
Restart(w) ==
    /\ job[w].pc = "down"
    /\ job' = [job EXCEPT ![w] = Idle]
    /\ UNCHANGED <<now, sent, accepted, direct, broker, store, cache, forest, known, faults>>

----------------------------------------------------------------------------
(* Redis, the cache clock and the hierarchy. *)

\* 24 hours pass, or Redis evicts the key.
ForgetSeen(id) ==
    /\ id \in seen
    /\ seen' = seen \ {id}
    /\ UNCHANGED <<now, sent, accepted, direct, broker, job, store, snap, forest, known, faults>>

\* 60 seconds pass for an entry of _known_cache.
ForgetKnown(w, p) ==
    /\ known[w][p] # "unknown"
    /\ known' = [known EXCEPT ![w][p] = "unknown"]
    /\ UNCHANGED <<now, sent, accepted, direct, broker, job, store, cache, forest, faults>>

\* A hierarchy import adds the device, or points its leaf at another device.
Import(p) ==
    /\ imports < MaxImports
    /\ imports' = imports + 1
    /\ tree' = [tree EXCEPT ![p] = IF @ = "present" THEN "removed" ELSE "present"]
    /\ UNCHANGED <<now, sent, accepted, direct, broker, job, store, cache, known, faults>>

Work(w) ==
    \/ Deliver(w) \/ Begin(w) \/ WriteEvent(w) \/ WriteTelemetry(w) \/ TelemetryFails(w)
    \/ NoCustomer(w) \/ LookupCached(w) \/ LookupTree(w) \/ Merge(w) \/ MarkSeen(w) \/ Ack(w)

Next ==
    \/ \E b \in Bodies : Post(b)
    \/ \E x \in direct : DirectWrite(x) \/ DirectFails(x)
    \/ \E w \in Workers : Work(w) \/ Reject(w) \/ Crash(w) \/ Restart(w)
    \/ \E id \in seen : ForgetSeen(id)
    \/ \E w \in Workers, p \in Pairs : ForgetKnown(w, p)
    \/ \E p \in Pairs : Import(p)

Spec == Init /\ [][Next]_vars

\* A worker's loop goes on while it has work, docker restarts a worker that
\* stopped, and a fallback write that began ends.
Fairness ==
    /\ \A w \in Workers : WF_vars(Work(w) \/ Reject(w)) /\ WF_vars(Restart(w))
    /\ WF_vars(\E x \in direct : DirectWrite(x) \/ DirectFails(x))

FairSpec == Spec /\ Fairness

----------------------------------------------------------------------------
(* Properties. *)

TypeOK ==
    /\ now \in Nat
    /\ sent \in Seq(Bodies) /\ Len(sent) <= MaxReports
    /\ accepted \subseteq Reports
    /\ direct \subseteq [report : Reports, time : Nat]
    /\ queue \in [Queues -> SUBSET Reports]
    /\ inbox \in [Workers -> Seq(Reports)]
    /\ job \in [Workers -> [pc : Pcs, time : Nat, aborted : BOOLEAN]]
    /\ dead \subseteq Reports
    /\ rows \subseteq [id : Ids \cup Bodies, time : Nat, report : Reports]
    /\ history \subseteq [device : Devices, key : Fields, time : Nat, value : Values \cup {None}]
    /\ seen \subseteq Ids \cup Bodies
    /\ snap \in [Customers -> [Devices -> State]]
    /\ tree \in [Pairs -> {"absent", "present", "removed"}]
    /\ known \in [Workers -> [Pairs -> {"unknown", "yes", "no"}]]
    /\ faults \in 0 .. MaxFaults /\ imports \in 0 .. MaxImports

Stored(n)   == \E r \in rows : r.id = IdOf(n)
Settled(n)  == Stored(n) \/ n \in dead
InBroker(n) == \/ \E q \in Queues : n \in queue[q]
               \/ \E w \in Workers : n \in InboxSet(w)

\* A report the webhook answered with 202 is never lost: until its event is in
\* device_event or its message in the dead-letter queue, the broker still holds
\* the message, whatever fails or crashes.
NoReportLost == \A n \in accepted : Settled(n) \/ InBroker(n)

\* An idempotency key stands for an event row: a redelivery that is skipped as a
\* duplicate was stored before.
SeenIsStored == \A id \in seen : \E r \in rows : r.id = id

\* What the two rest on: a worker past the "event" step holds a message whose event
\* is stored, and every row carries its own report's id.
BusyHasMessage == \A w \in Workers : job[w].pc \notin {"idle", "down"} => inbox[w] # <<>>
StoredFirst    == \A w \in Workers : job[w].pc \in {"telemetry", "lookup", "merge", "mark", "ack"}
                                        => Stored(Current(w))
RowsNameReports == \A r \in rows : r.id = IdOf(r.report)

Accounting == /\ BusyHasMessage /\ StoredFirst /\ RowsNameReports
              /\ SeenIsStored /\ NoReportLost

\* Every field of the fleet snapshot can be explained by an event row of that
\* customer and device, so a replay of the table could rebuild it.
SnapshotIsExplained ==
    \A c \in Customers, d \in Devices : \A f \in DOMAIN snap[c][d] :
        \E r \in rows : LET b == sent[r.report] IN
            /\ b.customer = c /\ b.device = d
            /\ f \in DOMAIN Fold(b) /\ Fold(b)[f] = snap[c][d][f]

\* An event touches a customer's snapshot only if its device is, or was until an
\* import moved it, in that customer's own hierarchy.
NoForeignFold ==
    \A p \in Pairs : tree[p] = "absent" => DOMAIN snap[p[1]][p[2]] = {}

\* Every telemetry row repeats a container field of an event row of the same
\* device and the same time.
HistoryIsBacked ==
    \A h \in history : \E r \in rows : LET b == sent[r.report] IN
        /\ r.time = h.time /\ b.device = h.device
        /\ h.key \in DOMAIN b.data /\ b.data[h.key] = h.value

\* "Redis stays the LIVE source of truth for chat, per event": without failures or
\* hierarchy changes and with one worker, once the broker is drained the snapshot
\* holds the newest report's value of every field.
Drained == /\ direct = {} /\ faults = 0 /\ imports = 0
           /\ \A n \in Reports : ~ InBroker(n)

Carriers(p, f) == {n \in Reports : /\ <<sent[n].customer, sent[n].device>> = p
                                   /\ f \in DOMAIN Fold(sent[n])}
Newest(S) == CHOOSE n \in S : \A m \in S : m <= n

SnapshotIsNewest ==
    \A p \in Pairs, f \in Fields :
        tree[p] = "present" /\ Carriers(p, f) # {}
            => LET fields == snap[p[1]][p[2]] IN
               f \in DOMAIN fields /\ fields[f] = Fold(sent[Newest(Carriers(p, f))])[f]

\* No two reports of the run are the same event.
DistinctEvents == \A m, n \in Reports : IdOf(m) = IdOf(n) => m = n

\* Once the broker is drained, a snapshot built by one worker holds the newest report's
\* value of every field, if no report repeats the event of an earlier one.
NewestDistinctReportWins == Drained /\ DistinctEvents => SnapshotIsNewest

\* "Losing history must not cost the event row or the cache fold": a message is
\* rejected only by a failure of the step that rejects it, never by an earlier
\* failure of write_telemetry that the consumer swallowed.
HistoryLossCostsNothingElse == [][dead' # dead => faults' = faults + 1]_vars

\* The abstract ledger: reports are accepted, later settled, and never forgotten.
Ledger == INSTANCE EventLedger WITH settled <- {n \in accepted : Settled(n)}

\* The pipeline implements the ledger: the webhook's 202 is a promise kept by
\* device_event or the dead-letter queue, never withdrawn, and kept in the end.
ImplementsLedger == Ledger!LedgerSpec
============================================================================
