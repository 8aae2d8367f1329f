----------------------- MODULE EventPipeline_proofs -----------------------
(***************************************************************************)
(* What holds of ingestion for any topology, number of workers and         *)
(* failures: nothing accepted is lost, the snapshot and the history repeat *)
(* rows of the event table, no event reaches a customer whose hierarchy    *)
(* never had its device, and every step is one of the abstract ledger.     *)
(***************************************************************************)
EXTENDS EventPipeline, DataInduction

\* Overlaying two partial device states gives a partial device state.
LEMMA OverlayType ==
    ASSUME NEW s \in State, NEW t \in State
    PROVE  Overlay(s, t) \in State
  <1>1. PICK A \in SUBSET Fields : s \in [A -> Values \cup {None}]
    BY DEF State
  <1>2. PICK B \in SUBSET Fields : t \in [B -> Values \cup {None}]
    BY DEF State
  <1>3. DOMAIN s = A /\ DOMAIN t = B
    BY <1>1, <1>2
  <1>4. Overlay(s, t) \in [A \cup B -> Values \cup {None}]
    BY <1>1, <1>2, <1>3 DEF Overlay
  <1>5. A \cup B \in SUBSET Fields
    OBVIOUS
  <1>6. [A \cup B -> Values \cup {None}] \in {[S -> Values \cup {None}] : S \in SUBSET Fields}
    BY <1>5
  <1> QED BY <1>4, <1>6 DEF State

\* What an event folds into the snapshot is a partial device state.
LEMMA FoldType ==
    ASSUME NEW b \in Bodies
    PROVE  Fold(b) \in State
  BY OverlayType, ParameterAssumption DEF Fold, Body

\* The id of an event is an id of ThingsBoard's or a digest.
LEMMA EventIdType ==
    ASSUME NEW b \in Bodies
    PROVE  EventId(b) \in Ids \cup Bodies
  BY ParameterAssumption DEF EventId, Body

\* Reports with one event id have one body.
LEMMA SameIdSameBody ==
    ASSUME NEW a \in Bodies, NEW b \in Bodies, EventId(a) = EventId(b)
    PROVE  a = b
  <1>1. CASE a.id # None /\ b.id # None
    BY <1>1, IdAssumption DEF EventId
  <1>2. CASE a.id # None /\ b.id = None
    <2>1. a.id \in Ids /\ a.id = b
      BY <1>2, ParameterAssumption DEF EventId, Body
    <2> QED BY <2>1, IdAssumption
  <1>3. CASE a.id = None /\ b.id # None
    <2>1. b.id \in Ids /\ b.id = a
      BY <1>3, ParameterAssumption DEF EventId, Body
    <2> QED BY <2>1, IdAssumption
  <1>4. CASE a.id = None /\ b.id = None
    BY <1>4 DEF EventId
  <1> QED BY <1>1, <1>2, <1>3, <1>4

----------------------------------------------------------------------------

\* The unacknowledged message a worker handles is a report.
LEMMA CurrentType ==
    ASSUME TypeOK, NEW w \in Workers, inbox[w] # <<>>
    PROVE  /\ Current(w) \in Reports /\ sent[Current(w)] \in Bodies
           /\ Tail(inbox[w]) \in Seq(Reports)
           /\ Len(inbox[w]) \in Nat /\ Len(inbox[w]) > 0
           /\ Current(w) = inbox[w][1]
  <1>1. inbox[w] \in Seq(Reports)
    BY DEF TypeOK
  <1>2. Len(inbox[w]) \in Nat /\ Len(inbox[w]) > 0 /\ inbox[w][1] \in Reports
    BY <1>1
  <1>3. Tail(inbox[w]) \in Seq(Reports) /\ Current(w) = inbox[w][1]
    BY <1>1 DEF Current
  <1>4. sent \in Seq(Bodies)
    BY DEF TypeOK
  <1>5. sent[inbox[w][1]] \in Bodies
    BY <1>2, <1>4 DEF Reports
  <1> QED BY <1>2, <1>3, <1>5

----------------------------------------------------------------------------

\* A sequence over a set is one over any larger set.
LEMMA SeqMonotone ==
    ASSUME NEW S, NEW T, S \subseteq T, NEW s \in Seq(S)
    PROVE  s \in Seq(T)
  OBVIOUS

\* The initial state is well typed.
LEMMA InitType == Init => TypeOK
  <1> SUFFICES ASSUME Init PROVE TypeOK
    OBVIOUS
  <1>1. [f \in {} |-> None] \in State
    <2>1. [f \in {} |-> None] \in [{} -> Values \cup {None}]
      OBVIOUS
    <2> QED BY <2>1 DEF State
  <1>2. snap \in [Customers -> [Devices -> State]]
    BY <1>1 DEF Init
  <1> QED
    BY <1>2, ParameterAssumption DEF Init, TypeOK, Idle, Pcs, Reports

\* Posting a report adds its serial number to the reports and leaves every other
\* number in its place.
LEMMA PostType ==
    ASSUME TypeOK, NEW b \in Bodies, Post(b)
    PROVE  TypeOK'
  <1> DEFINE n == Len(sent) + 1
  <1>1. /\ sent \in Seq(Bodies) /\ Len(sent) \in Nat /\ now \in Nat
        /\ sent' = Append(sent, b) /\ now' = now + 1 /\ Len(sent) < MaxReports
    BY DEF Post, TypeOK
  <1>2. /\ sent' \in Seq(Bodies) /\ Len(sent') = n /\ n <= MaxReports
        /\ Reports \subseteq Reports' /\ n \in Reports'
    BY <1>1, ParameterAssumption DEF Reports
  <1>3. Stamp(b) \in Nat
    BY <1>1, ParameterAssumption DEF Stamp, Body
  <1>4. accepted' \subseteq Reports'
    BY <1>2 DEF TypeOK, Post, Publish, PublishFails
  <1>5. direct' \subseteq [report : Reports', time : Nat]
    BY <1>2, <1>3 DEF TypeOK, Post, Publish, PublishFails
  <1>6. queue' \in [Queues -> SUBSET Reports']
    BY SMTT(20), <1>2 DEF TypeOK, Post, Publish, PublishFails, Enqueue
  <1>7. inbox' \in [Workers -> Seq(Reports')]
    <2>1. inbox' = inbox /\ inbox \in [Workers -> Seq(Reports)]
      BY DEF Post, TypeOK
    <2>2. \A w \in Workers : inbox[w] \in Seq(Reports')
      BY <2>1, <1>2, SeqMonotone
    <2> QED BY <2>1, <2>2
  <1>8. rows' \subseteq [id : Ids \cup Bodies, time : Nat, report : Reports']
    BY <1>2 DEF TypeOK, Post, store
  <1>9. faults' \in 0 .. MaxFaults
    BY ParameterAssumption DEF TypeOK, Post, Publish, PublishFails, Fault
  <1>10. dead' \subseteq Reports'
    BY <1>2 DEF TypeOK, Post
  <1>11. UNCHANGED <<job, history, seen, snap, tree, known, imports>>
    BY DEF Post, store, cache, forest
  <1>12. now' \in Nat
    BY <1>1
  <1> QED
    BY <1>2, <1>4, <1>5, <1>6, <1>7, <1>8, <1>9, <1>10, <1>11, <1>12 DEF TypeOK

\* The steps of the fallback write keep the state well typed.
LEMMA DirectType ==
    ASSUME TypeOK, NEW x \in direct, DirectWrite(x) \/ DirectFails(x)
    PROVE  TypeOK'
  <1>1. UNCHANGED <<now, sent, broker, job, history, cache, forest, known>>
    BY DEF DirectWrite, DirectFails, store
  <1>2. Reports' = Reports
    BY <1>1 DEF Reports
  <1>3. x.report \in Reports /\ x.time \in Nat /\ sent \in Seq(Bodies)
    BY DEF TypeOK
  <1>4. sent[x.report] \in Bodies
    BY <1>3 DEF Reports
  <1>5. IdOf(x.report) \in Ids \cup Bodies
    BY <1>4, EventIdType DEF IdOf
  <1>6. rows' \subseteq [id : Ids \cup Bodies, time : Nat, report : Reports]
    BY <1>3, <1>5 DEF TypeOK, DirectWrite, DirectFails, Insert, store
  <1>7. accepted' \subseteq Reports /\ direct' \subseteq [report : Reports, time : Nat]
    BY <1>3 DEF TypeOK, DirectWrite, DirectFails
  <1>8. faults' \in 0 .. MaxFaults
    BY ParameterAssumption DEF TypeOK, DirectWrite, DirectFails, Fault
  <1> QED
    BY <1>1, <1>2, <1>6, <1>7, <1>8 DEF TypeOK, broker, cache, forest

\* Insert keeps the event table well typed.
LEMMA InsertType ==
    ASSUME TypeOK, NEW n \in Reports, NEW t \in Nat, Insert(n, t)
    PROVE  rows' \subseteq [id : Ids \cup Bodies, time : Nat, report : Reports]
  <1>1. sent \in Seq(Bodies)
    BY DEF TypeOK
  <1>2. sent[n] \in Bodies
    BY <1>1 DEF Reports
  <1>3. IdOf(n) \in Ids \cup Bodies
    BY <1>2, EventIdType DEF IdOf
  <1> QED BY <1>3 DEF TypeOK, Insert

\* Moving a worker's program counter keeps its job well typed.
LEMMA GoToType ==
    ASSUME TypeOK, NEW w \in Workers, NEW label \in Pcs, GoTo(w, label)
    PROVE  job' \in [Workers -> [pc : Pcs, time : Nat, aborted : BOOLEAN]]
  <1>1. job[w] \in [pc : Pcs, time : Nat, aborted : BOOLEAN]
    BY DEF TypeOK
  <1>2. [job[w] EXCEPT !.pc = label] \in [pc : Pcs, time : Nat, aborted : BOOLEAN]
    BY <1>1
  <1>3. job' = [job EXCEPT ![w] = [job[w] EXCEPT !.pc = label]]
    BY DEF GoTo
  <1> QED BY <1>2, <1>3 DEF TypeOK

\* The hash of one device stays a partial state.
LEMMA HSetType ==
    ASSUME TypeOK, NEW b \in Bodies, HSet(b)
    PROVE  snap' \in [Customers -> [Devices -> State]]
  <1>1. Fold(b) \in State
    BY FoldType
  <1>2. SUFFICES ASSUME NEW c \in Customers, NEW d \in Devices
                 PROVE  snap'[c][d] \in State
    <2>1. snap \in [Customers -> [Devices -> State]]
      BY DEF TypeOK
    <2>2. /\ snap' = [c \in Customers |-> snap'[c]]
          /\ \A c \in Customers : snap'[c] = [d \in Devices |-> snap'[c][d]]
      BY <2>1 DEF HSet
    <2> QED BY <1>2, <2>2
  <1>3. snap \in [Customers -> [Devices -> State]]
    BY DEF TypeOK
  <1>4. snap[c][d] \in State /\ Overlay(snap[c][d], Fold(b)) \in State
    BY <1>1, <1>3, OverlayType
  <1>5. snap'[c][d] \in {snap[c][d], Overlay(snap[c][d], Fold(b))}
    BY <1>3 DEF HSet
  <1> QED BY <1>4, <1>5

\* The steps a worker takes with its message keep the state well typed.
LEMMA WorkType ==
    ASSUME TypeOK, NEW w \in Workers, Work(w)
    PROVE  TypeOK'
  <1>1. sent' = sent /\ Reports' = Reports
    BY DEF Work, Deliver, Begin, WriteEvent, WriteTelemetry, TelemetryFails, NoCustomer,
           LookupCached, LookupTree, Merge, MarkSeen, Ack, Reports
  <1>2. CASE Deliver(w)
    <2>1. PICK n \in queue[QueueOf[w]] :
            /\ inbox' = [inbox EXCEPT ![w] = Append(@, n)]
            /\ queue' = [queue EXCEPT ![QueueOf[w]] = @ \ {n}]
      BY <1>2 DEF Deliver
    <2>2. QueueOf[w] \in Queues
      BY ParameterAssumption
    <2>3. n \in Reports /\ inbox[w] \in Seq(Reports)
      BY <2>2 DEF TypeOK
    <2>4. Append(inbox[w], n) \in Seq(Reports)
      BY <2>3
    <2>5. inbox' \in [Workers -> Seq(Reports)]
      BY <2>1, <2>4 DEF TypeOK
    <2>6. queue' \in [Queues -> SUBSET Reports]
      BY <2>1, <2>2 DEF TypeOK
    <2> QED BY <1>1, <1>2, <2>5, <2>6 DEF TypeOK, Deliver, store, cache, forest
  <1>3. CASE Begin(w)
    <2>1. Stamp(sent[Current(w)]) \in Nat
      BY SMTT(20), <1>3, CurrentType, ParameterAssumption DEF Begin, At, Stamp, Body, TypeOK
    <2>2. job' \in [Workers -> [pc : Pcs, time : Nat, aborted : BOOLEAN]]
      BY <1>3, <2>1 DEF Begin, TypeOK, Pcs
    <2>3. faults' \in 0 .. MaxFaults
      BY <1>3, ParameterAssumption DEF Begin, Fault, TypeOK
    <2>4. now' \in Nat
      BY <1>3 DEF Begin, TypeOK
    <2> QED BY <1>1, <1>3, <2>2, <2>3, <2>4 DEF TypeOK, Begin, broker, store, cache, forest
  <1>4. CASE WriteEvent(w)
    <2>1. Current(w) \in Reports /\ job[w].time \in Nat
      BY <1>4, CurrentType DEF WriteEvent, At, TypeOK
    <2>2. rows' \subseteq [id : Ids \cup Bodies, time : Nat, report : Reports]
      BY <1>4, <2>1, InsertType DEF WriteEvent
    <2>3. job' \in [Workers -> [pc : Pcs, time : Nat, aborted : BOOLEAN]]
      BY <1>4, GoToType DEF WriteEvent, Pcs
    <2> QED BY <1>1, <1>4, <2>2, <2>3 DEF TypeOK, WriteEvent, broker, cache, forest
  <1>5. CASE WriteTelemetry(w) \/ TelemetryFails(w)
    <2>1. sent[Current(w)] \in Bodies /\ job[w].time \in Nat
      BY <1>5, CurrentType DEF WriteTelemetry, TelemetryFails, At, TypeOK
    <2>2. Observations(w) \subseteq
            [device : Devices, key : Fields, time : Nat, value : Values \cup {None}]
      BY <2>1, ParameterAssumption DEF Observations, Body, State
    <2>3. history' \subseteq
            [device : Devices, key : Fields, time : Nat, value : Values \cup {None}]
      BY <1>5, <2>2 DEF WriteTelemetry, TelemetryFails, InsertTelemetry, TypeOK
    <2>4. job' \in [Workers -> [pc : Pcs, time : Nat, aborted : BOOLEAN]]
      <3>1. CASE WriteTelemetry(w)
        BY <3>1, GoToType DEF WriteTelemetry, Pcs
      <3>2. CASE TelemetryFails(w)
        <4>1. PICK a \in BOOLEAN : job' = [job EXCEPT ![w].pc = "lookup", ![w].aborted = a]
          BY <3>2 DEF TelemetryFails
        <4>2. job[w] \in [pc : Pcs, time : Nat, aborted : BOOLEAN]
          BY DEF TypeOK
        <4>3. [job[w] EXCEPT !.pc = "lookup", !.aborted = a]
                \in [pc : Pcs, time : Nat, aborted : BOOLEAN]
          BY <4>2 DEF Pcs
        <4>4. job' = [job EXCEPT ![w] = [job[w] EXCEPT !.pc = "lookup", !.aborted = a]]
          BY <4>1 DEF TypeOK
        <4> QED BY <4>3, <4>4 DEF TypeOK
      <3> QED BY <1>5, <3>1, <3>2
    <2>5. faults' \in 0 .. MaxFaults
      BY <1>5, ParameterAssumption DEF WriteTelemetry, TelemetryFails, Fault, TypeOK
    <2> QED BY <1>1, <1>5, <2>3, <2>4, <2>5
            DEF TypeOK, WriteTelemetry, TelemetryFails, broker, cache, forest
  <1>6. CASE NoCustomer(w) \/ LookupCached(w)
    <2>1. job' \in [Workers -> [pc : Pcs, time : Nat, aborted : BOOLEAN]]
      BY <1>6, GoToType DEF NoCustomer, LookupCached, Pcs
    <2> QED BY <1>1, <1>6, <2>1 DEF TypeOK, NoCustomer, LookupCached, broker, store, cache, forest
  <1>7. CASE LookupTree(w)
    <2>1. job' \in [Workers -> [pc : Pcs, time : Nat, aborted : BOOLEAN]]
      BY <1>7, GoToType DEF LookupTree, Pcs
    <2>2. known' \in [Workers -> [Pairs -> {"unknown", "yes", "no"}]]
      BY <1>7 DEF LookupTree, TypeOK
    <2> QED BY <1>1, <1>7, <2>1, <2>2 DEF TypeOK, LookupTree, broker, store, cache, forest
  <1>8. CASE Merge(w)
    <2>1. sent[Current(w)] \in Bodies
      BY <1>8, CurrentType DEF Merge, At
    <2>2. snap' \in [Customers -> [Devices -> State]]
      BY <1>8, <2>1, HSetType DEF Merge
    <2>3. job' \in [Workers -> [pc : Pcs, time : Nat, aborted : BOOLEAN]]
      BY <1>8, GoToType DEF Merge, Pcs
    <2> QED BY <1>1, <1>8, <2>2, <2>3 DEF TypeOK, Merge, broker, store, forest
  <1>9. CASE MarkSeen(w)
    <2>1. IdOf(Current(w)) \in Ids \cup Bodies
      BY <1>9, CurrentType, EventIdType DEF MarkSeen, At, IdOf
    <2>2. seen' \subseteq Ids \cup Bodies /\ faults' \in 0 .. MaxFaults
      BY <1>9, <2>1, ParameterAssumption DEF MarkSeen, Fault, TypeOK
    <2>3. job' \in [Workers -> [pc : Pcs, time : Nat, aborted : BOOLEAN]]
      BY <1>9, GoToType DEF MarkSeen, Pcs
    <2> QED BY <1>1, <1>9, <2>2, <2>3 DEF TypeOK, MarkSeen, broker, store, forest
  <1>10. CASE Ack(w)
    <2>1. Tail(inbox[w]) \in Seq(Reports)
      BY <1>10, CurrentType DEF Ack, At
    <2>2. inbox' \in [Workers -> Seq(Reports)]
      BY <1>10, <2>1 DEF Ack, TypeOK
    <2>3. job' \in [Workers -> [pc : Pcs, time : Nat, aborted : BOOLEAN]]
      BY <1>10 DEF Ack, Idle, TypeOK, Pcs
    <2> QED BY <1>1, <1>10, <2>2, <2>3 DEF TypeOK, Ack, store, cache, forest
  <1> QED BY <1>2, <1>3, <1>4, <1>5, <1>6, <1>7, <1>8, <1>9, <1>10 DEF Work

\* Losing a worker, by rejection or by a crash, keeps the state well typed.
LEMMA StopType ==
    ASSUME TypeOK, NEW w \in Workers, Reject(w) \/ Crash(w) \/ Restart(w)
    PROVE  TypeOK'
  <1>1. sent' = sent /\ Reports' = Reports
    BY DEF Reject, Crash, Restart, Reports
  <1>2. QueueOf[w] \in Queues /\ inbox[w] \in Seq(Reports) /\ Len(inbox[w]) \in Nat
    BY ParameterAssumption DEF TypeOK
  <1>3. \A i \in 1 .. Len(inbox[w]) : inbox[w][i] \in Reports
    BY <1>2
  <1>4. /\ InboxSet(w) \subseteq Reports
        /\ {inbox[w][i] : i \in 2 .. Len(inbox[w])} \subseteq Reports
    BY <1>2, <1>3 DEF InboxSet
  <1>5. ASSUME Stop(w)
        PROVE  /\ inbox' \in [Workers -> Seq(Reports)]
               /\ job' \in [Workers -> [pc : Pcs, time : Nat, aborted : BOOLEAN]]
               /\ known' \in [Workers -> [Pairs -> {"unknown", "yes", "no"}]]
    <2>1. <<>> \in Seq(Reports)
      OBVIOUS
    <2>2. inbox' \in [Workers -> Seq(Reports)]
      BY <1>5, <2>1 DEF Stop, TypeOK
    <2>3. Down \in [pc : Pcs, time : Nat, aborted : BOOLEAN]
      BY DEF Down, Pcs
    <2>4. job' \in [Workers -> [pc : Pcs, time : Nat, aborted : BOOLEAN]]
      BY <1>5, <2>3 DEF Stop, TypeOK
    <2>5. [p \in Pairs |-> "unknown"] \in [Pairs -> {"unknown", "yes", "no"}]
      OBVIOUS
    <2>6. known' \in [Workers -> [Pairs -> {"unknown", "yes", "no"}]]
      BY <1>5, <2>5 DEF Stop, TypeOK
    <2> QED BY <2>2, <2>4, <2>6
  <1>6. ASSUME NEW S \in SUBSET Reports, Return(w, S)
        PROVE  queue' \in [Queues -> SUBSET Reports]
    BY <1>2, <1>6 DEF Return, TypeOK
  <1>7. CASE Reject(w)
    <2>1. PICK pc \in {"event", "lookup", "merge"} : At(w, pc)
      BY <1>7 DEF Reject, Raise, Queries
    <2>2. /\ Current(w) \in Reports /\ sent[Current(w)] \in Bodies
          /\ job[w].time \in Nat
      BY <2>1, CurrentType DEF At, TypeOK
    <2>3. dead' \subseteq Reports
      BY <1>7, <2>2 DEF Reject, DeadLetter, TypeOK
    <2>4. rows' \subseteq [id : Ids \cup Bodies, time : Nat, report : Reports]
      BY <1>7, <2>2, InsertType DEF Reject, Raise, TypeOK
    <2>5. snap' \in [Customers -> [Devices -> State]]
      BY <1>7, <2>2, HSetType DEF Reject, Raise, TypeOK
    <2>6. faults' \in 0 .. MaxFaults
      BY <1>7, ParameterAssumption DEF Reject, Raise, Fault, TypeOK
    <2>7. queue' \in [Queues -> SUBSET Reports]
      BY <1>4, <1>6, <1>7 DEF Reject
    <2> QED BY <1>1, <1>5, <1>7, <2>3, <2>4, <2>5, <2>6, <2>7 DEF TypeOK, Reject, forest
  <1>8. CASE Crash(w)
    <2>1. faults' \in 0 .. MaxFaults
      BY <1>8, ParameterAssumption DEF Crash, Fault, TypeOK
    <2>2. queue' \in [Queues -> SUBSET Reports]
      BY <1>4, <1>6, <1>8 DEF Crash
    <2> QED BY <1>1, <1>5, <1>8, <2>1, <2>2 DEF TypeOK, Crash, store, cache, forest
  <1>9. CASE Restart(w)
    <2>1. job' \in [Workers -> [pc : Pcs, time : Nat, aborted : BOOLEAN]]
      BY <1>9 DEF Restart, Idle, Pcs, TypeOK
    <2> QED BY <1>1, <1>9, <2>1 DEF TypeOK, Restart, broker, store, cache, forest
  <1> QED BY <1>7, <1>8, <1>9

\* Expiries and imports keep the state well typed.
LEMMA EnvironmentType ==
    ASSUME TypeOK,
           \/ \E id \in seen : ForgetSeen(id)
           \/ \E w \in Workers, p \in Pairs : ForgetKnown(w, p)
           \/ \E p \in Pairs : Import(p)
    PROVE  TypeOK'
  <1>1. sent' = sent /\ Reports' = Reports
    BY DEF ForgetSeen, ForgetKnown, Import, Reports
  <1>2. CASE \E id \in seen : ForgetSeen(id)
    BY <1>1, <1>2 DEF TypeOK, ForgetSeen, broker, store, forest
  <1>3. CASE \E w \in Workers, p \in Pairs : ForgetKnown(w, p)
    <2>1. PICK w \in Workers, p \in Pairs : ForgetKnown(w, p)
      BY <1>3
    <2>2. known' \in [Workers -> [Pairs -> {"unknown", "yes", "no"}]]
      BY <2>1 DEF TypeOK, ForgetKnown
    <2> QED BY <1>1, <2>1, <2>2 DEF TypeOK, ForgetKnown, broker, store, cache, forest
  <1>4. CASE \E p \in Pairs : Import(p)
    <2>1. PICK p \in Pairs : Import(p)
      BY <1>4
    <2>2. imports' \in 0 .. MaxImports
      BY <2>1, ParameterAssumption DEF TypeOK, Import
    <2>3. tree' \in [Pairs -> {"absent", "present", "removed"}]
      BY <2>1 DEF TypeOK, Import
    <2> QED BY <1>1, <2>1, <2>2, <2>3 DEF TypeOK, Import, broker, store, cache
  <1> QED BY <1>2, <1>3, <1>4

LEMMA NextType == TypeOK /\ [Next]_vars => TypeOK'
  <1> SUFFICES ASSUME TypeOK, [Next]_vars PROVE TypeOK'
    OBVIOUS
  <1>1. CASE UNCHANGED vars
    BY <1>1 DEF TypeOK, vars, broker, store, cache, forest, Reports
  <1>2. CASE Next
    BY <1>2, PostType, DirectType, WorkType, StopType, EnvironmentType DEF Next
  <1> QED BY <1>1, <1>2

\* Every variable keeps to its type: in particular every serial number the broker,
\* the tables and the workers hold is that of a report.
THEOREM TypeCorrect == Spec => []TypeOK
  BY InitType, NextType, PTL DEF Spec

----------------------------------------------------------------------------

\* What appending to a sequence and dropping its head do to the set of its elements.
LEMMA AppendElements ==
    ASSUME NEW S, NEW s \in Seq(S), NEW n \in S
    PROVE  {Append(s, n)[i] : i \in 1 .. Len(Append(s, n))} = {s[i] : i \in 1 .. Len(s)} \cup {n}
  <1>1. Len(s) \in Nat /\ Len(Append(s, n)) = Len(s) + 1
    OBVIOUS
  <1>2. /\ \A i \in 1 .. Len(s) : Append(s, n)[i] = s[i]
        /\ Append(s, n)[Len(s) + 1] = n
    OBVIOUS
  <1>3. 1 .. (Len(s) + 1) = 1 .. Len(s) \cup {Len(s) + 1}
    BY <1>1
  <1> QED BY <1>1, <1>2, <1>3

LEMMA TailElements ==
    ASSUME NEW S, NEW s \in Seq(S), s # <<>>
    PROVE  {s[i] : i \in 1 .. Len(s)} \subseteq {Tail(s)[i] : i \in 1 .. Len(Tail(s))} \cup {Head(s)}
  <1>1. Len(s) \in Nat /\ Len(s) > 0 /\ Len(Tail(s)) = Len(s) - 1 /\ Head(s) = s[1]
    OBVIOUS
  <1>2. \A i \in 1 .. Len(Tail(s)) : Tail(s)[i] = s[i + 1]
    OBVIOUS
  <1> SUFFICES ASSUME NEW i \in 1 .. Len(s), i # 1
               PROVE  s[i] \in {Tail(s)[j] : j \in 1 .. Len(Tail(s))}
    BY <1>1
  <1>3. i - 1 \in 1 .. Len(Tail(s)) /\ s[i] = Tail(s)[i - 1]
    BY <1>1, <1>2
  <1> QED BY <1>3

\* No step moves a report, drops a row or empties the dead-letter queue.
LEMMA NothingWithdrawn ==
    ASSUME TypeOK, [Next]_vars
    PROVE  /\ Reports \subseteq Reports'
           /\ \A n \in Reports : sent'[n] = sent[n] /\ IdOf(n)' = IdOf(n)
           /\ rows \subseteq rows' /\ dead \subseteq dead' /\ accepted \subseteq accepted'
  <1>1. CASE \E b \in Bodies : Post(b)
    <2>1. PICK b \in Bodies : sent' = Append(sent, b)
      BY <1>1 DEF Post
    <2>2. sent \in Seq(Bodies)
      BY DEF TypeOK
    <2>3. Reports \subseteq Reports' /\ \A n \in Reports : sent'[n] = sent[n]
      BY <2>1, <2>2 DEF Reports
    <2>4. \A n \in Reports : IdOf(n)' = IdOf(n)
      BY <2>3 DEF IdOf, EventId
    <2> QED BY <1>1, <2>3, <2>4 DEF Post, Publish, PublishFails, store
  <1>2. CASE UNCHANGED sent
    <2>1. Reports' = Reports /\ \A n \in Reports : IdOf(n)' = IdOf(n)
      BY <1>2 DEF Reports, IdOf, EventId
    <2>2. CASE UNCHANGED vars
      BY <1>2, <2>1, <2>2 DEF vars, broker, store
    <2>3. CASE \E x \in direct : DirectWrite(x) \/ DirectFails(x)
      BY <1>2, <2>1, <2>3 DEF DirectWrite, DirectFails, Insert, broker, store
    <2>4. CASE \E w \in Workers : Work(w)
      BY <1>2, <2>1, <2>4 DEF Work, Deliver, Begin, WriteEvent, WriteTelemetry, TelemetryFails,
             NoCustomer, LookupCached, LookupTree, Merge, MarkSeen, Ack, Insert, broker, store
    <2>5. CASE \E w \in Workers : Reject(w) \/ Crash(w) \/ Restart(w)
      BY <1>2, <2>1, <2>5 DEF Reject, Crash, Restart, Raise, DeadLetter, Insert, broker, store
    <2>6. CASE \/ \E id \in seen : ForgetSeen(id)
               \/ \E w \in Workers, p \in Pairs : ForgetKnown(w, p)
               \/ \E p \in Pairs : Import(p)
      BY <1>2, <2>1, <2>6 DEF ForgetSeen, ForgetKnown, Import, broker, store
    <2>7. CASE \E b \in Bodies : Post(b)
      BY <1>1, <2>7
    <2> QED BY <2>2, <2>3, <2>4, <2>5, <2>6, <2>7 DEF Next
  <1>3. \/ UNCHANGED sent
        \/ \E b \in Bodies : Post(b)
    BY DEF Next, vars, Work, Deliver, Begin, WriteEvent, WriteTelemetry, TelemetryFails, NoCustomer,
           LookupCached, LookupTree, Merge, MarkSeen, Ack, Reject, Crash, Restart, DirectWrite,
           DirectFails, ForgetSeen, ForgetKnown, Import
  <1> QED BY <1>1, <1>2, <1>3

\* A stored event stays stored, a settled report settled.
LEMMA StoredStays ==
    ASSUME TypeOK, [Next]_vars, NEW n \in Reports
    PROVE  (Stored(n) => Stored(n)') /\ (Settled(n) => Settled(n)')
  BY NothingWithdrawn DEF Stored, Settled

\* Insert leaves a row of the report's event behind.
LEMMA InsertStores ==
    ASSUME TypeOK, [Next]_vars, NEW n \in Reports, NEW t, Insert(n, t)
    PROVE  Stored(n)'
  <1>1. IdOf(n)' = IdOf(n)
    BY NothingWithdrawn
  <1> DEFINE new == [id |-> IdOf(n), time |-> t, report |-> n]
  <1>2. \E r \in rows' : r.id = IdOf(n)
    <2>1. CASE \E r \in rows : r.id = IdOf(n) /\ r.time = t
      BY <2>1 DEF Insert
    <2>2. CASE ~ \E r \in rows : r.id = IdOf(n) /\ r.time = t
      <3>1. rows' = rows \cup {new}
        BY <2>2 DEF Insert
      <3>2. new \in rows' /\ new.id = IdOf(n)
        BY <3>1
      <3> QED BY <3>2
    <2> QED BY <2>1, <2>2
  <1> QED BY <1>1, <1>2 DEF Stored

\* Only a worker's own steps change its inbox and its job.
LEMMA OwnSteps ==
    ASSUME TypeOK, [Next]_vars, NEW w \in Workers
    PROVE  \/ inbox'[w] = inbox[w] /\ job'[w] = job[w]
           \/ Work(w) \/ Reject(w) \/ Crash(w) \/ Restart(w)
  <1> USE DEF TypeOK
  <1>1. CASE \E v \in Workers : Work(v)
    <2>1. PICK v \in Workers : Work(v)
      BY <1>1
    <2>2. CASE v # w
      <3>1. CASE Deliver(v)
        BY <2>2, <3>1 DEF Deliver
      <3>2. CASE Begin(v)
        BY <2>2, <3>2 DEF Begin, broker
      <3>3. CASE WriteEvent(v) \/ WriteTelemetry(v) \/ NoCustomer(v) \/ LookupCached(v)
                \/ LookupTree(v) \/ Merge(v) \/ MarkSeen(v)
        <4>1. PICK label : GoTo(v, label)
          BY <3>3 DEF WriteEvent, WriteTelemetry, NoCustomer, LookupCached, LookupTree, Merge, MarkSeen
        <4>2. UNCHANGED inbox
          BY <3>3 DEF WriteEvent, WriteTelemetry, NoCustomer, LookupCached, LookupTree, Merge,
             MarkSeen, broker
        <4> QED BY <2>2, <4>1, <4>2 DEF GoTo
      <3>4. CASE TelemetryFails(v)
        BY <2>2, <3>4 DEF TelemetryFails, broker
      <3>5. CASE Ack(v)
        BY <2>2, <3>5 DEF Ack
      <3> QED BY <2>1, <3>1, <3>2, <3>3, <3>4, <3>5 DEF Work
    <2> QED BY <2>1, <2>2
  <1>2. CASE \E v \in Workers : Reject(v) \/ Crash(v) \/ Restart(v)
    <2>1. PICK v \in Workers : Reject(v) \/ Crash(v) \/ Restart(v)
      BY <1>2
    <2>2. CASE v # w
      <3>1. CASE Stop(v)
        BY <2>2, <3>1 DEF Stop
      <3>2. CASE Restart(v)
        BY <2>2, <3>2 DEF Restart, broker
      <3> QED BY <2>1, <3>1, <3>2 DEF Reject, Crash
    <2> QED BY <2>1, <2>2
  <1>3. CASE ~ \E v \in Workers : Work(v) \/ Reject(v) \/ Crash(v) \/ Restart(v)
    <2>1. \/ UNCHANGED vars
          \/ \E b \in Bodies : Post(b)
          \/ \E x \in direct : DirectWrite(x) \/ DirectFails(x)
          \/ \E id \in seen : ForgetSeen(id)
          \/ \E v \in Workers, p \in Pairs : ForgetKnown(v, p)
          \/ \E p \in Pairs : Import(p)
      BY <1>3 DEF Next
    <2>2. inbox' = inbox /\ job' = job
      BY <2>1 DEF vars, broker, Post, DirectWrite, DirectFails, ForgetSeen, ForgetKnown, Import
    <2> QED BY <2>2
  <1> QED BY <1>1, <1>2, <1>3

\* A worker keeps the message it handles until it acknowledges it or stops.
LEMMA CurrentStays ==
    ASSUME TypeOK, [Next]_vars, NEW w \in Workers, inbox[w] # <<>>,
           ~ Ack(w), ~ Reject(w), ~ Crash(w)
    PROVE  inbox'[w] # <<>> /\ Current(w)' = Current(w)
  <1>1. inbox[w] \in Seq(Reports)
    BY DEF TypeOK
  <1>2. CASE inbox'[w] = inbox[w]
    BY <1>2 DEF Current
  <1>3. CASE Deliver(w)
    <2>1. PICK n \in queue[QueueOf[w]] : inbox'[w] = Append(inbox[w], n)
      BY <1>3 DEF Deliver, TypeOK
    <2>2. n \in Reports
      BY ParameterAssumption DEF TypeOK
    <2> QED BY <1>1, <2>1, <2>2 DEF Current
  <1>4. inbox'[w] = inbox[w] \/ Deliver(w)
    BY OwnSteps DEF Work, Begin, WriteEvent, WriteTelemetry, TelemetryFails, NoCustomer,
       LookupCached, LookupTree, Merge, MarkSeen, Restart, broker
  <1> QED BY <1>2, <1>3, <1>4

AfterEvent == {"telemetry", "lookup", "merge", "mark", "ack"}

\* A worker that handles a message has one.
LEMMA BusyStep ==
    ASSUME TypeOK, BusyHasMessage, [Next]_vars
    PROVE  BusyHasMessage'
  <1> SUFFICES ASSUME NEW w \in Workers, job'[w].pc \notin {"idle", "down"}
               PROVE  inbox'[w] # <<>>
    BY DEF BusyHasMessage
  <1>1. CASE job'[w] = job[w]
    <2>1. inbox[w] # <<>>
      BY <1>1 DEF BusyHasMessage
    <2>2. ~ Ack(w) /\ ~ Reject(w) /\ ~ Crash(w)
      BY <1>1 DEF Ack, Reject, Crash, Stop, Idle, Down, TypeOK
    <2> QED BY <2>1, <2>2, CurrentStays
  <1>2. CASE job'[w] # job[w]
    <2>1. ~ Ack(w) /\ ~ Reject(w) /\ ~ Crash(w) /\ ~ Restart(w)
      BY DEF Ack, Reject, Crash, Restart, Stop, Idle, Down, TypeOK
    <2>2. inbox[w] # <<>>
      BY <1>2, <2>1, OwnSteps DEF Work, Deliver, Begin, WriteEvent, WriteTelemetry, TelemetryFails,
         NoCustomer, LookupCached, LookupTree, Merge, MarkSeen, At, Queries
    <2> QED BY <2>1, <2>2, CurrentStays
  <1> QED BY <1>1, <1>2

\* A worker goes past the "event" step only with a stored event.
LEMMA StoredFirstStep ==
    ASSUME TypeOK, Accounting, [Next]_vars
    PROVE  StoredFirst'
  <1> SUFFICES ASSUME NEW w \in Workers, job'[w].pc \in AfterEvent
               PROVE  Stored(Current(w))'
    BY DEF StoredFirst, AfterEvent
  <1>1. ~ Ack(w) /\ ~ Reject(w) /\ ~ Crash(w) /\ ~ Restart(w)
    BY DEF Ack, Reject, Crash, Restart, Stop, Idle, Down, TypeOK, AfterEvent
  <1>2. CASE job[w].pc \in AfterEvent
    <2>1. inbox[w] # <<>> /\ Stored(Current(w))
      BY <1>2 DEF Accounting, BusyHasMessage, StoredFirst, AfterEvent
    <2>2. Current(w)' = Current(w) /\ Current(w) \in Reports
      BY <1>1, <2>1, CurrentStays, CurrentType
    <2>3. Stored(Current(w))' <=> \E r \in rows' : r.id = IdOf(Current(w))'
      BY DEF Stored
    <2>4. IdOf(Current(w))' = EventId(sent'[Current(w)'])
      BY DEF IdOf, EventId
    <2> QED BY <2>1, <2>2, <2>3, <2>4, NothingWithdrawn DEF Stored, IdOf
  <1>3. CASE job[w].pc \notin AfterEvent
    <2>1. (Begin(w) /\ IdOf(Current(w)) \in seen) \/ WriteEvent(w)
      <3>1. Work(w)
        BY <1>1, <1>3, OwnSteps
      <3>2. ~ Deliver(w)
        BY <1>3 DEF Deliver
      <3>3. \A label : GoTo(w, label) => job'[w].pc = label
        BY DEF GoTo, TypeOK
      <3>4. CASE WriteTelemetry(w) \/ NoCustomer(w) \/ LookupCached(w) \/ LookupTree(w)
                \/ Merge(w) \/ MarkSeen(w) \/ TelemetryFails(w) \/ Ack(w)
        BY <1>3, <3>4 DEF WriteTelemetry, NoCustomer, LookupCached, LookupTree, Merge, MarkSeen,
           TelemetryFails, Ack, Queries, At, AfterEvent
      <3>5. CASE Begin(w)
        <4>1. PICK skip \in BOOLEAN :
                /\ skip => IdOf(Current(w)) \in seen
                /\ job' = [job EXCEPT ![w] = [pc      |-> IF skip THEN "ack" ELSE "event",
                                              time    |-> Stamp(sent[Current(w)]),
                                              aborted |-> FALSE]]
          BY <3>5 DEF Begin
        <4>2. skip
          BY <4>1 DEF AfterEvent, TypeOK
        <4> QED BY <3>5, <4>1, <4>2
      <3> QED BY <3>1, <3>2, <3>4, <3>5 DEF Work
    <2>2. inbox[w] # <<>>
      BY <2>1 DEF Begin, WriteEvent, At
    <2>3. Current(w)' = Current(w) /\ Current(w) \in Reports
      BY <1>1, <2>2, CurrentStays, CurrentType
    <2>4. IdOf(Current(w))' = EventId(sent'[Current(w)'])
      BY DEF IdOf, EventId
    <2>5. \E r \in rows' : r.id = IdOf(Current(w))
      <3>1. CASE IdOf(Current(w)) \in seen
        BY <3>1, NothingWithdrawn DEF Accounting, SeenIsStored
      <3>2. CASE WriteEvent(w)
        <4>1. Stored(Current(w)) \/ Insert(Current(w), job[w].time)
          BY <3>2 DEF WriteEvent
        <4>2. \A n \in Reports : \A t : Insert(n, t) => Stored(n)'
          BY InsertStores
        <4>3. \A n \in Reports : Stored(n)' => \E r \in rows' : r.id = IdOf(n)
          BY NothingWithdrawn DEF Stored
        <4> QED BY <2>3, <4>1, <4>2, <4>3, NothingWithdrawn DEF Stored
      <3> QED BY <2>1, <3>1, <3>2
    <2> QED BY <2>3, <2>4, <2>5, NothingWithdrawn DEF Stored, IdOf
  <1> QED BY <1>2, <1>3

\* Every row carries the id of the report it was written for.
LEMMA RowsNameReportsStep ==
    ASSUME TypeOK, RowsNameReports, [Next]_vars
    PROVE  RowsNameReports'
  <1> SUFFICES ASSUME NEW r \in rows' PROVE r.id = IdOf(r.report)'
    BY DEF RowsNameReports
  <1>1. CASE r \in rows
    <2>1. r.id = IdOf(r.report) /\ r.report \in Reports
      BY <1>1 DEF RowsNameReports, TypeOK
    <2> QED BY <2>1, NothingWithdrawn
  <1>2. CASE r \notin rows
    <2>1. \E n \in Reports : \E t : Insert(n, t)
      <3>1. CASE \E x \in direct : DirectWrite(x)
        BY <3>1 DEF DirectWrite, TypeOK
      <3>2. CASE \E w \in Workers : WriteEvent(w) \/ Reject(w)
        BY <1>2, <3>2, CurrentType DEF WriteEvent, Reject, Raise, At
      <3>3. CASE UNCHANGED rows
        BY <1>2, <3>3
      <3> QED
        BY <3>1, <3>2, <3>3 DEF Next, vars, store, Post, DirectFails, Work, Deliver, Begin,
           WriteTelemetry, TelemetryFails, NoCustomer, LookupCached, LookupTree, Merge, MarkSeen,
           Ack, Crash, Restart, ForgetSeen, ForgetKnown, Import
    <2>2. PICK n \in Reports : \E t : Insert(n, t)
      BY <2>1
    <2>3. r.id = IdOf(n) /\ r.report = n
      BY <1>2, <2>2 DEF Insert
    <2> QED BY <2>3, NothingWithdrawn
  <1> QED BY <1>1, <1>2

\* Only a stored event is marked as seen.
LEMMA SeenIsStoredStep ==
    ASSUME TypeOK, Accounting, [Next]_vars
    PROVE  SeenIsStored'
  <1> SUFFICES ASSUME NEW id \in seen' PROVE \E r \in rows' : r.id = id
    BY DEF SeenIsStored
  <1>1. CASE id \in seen
    BY <1>1, NothingWithdrawn DEF Accounting, SeenIsStored
  <1>2. CASE id \notin seen
    <2>1. PICK w \in Workers : MarkSeen(w)
      BY <1>2 DEF Next, vars, cache, Post, DirectWrite, DirectFails, Work, Deliver, Begin,
         WriteEvent, WriteTelemetry, TelemetryFails, NoCustomer, LookupCached, LookupTree, Merge,
         Ack, Reject, Crash, Restart, ForgetSeen, ForgetKnown, Import
    <2>2. id = IdOf(Current(w))
      BY <1>2, <2>1 DEF MarkSeen
    <2>3. Stored(Current(w))
      BY <2>1 DEF MarkSeen, At, Accounting, StoredFirst
    <2> QED BY <2>2, <2>3, NothingWithdrawn DEF Stored
  <1> QED BY <1>1, <1>2

\* A message leaves the broker only acknowledged or dead-lettered.
LEMMA BrokerKeeps ==
    ASSUME TypeOK, [Next]_vars, NEW n \in Reports, InBroker(n)
    PROVE  \/ InBroker(n)' \/ n \in dead'
           \/ \E w \in Workers : Ack(w) /\ n = Current(w)
  <1>1. CASE \E b \in Bodies : Post(b)
    <2>1. \A q \in Queues : queue[q] \subseteq queue'[q]
      BY <1>1 DEF Post, Publish, PublishFails, Enqueue, TypeOK
    <2>2. \A w \in Workers : InboxSet(w)' = InboxSet(w)
      BY <1>1 DEF Post, InboxSet
    <2> QED BY <2>1, <2>2 DEF InBroker
  <1>2. CASE \E w \in Workers : Deliver(w)
    <2>0. PICK w \in Workers : Deliver(w)
      BY <1>2
    <2>1. PICK m \in queue[QueueOf[w]] :
            /\ inbox' = [inbox EXCEPT ![w] = Append(@, m)]
            /\ queue' = [queue EXCEPT ![QueueOf[w]] = @ \ {m}]
      BY <2>0 DEF Deliver
    <2>2. QueueOf[w] \in Queues /\ m \in Reports /\ inbox[w] \in Seq(Reports)
      BY ParameterAssumption DEF TypeOK
    <2>3. InboxSet(w)' = InboxSet(w) \cup {m}
      <3>1. inbox'[w] = Append(inbox[w], m)
        BY <2>1 DEF TypeOK
      <3> QED BY <2>2, <3>1, AppendElements DEF InboxSet
    <2>4. \A v \in Workers : v # w => InboxSet(v)' = InboxSet(v)
      BY <2>1 DEF InboxSet, TypeOK
    <2>5. \A q \in Queues : queue[q] \subseteq queue'[q] \cup {m}
      BY <2>1 DEF TypeOK
    <2> QED BY <2>3, <2>4, <2>5 DEF InBroker
  <1>3. CASE \E w \in Workers : Ack(w)
    <2>1. PICK w \in Workers : Ack(w)
      BY <1>3
    <2>2. inbox[w] \in Seq(Reports) /\ inbox[w] # <<>> /\ inbox'[w] = Tail(inbox[w])
      BY <2>1 DEF Ack, At, TypeOK
    <2>3. InboxSet(w) \subseteq InboxSet(w)' \cup {Current(w)}
      BY <2>2, TailElements DEF InboxSet, Current
    <2>4. \A v \in Workers : v # w => InboxSet(v)' = InboxSet(v)
      BY <2>1 DEF Ack, InboxSet, TypeOK
    <2>5. queue' = queue
      BY <2>1 DEF Ack
    <2> QED BY <2>1, <2>3, <2>4, <2>5 DEF InBroker
  <1>4. CASE \E w \in Workers : Reject(w) \/ Crash(w)
    <2>1. PICK w \in Workers : Reject(w) \/ Crash(w)
      BY <1>4
    <2> DEFINE rest == {inbox[w][i] : i \in 2 .. Len(inbox[w])}
    <2>2. QueueOf[w] \in Queues
      BY ParameterAssumption
    <2>3. \A v \in Workers : v # w => InboxSet(v)' = InboxSet(v)
      BY <2>1 DEF Reject, Crash, Stop, InboxSet, TypeOK
    <2>4. \A S : Return(w, S) => /\ \A q \in Queues : queue[q] \subseteq queue'[q]
                                /\ S \subseteq queue'[QueueOf[w]]
      BY <2>2 DEF Return, TypeOK
    <2>5. CASE Reject(w)
      <3>1. inbox[w] # <<>>
        BY <2>5 DEF Reject, Raise, Queries, At
      <3>2. Current(w) = inbox[w][1] /\ Len(inbox[w]) \in Nat
        BY <3>1, CurrentType
      <3>3. InboxSet(w) \subseteq rest \cup {Current(w)}
        BY <3>2 DEF InboxSet
      <3>4. Current(w) \in dead' /\ Return(w, rest)
        BY <2>5 DEF Reject, DeadLetter
      <3>5. /\ \A q \in Queues : queue[q] \subseteq queue'[q]
            /\ rest \subseteq queue'[QueueOf[w]]
        BY <2>4, <3>4
      <3>6. CASE \E q \in Queues : n \in queue[q]
        BY <3>5, <3>6 DEF InBroker
      <3>7. CASE n \in InboxSet(w)
        <4> HIDE DEF rest
        <4>1. n \in rest \/ n = Current(w)
          BY <3>3, <3>7
        <4> QED BY <2>2, <3>4, <3>5, <4>1 DEF InBroker
      <3>8. CASE \E v \in Workers : v # w /\ n \in InboxSet(v)
        BY <2>3, <3>8 DEF InBroker
      <3> QED BY <3>6, <3>7, <3>8 DEF InBroker
    <2>6. CASE Crash(w)
      <3>1. Return(w, InboxSet(w))
        BY <2>6 DEF Crash
      <3> QED BY <2>2, <2>3, <2>4, <3>1 DEF InBroker
    <2> QED BY <2>1, <2>5, <2>6
  <1>5. CASE UNCHANGED <<queue, inbox>>
    BY <1>5 DEF InBroker, InboxSet
  <1> QED
    BY <1>1, <1>2, <1>3, <1>4, <1>5 DEF Next, vars, broker, Work, DirectWrite, DirectFails, Begin,
       WriteEvent, WriteTelemetry, TelemetryFails, NoCustomer, LookupCached, LookupTree, Merge,
       MarkSeen, Restart, ForgetSeen, ForgetKnown, Import

\* A report is accepted once the catch-all queue has its message or its row is written.
LEMMA NewlyAccepted ==
    ASSUME TypeOK, [Next]_vars, NEW n \in accepted', n \notin accepted
    PROVE  Stored(n)' \/ InBroker(n)'
  <1>1. CASE \E b \in Bodies : Post(b)
    <2>1. PICK b \in Bodies : Post(b)
      BY <1>1
    <2>2. n = Len(sent) + 1 /\ Enqueue(n, b)
      BY <2>1 DEF Post, Publish, PublishFails
    <2>3. PICK q \in Queues : Binding[q] = Wildcard
      BY CatchAllAssumption
    <2>4. n \in queue'[q]
      BY <2>2, <2>3 DEF Enqueue, Matches
    <2> QED BY <2>4 DEF InBroker
  <1>2. CASE \E x \in direct : DirectWrite(x)
    <2>1. PICK x \in direct : DirectWrite(x)
      BY <1>2
    <2>2. n = x.report /\ n \in Reports
      BY <2>1 DEF DirectWrite, TypeOK
    <2> QED BY <2>1, <2>2, InsertStores DEF DirectWrite
  <1>3. \/ UNCHANGED accepted
        \/ \E b \in Bodies : Post(b)
        \/ \E x \in direct : DirectWrite(x)
    BY DEF Next, vars, Work, Deliver, DirectFails, Begin, WriteEvent, WriteTelemetry,
       TelemetryFails, NoCustomer, LookupCached, LookupTree, Merge, MarkSeen, Ack, Reject, Crash,
       Restart, ForgetSeen, ForgetKnown, Import
  <1> QED BY <1>1, <1>2, <1>3

LEMMA NoReportLostStep ==
    ASSUME TypeOK, Accounting, [Next]_vars
    PROVE  NoReportLost'
  <1> SUFFICES ASSUME NEW n \in accepted' PROVE Settled(n)' \/ InBroker(n)'
    BY DEF NoReportLost
  <1>1. CASE n \notin accepted
    BY <1>1, NewlyAccepted DEF Settled
  <1>2. CASE n \in accepted
    <2>1. n \in Reports
      BY <1>2 DEF TypeOK
    <2>2. CASE Settled(n)
      BY <2>1, <2>2, StoredStays
    <2>3. CASE InBroker(n)
      <3>1. CASE \E w \in Workers : Ack(w) /\ n = Current(w)
        <4>1. Stored(n)
          BY <3>1 DEF Ack, At, Accounting, StoredFirst
        <4> QED BY <2>1, <4>1, StoredStays DEF Settled
      <3> QED BY <2>1, <2>3, <3>1, BrokerKeeps DEF Settled
    <2> QED BY <1>2, <2>2, <2>3 DEF Accounting, NoReportLost
  <1> QED BY <1>1, <1>2

LEMMA AccountingInvariant == Spec => [](TypeOK /\ Accounting)
  <1>1. Init => Accounting
    BY DEF Init, Accounting, BusyHasMessage, StoredFirst, RowsNameReports, SeenIsStored,
       NoReportLost, Idle
  <1>2. TypeOK /\ Accounting /\ [Next]_vars => (TypeOK /\ Accounting)'
    BY NextType, BusyStep, StoredFirstStep, RowsNameReportsStep, SeenIsStoredStep,
       NoReportLostStep DEF Accounting
  <1> QED BY <1>1, <1>2, InitType, PTL DEF Spec

\* A report answered with 202 is never lost, for every topology with a catch-all
\* queue, every number of workers and every number of failures.
THEOREM NothingAcceptedIsLost == Spec => []NoReportLost
  BY AccountingInvariant, PTL DEF Accounting

\* An idempotency key never stands for an event that was not stored.
THEOREM SeenOnlyWhenStored == Spec => []SeenIsStored
  BY AccountingInvariant, PTL DEF Accounting

(***************************************************************************)
(* What ingestion makes of the rows it writes.                             *)
(***************************************************************************)
\* A step of the pipeline accepts one report at most, and never forgets one.
LEMMA OneAccepted ==
    ASSUME TypeOK, [Next]_vars
    PROVE  accepted' = accepted \/ \E n \in Reports' : n \notin accepted /\ accepted' = accepted \cup {n}
  <1>1. CASE \E b \in Bodies : Post(b)
    <2>1. PICK b \in Bodies : Post(b)
      BY <1>1
    <2>2. accepted' = accepted \/ accepted' = accepted \cup {Len(sent) + 1}
      BY <2>1 DEF Post, Publish, PublishFails
    <2>3. Len(sent) + 1 \in Reports' /\ Len(sent) + 1 \notin accepted
      BY <2>1 DEF Post, TypeOK, Reports
    <2> QED BY <2>2, <2>3
  <1>2. CASE \E x \in direct : DirectWrite(x)
    <2>1. PICK x \in direct : DirectWrite(x)
      BY <1>2
    <2>2. x.report \in Reports'
      BY NothingWithdrawn DEF TypeOK
    <2> QED BY <2>1, <2>2 DEF DirectWrite
  <1>3. CASE UNCHANGED accepted
    BY <1>3
  <1>4. \/ UNCHANGED accepted
        \/ \E b \in Bodies : Post(b)
        \/ \E x \in direct : DirectWrite(x)
    BY DEF Next, vars, Work, Deliver, DirectFails, Begin, WriteEvent, WriteTelemetry,
       TelemetryFails, NoCustomer, LookupCached, LookupTree, Merge, MarkSeen, Ack, Reject, Crash,
       Restart, ForgetSeen, ForgetKnown, Import
  <1> QED BY <1>1, <1>2, <1>3, <1>4

\* Every step accepts a report, settles some, or changes nothing the ledger shows.
LEMMA LedgerStep ==
    ASSUME TypeOK, TypeOK', [Next]_vars
    PROVE  Ledger!LedgerNext
  <1> DEFINE settled == {n \in accepted : Settled(n)}
  <1>1. settled \subseteq settled'
    BY NothingWithdrawn, StoredStays DEF TypeOK
  <1>2. settled' \subseteq accepted' /\ settled' \in SUBSET (1 .. MaxReports)
    <2>1. Reports' \subseteq 1 .. MaxReports
      BY ParameterAssumption DEF TypeOK, Reports
    <2> QED BY <2>1 DEF TypeOK
  <1>3. settled' = settled \cup settled'
    BY <1>1
  <1>4. CASE accepted' = accepted
    <2>1. Ledger!Settle(settled')
      BY <1>2, <1>3, <1>4 DEF Ledger!Settle
    <2> QED BY <1>2, <2>1 DEF Ledger!LedgerNext
  <1>5. CASE \E n \in Reports' : n \notin accepted /\ accepted' = accepted \cup {n}
    <2>1. PICK n \in Reports' : n \notin accepted /\ accepted' = accepted \cup {n}
      BY <1>5
    <2>2. n \in 1 .. MaxReports
      BY ParameterAssumption DEF TypeOK, Reports
    <2>3. Ledger!Accept(n, settled')
      BY <1>2, <1>3, <2>1 DEF Ledger!Accept
    <2> QED BY <1>2, <2>2, <2>3 DEF Ledger!LedgerNext
  <1> QED BY <1>4, <1>5, OneAccepted

\* The pipeline implements the ledger but for its liveness: what is accepted and what
\* is settled only grows, and only accepted reports are settled.
THEOREM RefinesLedger == Spec => Ledger!LedgerInit /\ [][Ledger!LedgerNext]_(Ledger!ledger)
  <1>1. Init => Ledger!LedgerInit
    BY DEF Init, Ledger!LedgerInit
  <1>2. TypeOK /\ TypeOK' /\ [Next]_vars => [Ledger!LedgerNext]_(Ledger!ledger)
    BY LedgerStep
  <1> QED BY <1>1, <1>2, TypeCorrect, PTL DEF Spec

----------------------------------------------------------------------------

\* A row of the event of a report has that report's body.
LEMMA RowHasBody ==
    ASSUME TypeOK, RowsNameReports, NEW n \in Reports, NEW r \in rows, r.id = IdOf(n)
    PROVE  r.report \in Reports /\ sent[r.report] = sent[n]
  <1>1. r.report \in Reports /\ sent \in Seq(Bodies)
    BY DEF TypeOK
  <1>2. sent[r.report] \in Bodies /\ sent[n] \in Bodies
    BY <1>1 DEF Reports
  <1>3. EventId(sent[r.report]) = EventId(sent[n])
    BY DEF RowsNameReports, IdOf
  <1> QED BY <1>1, <1>2, <1>3, SameIdSameBody

\* The hash of one device changes by the fold of an event, at a worker's "merge" step.
LEMMA SnapSteps ==
    ASSUME TypeOK, [Next]_vars
    PROVE  UNCHANGED snap \/ \E w \in Workers : At(w, "merge") /\ HSet(sent[Current(w)])
  BY DEF Next, vars, cache, Post, DirectWrite, DirectFails, Work, Deliver, Begin, WriteEvent,
     WriteTelemetry, TelemetryFails, NoCustomer, LookupCached, LookupTree, Merge, MarkSeen, Ack,
     Reject, Raise, Crash, Restart, ForgetSeen, ForgetKnown, Import

Explains(b, c, d, f, value) ==
    b.customer = c /\ b.device = d /\ f \in DOMAIN Fold(b) /\ Fold(b)[f] = value

\* What a row explains it explains for good: reports are never changed.
LEMMA ExplainedStays ==
    ASSUME TypeOK, [Next]_vars, NEW r \in rows
    PROVE  r \in rows' /\ sent'[r.report] = sent[r.report]
  BY NothingWithdrawn DEF TypeOK

\* The fold of the event a worker is merging is that of a row.
LEMMA MergeExplained ==
    ASSUME TypeOK, Accounting, NEW w \in Workers, At(w, "merge")
    PROVE  \E r \in rows : sent[r.report] = sent[Current(w)]
  <1>1. Current(w) \in Reports
    BY CurrentType DEF At
  <1>2. PICK r \in rows : r.id = IdOf(Current(w))
    BY DEF At, Accounting, StoredFirst, Stored
  <1> QED BY <1>1, <1>2, RowHasBody DEF Accounting

LEMMA ExplainedStep ==
    ASSUME TypeOK, TypeOK', Accounting, SnapshotIsExplained, [Next]_vars
    PROVE  SnapshotIsExplained'
  <1> SUFFICES ASSUME NEW c \in Customers, NEW d \in Devices, NEW f \in DOMAIN snap'[c][d]
               PROVE  \E r \in rows' : Explains(sent'[r.report], c, d, f, snap'[c][d][f])
    BY DEF SnapshotIsExplained, Explains
  <1>1. ASSUME f \in DOMAIN snap[c][d], snap'[c][d][f] = snap[c][d][f]
        PROVE  \E r \in rows' : Explains(sent'[r.report], c, d, f, snap'[c][d][f])
    <2>1. PICK r \in rows : Explains(sent[r.report], c, d, f, snap[c][d][f])
      BY <1>1 DEF SnapshotIsExplained, Explains
    <2> QED BY <1>1, <2>1, ExplainedStays
  <1>2. ASSUME NEW w \in Workers, At(w, "merge"), HSet(sent[Current(w)]),
               c = sent[Current(w)].customer, d = sent[Current(w)].device
        PROVE  \E r \in rows' : Explains(sent'[r.report], c, d, f, snap'[c][d][f])
    <2> DEFINE b == sent[Current(w)]
    <2>1. snap'[c][d] = Overlay(snap[c][d], Fold(b))
      BY <1>2 DEF HSet, TypeOK
    <2>2. CASE f \in DOMAIN Fold(b)
      <3>1. snap'[c][d][f] = Fold(b)[f]
        BY <2>1, <2>2 DEF Overlay
      <3>2. Explains(b, c, d, f, snap'[c][d][f])
        BY <1>2, <2>2, <3>1 DEF Explains
      <3>3. PICK r \in rows : sent[r.report] = b
        BY <1>2, MergeExplained
      <3> QED BY <3>2, <3>3, ExplainedStays
    <2>3. CASE f \notin DOMAIN Fold(b)
      <3>1. f \in DOMAIN snap[c][d] /\ snap'[c][d][f] = snap[c][d][f]
        BY <2>1, <2>3 DEF Overlay
      <3> QED BY <1>1, <3>1
    <2> QED BY <2>2, <2>3
  <1>3. CASE UNCHANGED snap
    BY <1>1, <1>3
  <1>4. CASE \E w \in Workers : At(w, "merge") /\ HSet(sent[Current(w)])
    <2>1. PICK w \in Workers : At(w, "merge") /\ HSet(sent[Current(w)])
      BY <1>4
    <2>2. CASE c = sent[Current(w)].customer /\ d = sent[Current(w)].device
      BY <1>2, <2>1, <2>2
    <2>3. CASE ~ (c = sent[Current(w)].customer /\ d = sent[Current(w)].device)
      <3>1. snap'[c][d] = snap[c][d]
        BY <2>1, <2>3 DEF HSet, TypeOK
      <3> QED BY <1>1, <3>1
    <2> QED BY <2>2, <2>3
  <1> QED BY <1>3, <1>4, SnapSteps

\* A replay of the event table could rebuild the snapshot: every field of a device's
\* hash has the value that some event row of that customer and device folds into it.
THEOREM SnapshotComesFromRows == Spec => []SnapshotIsExplained
  <1>1. Init => SnapshotIsExplained
    BY DEF Init, SnapshotIsExplained
  <1>2. /\ TypeOK /\ TypeOK' /\ Accounting /\ SnapshotIsExplained /\ [Next]_vars
        => SnapshotIsExplained'
    BY ExplainedStep
  <1> QED BY <1>1, <1>2, AccountingInvariant, PTL DEF Spec

----------------------------------------------------------------------------

\* At the "telemetry" step the event has a row with the time the worker goes by.
RowAtItsTime ==
    \A w \in Workers : job[w].pc = "telemetry" =>
        \E r \in rows : r.id = IdOf(Current(w)) /\ r.time = job[w].time

\* Insert leaves a row of that event and that time.
LEMMA InsertAtTime ==
    ASSUME NEW n, NEW t, Insert(n, t)
    PROVE  \E r \in rows' : r.id = IdOf(n) /\ r.time = t
  <1> DEFINE new == [id |-> IdOf(n), time |-> t, report |-> n]
  <1>1. CASE \E r \in rows : r.id = IdOf(n) /\ r.time = t
    BY <1>1 DEF Insert
  <1>2. CASE ~ \E r \in rows : r.id = IdOf(n) /\ r.time = t
    <2>1. new \in rows'
      BY <1>2 DEF Insert
    <2>2. new.id = IdOf(n) /\ new.time = t
      OBVIOUS
    <2> QED BY <2>1, <2>2
  <1> QED BY <1>1, <1>2

\* A worker reaches "telemetry" by write_event only.
LEMMA TelemetrySteps ==
    ASSUME TypeOK, [Next]_vars, NEW w \in Workers, job'[w].pc = "telemetry"
    PROVE  \/ WriteEvent(w) /\ job'[w].time = job[w].time
           \/ job'[w] = job[w] /\ ~ Ack(w) /\ ~ Reject(w) /\ ~ Crash(w)
  <1>1. ~ Ack(w) /\ ~ Reject(w) /\ ~ Crash(w) /\ ~ Restart(w)
    BY DEF Ack, Reject, Crash, Restart, Stop, Idle, Down, TypeOK
  <1>2. ASSUME NEW j \in [pc : Pcs, time : Nat, aborted : BOOLEAN], NEW label
        PROVE  [j EXCEPT !.pc = label].pc = label /\ [j EXCEPT !.pc = label].time = j.time
    OBVIOUS
  <1>3. job[w] \in [pc : Pcs, time : Nat, aborted : BOOLEAN]
    BY DEF TypeOK
  <1>4. ASSUME NEW label, GoTo(w, label)
        PROVE  job'[w].pc = label /\ job'[w].time = job[w].time
    <2>1. job'[w] = [job[w] EXCEPT !.pc = label]
      BY <1>4 DEF GoTo, TypeOK
    <2> QED BY <1>2, <1>3, <2>1
  <1>5. CASE Work(w)
    <2>1. CASE WriteTelemetry(w) \/ NoCustomer(w) \/ LookupCached(w) \/ LookupTree(w)
               \/ Merge(w) \/ MarkSeen(w)
      BY <1>4, <2>1 DEF WriteTelemetry, NoCustomer, LookupCached, LookupTree, Merge, MarkSeen
    <2>2. CASE TelemetryFails(w)
      BY <2>2 DEF TelemetryFails, TypeOK
    <2>3. CASE Begin(w)
      BY <2>3 DEF Begin, TypeOK
    <2>4. CASE Deliver(w)
      BY <1>1, <2>4 DEF Deliver
    <2>5. CASE WriteEvent(w)
      BY <1>4, <2>5 DEF WriteEvent
    <2> QED BY <1>1, <1>5, <2>1, <2>2, <2>3, <2>4, <2>5 DEF Work
  <1> QED BY <1>1, <1>5, OwnSteps

LEMMA RowAtItsTimeStep ==
    ASSUME TypeOK, Accounting, RowAtItsTime, [Next]_vars
    PROVE  RowAtItsTime'
  <1> SUFFICES ASSUME NEW w \in Workers, job'[w].pc = "telemetry"
               PROVE  \E r \in rows' : r.id = IdOf(Current(w))' /\ r.time = job'[w].time
    BY DEF RowAtItsTime
  <1>1. inbox[w] # <<>> /\ ~ Ack(w) /\ ~ Reject(w) /\ ~ Crash(w)
    <2>1. CASE WriteEvent(w) /\ job'[w].time = job[w].time
      <3>1. inbox[w] # <<>>
        BY <2>1 DEF WriteEvent, At
      <3>2. ~ Ack(w) /\ ~ Reject(w) /\ ~ Crash(w)
        BY DEF Ack, Reject, Crash, Stop, Idle, Down, TypeOK
      <3> QED BY <3>1, <3>2
    <2>2. CASE job'[w] = job[w] /\ ~ Ack(w) /\ ~ Reject(w) /\ ~ Crash(w)
      BY <2>2 DEF Accounting, BusyHasMessage
    <2> QED BY <2>1, <2>2, TelemetrySteps
  <1>2. Current(w)' = Current(w) /\ Current(w) \in Reports
    BY <1>1, CurrentStays, CurrentType
  <1>3. IdOf(Current(w))' = IdOf(Current(w))
    <2>1. IdOf(Current(w))' = EventId(sent'[Current(w)'])
      BY DEF IdOf, EventId
    <2> QED BY <1>2, <2>1, NothingWithdrawn DEF IdOf
  <1>4. CASE WriteEvent(w) /\ job'[w].time = job[w].time
    <2>1. \E r \in rows' : r.id = IdOf(Current(w)) /\ r.time = job[w].time
      BY <1>4, InsertAtTime DEF WriteEvent
    <2> QED BY <1>3, <1>4, <2>1
  <1>5. CASE job'[w] = job[w]
    <2>1. \E r \in rows : r.id = IdOf(Current(w)) /\ r.time = job[w].time
      BY <1>5 DEF RowAtItsTime
    <2> QED BY <1>3, <1>5, <2>1, NothingWithdrawn
  <1> QED BY <1>4, <1>5, TelemetrySteps

Backs(b, h) == b.device = h.device /\ h.key \in DOMAIN b.data /\ b.data[h.key] = h.value

\* Telemetry rows are the observations of the event a worker stored before.
LEMMA HistorySteps ==
    ASSUME TypeOK, [Next]_vars
    PROVE  \/ UNCHANGED history
           \/ \E w \in Workers : At(w, "telemetry") /\ history' \subseteq history \cup Observations(w)
  BY DEF Next, vars, store, Post, DirectWrite, DirectFails, Work, Deliver, Begin, WriteEvent,
     WriteTelemetry, TelemetryFails, InsertTelemetry, NoCustomer, LookupCached, LookupTree, Merge,
     MarkSeen, Ack, Reject, Crash, Restart, ForgetSeen, ForgetKnown, Import

LEMMA BackedStep ==
    ASSUME TypeOK, Accounting, RowAtItsTime, HistoryIsBacked, [Next]_vars
    PROVE  HistoryIsBacked'
  <1> SUFFICES ASSUME NEW h \in history'
               PROVE  \E r \in rows' : r.time = h.time /\ Backs(sent'[r.report], h)
    BY DEF HistoryIsBacked, Backs
  <1>1. CASE h \in history
    <2>1. PICK r \in rows : r.time = h.time /\ Backs(sent[r.report], h)
      BY <1>1 DEF HistoryIsBacked, Backs
    <2> QED BY <2>1, ExplainedStays
  <1>2. ASSUME NEW w \in Workers, At(w, "telemetry"), h \in Observations(w)
        PROVE  \E r \in rows' : r.time = h.time /\ Backs(sent'[r.report], h)
    <2>1. h.time = job[w].time /\ Backs(sent[Current(w)], h)
      BY <1>2 DEF Observations, Backs
    <2>2. PICK r \in rows : r.id = IdOf(Current(w)) /\ r.time = job[w].time
      BY <1>2 DEF At, RowAtItsTime
    <2>3. Current(w) \in Reports
      BY <1>2, CurrentType DEF At
    <2>4. sent[r.report] = sent[Current(w)]
      BY <2>2, <2>3, RowHasBody DEF Accounting
    <2> QED BY <2>1, <2>2, <2>4, ExplainedStays
  <1> QED BY <1>1, <1>2, HistorySteps

\* Every telemetry row repeats a container field of an event row of the same device and
\* time, whatever failed between the two writes.
THEOREM HistoryComesFromRows == Spec => []HistoryIsBacked
  <1>1. Init => RowAtItsTime /\ HistoryIsBacked
    BY DEF Init, RowAtItsTime, HistoryIsBacked, Idle
  <1>2. /\ TypeOK /\ Accounting /\ RowAtItsTime /\ HistoryIsBacked /\ [Next]_vars
        => (RowAtItsTime /\ HistoryIsBacked)'
    BY RowAtItsTimeStep, BackedStep
  <1> QED BY <1>1, <1>2, AccountingInvariant, PTL DEF Spec

----------------------------------------------------------------------------

\* A worker that has found a device in a customer's hierarchy, in its cache or for the
\* event it is about to merge, is right that it was there at some time.
FoundInTree ==
    /\ \A w \in Workers, p \in Pairs : known[w][p] = "yes" => tree[p] # "absent"
    /\ \A w \in Workers : job[w].pc = "merge" => tree[Pair(w)] # "absent"

\* A device that was ever in a hierarchy is never as if it had not been.
LEMMA TreeRemembers ==
    ASSUME TypeOK, [Next]_vars, NEW p \in Pairs, tree[p] # "absent"
    PROVE  tree'[p] # "absent"
  <1>1. CASE \E q \in Pairs : Import(q)
    BY <1>1 DEF Import, TypeOK
  <1>2. CASE UNCHANGED tree
    BY <1>2
  <1> QED
    BY <1>1, <1>2 DEF Next, vars, forest, Post, DirectWrite, DirectFails, Work, Deliver, Begin,
       WriteEvent, WriteTelemetry, TelemetryFails, NoCustomer, LookupCached, LookupTree, Merge,
       MarkSeen, Ack, Reject, Crash, Restart, ForgetSeen, ForgetKnown

\* A worker's cache learns from the hierarchy only.
LEMMA KnownSteps ==
    ASSUME TypeOK, [Next]_vars, NEW w \in Workers, NEW p \in Pairs, known'[w][p] = "yes"
    PROVE  known[w][p] = "yes" \/ tree[p] = "present"
  <1>1. CASE \E v \in Workers : LookupTree(v)
    <2>1. PICK v \in Workers : LookupTree(v)
      BY <1>1
    <2>2. CASE v = w /\ p = Pair(w)
      BY <2>1, <2>2 DEF LookupTree, TypeOK
    <2>3. CASE ~ (v = w /\ p = Pair(w))
      BY <2>1, <2>3 DEF LookupTree, TypeOK
    <2> QED BY <2>2, <2>3
  <1>2. CASE \E v \in Workers : Stop(v)
    BY <1>2 DEF Stop, TypeOK
  <1>3. CASE \E v \in Workers, q \in Pairs : ForgetKnown(v, q)
    BY <1>3 DEF ForgetKnown, TypeOK
  <1>4. CASE UNCHANGED known
    BY <1>4
  <1> QED
    BY <1>1, <1>2, <1>3, <1>4 DEF Next, vars, Post, DirectWrite, DirectFails, Work, Deliver, Begin,
       WriteEvent, WriteTelemetry, TelemetryFails, NoCustomer, LookupCached, Merge,
       MarkSeen, Ack, Reject, Crash, Restart, ForgetSeen, Import

\* A worker reaches "merge" by finding the device.
LEMMA MergeSteps ==
    ASSUME TypeOK, [Next]_vars, NEW w \in Workers, job'[w].pc = "merge"
    PROVE  \/ LookupCached(w) /\ known[w][Pair(w)] = "yes"
           \/ LookupTree(w) /\ tree[Pair(w)] = "present"
           \/ job'[w] = job[w] /\ ~ Ack(w) /\ ~ Reject(w) /\ ~ Crash(w)
  <1>1. ~ Ack(w) /\ ~ Reject(w) /\ ~ Crash(w) /\ ~ Restart(w)
    BY DEF Ack, Reject, Crash, Restart, Stop, Idle, Down, TypeOK
  <1>2. \A label : GoTo(w, label) => job'[w].pc = label
    BY DEF GoTo, TypeOK
  <1>3. CASE Work(w)
    <2>1. CASE WriteEvent(w) \/ WriteTelemetry(w) \/ NoCustomer(w) \/ Merge(w) \/ MarkSeen(w)
      BY <1>2, <2>1 DEF WriteEvent, WriteTelemetry, NoCustomer, Merge, MarkSeen
    <2>2. CASE TelemetryFails(w)
      BY <2>2 DEF TelemetryFails, TypeOK
    <2>3. CASE Begin(w)
      BY <2>3 DEF Begin, TypeOK
    <2>4. CASE Deliver(w)
      BY <1>1, <2>4 DEF Deliver
    <2>5. CASE LookupCached(w)
      BY <1>2, <2>5 DEF LookupCached
    <2>6. CASE LookupTree(w)
      BY <1>2, <2>6 DEF LookupTree
    <2> QED BY <1>1, <1>3, <2>1, <2>2, <2>3, <2>4, <2>5, <2>6 DEF Work
  <1> QED BY <1>1, <1>3, OwnSteps

\* The customer and device of an event that names a customer.
LEMMA PairType ==
    ASSUME TypeOK, NEW w \in Workers, inbox[w] # <<>>
    PROVE  /\ sent[Current(w)].device \in Devices
           /\ sent[Current(w)].customer # None => Pair(w) \in Pairs
  BY CurrentType, ParameterAssumption DEF Pair, Pairs, Body

FoundNow(w) == job[w].pc = "merge" => inbox[w] # <<>> /\ sent[Current(w)].customer # None

LEMMA FoundStep ==
    ASSUME TypeOK, Accounting, FoundInTree, \A w \in Workers : FoundNow(w), [Next]_vars
    PROVE  FoundInTree' /\ \A w \in Workers : FoundNow(w)'
  <1>1. ASSUME NEW w \in Workers, NEW p \in Pairs, known'[w][p] = "yes"
        PROVE  tree'[p] # "absent"
    BY <1>1, KnownSteps, TreeRemembers DEF FoundInTree
  <1>2. ASSUME NEW w \in Workers, job'[w].pc = "merge"
        PROVE  tree'[Pair(w)'] # "absent" /\ inbox'[w] # <<>> /\ sent'[Current(w)'].customer # None
    <2>1. ~ Ack(w) /\ ~ Reject(w) /\ ~ Crash(w)
      BY <1>2 DEF Ack, Reject, Crash, Stop, Idle, Down, TypeOK
    <2>2. inbox[w] # <<>> /\ sent[Current(w)].customer # None /\ tree[Pair(w)] # "absent"
      <3>1. CASE LookupCached(w) /\ known[w][Pair(w)] = "yes"
        <4>1. inbox[w] # <<>> /\ sent[Current(w)].customer # None
          BY <3>1 DEF LookupCached, At
        <4> QED BY <3>1, <4>1, PairType DEF FoundInTree
      <3>2. CASE LookupTree(w) /\ tree[Pair(w)] = "present"
        BY <3>2 DEF LookupTree, Queries, At
      <3>3. CASE job'[w] = job[w]
        BY <1>2, <3>3 DEF FoundInTree, FoundNow
      <3> QED BY <1>2, <3>1, <3>2, <3>3, MergeSteps
    <2>3. inbox'[w] # <<>> /\ Current(w)' = Current(w) /\ Current(w) \in Reports
      BY <2>1, <2>2, CurrentStays, CurrentType
    <2>4. sent'[Current(w)'] = sent[Current(w)]
      BY <2>3, NothingWithdrawn
    <2>5. Pair(w)' = Pair(w)
      BY <2>4 DEF Pair
    <2>6. tree'[Pair(w)] # "absent"
      BY <2>2, PairType, TreeRemembers
    <2> QED BY <2>2, <2>3, <2>4, <2>5, <2>6
  <1>3. (\A w \in Workers : FoundNow(w)')
    BY <1>2 DEF FoundNow
  <1>4. FoundInTree'
    BY <1>1, <1>2 DEF FoundInTree
  <1> QED BY <1>3, <1>4

LEMMA ForeignStep ==
    ASSUME TypeOK, FoundInTree, \A w \in Workers : FoundNow(w), NoForeignFold, [Next]_vars
    PROVE  NoForeignFold'
  <1> SUFFICES ASSUME NEW c \in Customers, NEW d \in Devices, tree'[<<c, d>>] = "absent"
               PROVE  DOMAIN snap'[c][d] = {}
    BY DEF NoForeignFold, Pairs
  <1>1. tree[<<c, d>>] = "absent" /\ <<c, d>> \in Pairs
    BY TreeRemembers DEF Pairs
  <1>2. DOMAIN snap[c][d] = {}
    BY <1>1 DEF NoForeignFold
  <1>3. CASE UNCHANGED snap
    BY <1>2, <1>3
  <1>4. CASE \E w \in Workers : At(w, "merge") /\ HSet(sent[Current(w)])
    <2>1. PICK w \in Workers : At(w, "merge") /\ HSet(sent[Current(w)])
      BY <1>4
    <2>2. Pair(w) # <<c, d>>
      BY <1>1, <2>1 DEF At, FoundInTree
    <2>3. snap'[c][d] = snap[c][d]
      BY <2>1, <2>2 DEF HSet, TypeOK, Pair
    <2> QED BY <1>2, <2>3
  <1> QED BY <1>3, <1>4, SnapSteps

\* No event reaches the snapshot of a customer whose hierarchy never had its device,
\* though each worker goes by a cache of its own and imports happen at any await.
THEOREM FoldsStayHome == Spec => []NoForeignFold
  <1> DEFINE Home == FoundInTree /\ (\A w \in Workers : FoundNow(w)) /\ NoForeignFold
  <1>1. Init => Home
    BY DEF Init, FoundInTree, FoundNow, NoForeignFold, Pairs, Idle
  <1>2. TypeOK /\ Accounting /\ Home /\ [Next]_vars => Home'
    BY FoundStep, ForeignStep
  <1>3. Home => NoForeignFold
    OBVIOUS
  <1> HIDE DEF Home
  <1> QED BY <1>1, <1>2, <1>3, AccountingInvariant, PTL DEF Spec

----------------------------------------------------------------------------

(***************************************************************************)
(* One consumer.  While nothing fails it takes the reports in the order of *)
(* the webhook, so that the last event folded is always the newest.  Once  *)
(* the broker is drained nothing waits in the queues it does not consume,  *)
(* and nothing ever did: what is said here is said of such runs.           *)
(***************************************************************************)
Waiting(w) == queue[QueueOf[w]] \cup InboxSet(w)
Done(w)    == Reports \ Waiting(w)

\* The reports that are done, and the one in hand when its job stands at one of the labels.
Past(w, labels) == Done(w) \cup {n \in InboxSet(w) : job[w].pc \in labels /\ n = Current(w)}

InOrder(w) ==
    /\ \A i, j \in 1 .. Len(inbox[w]) : i < j => inbox[w][i] < inbox[w][j]
    /\ \A n \in InboxSet(w), m \in queue[QueueOf[w]] : n < m
    /\ \A n \in Done(w), m \in Waiting(w) : n < m

\* No report is taken for a duplicate, no device for one of another customer, and no
\* transaction is aborted.
SeenAreDone(w) == \A id \in seen : \E n \in Past(w, {"ack"}) : id = IdOf(n)
LookedUp(w)    == /\ \A p \in Pairs : known[w][p] = "no" => tree[p] # "present"
                  /\ ~ job[w].aborted

Shows(p, f, n) == f \in DOMAIN snap[p[1]][p[2]] /\ snap[p[1]][p[2]][f] = Fold(sent[n])[f]
NewestShown(F) ==
    \A p \in Pairs, f \in Fields : tree[p] = "present" =>
        \A n \in Carriers(p, f) \cap F : (\A m \in Carriers(p, f) \cap F : m <= n) => Shows(p, f, n)

Tidy(w) == InOrder(w) /\ SeenAreDone(w) /\ LookedUp(w) /\ NewestShown(Past(w, {"mark", "ack"}))

Only(w)        == \A q \in Queues : q # QueueOf[w] => queue[q] = {}
Undisturbed(w) == faults = 0 /\ imports = 0 /\ DistinctEvents /\ Only(w)

LEMMA TidyInit == ASSUME Init, NEW w \in Workers PROVE Tidy(w)
  <1>1. Reports = {} /\ InboxSet(w) = {} /\ seen = {} /\ queue[QueueOf[w]] = {} /\ inbox[w] = <<>>
    BY ParameterAssumption DEF Init, Reports, InboxSet
  <1>2. InOrder(w)
    BY <1>1 DEF InOrder, Waiting, Done
  <1>3. LookedUp(w)
    BY DEF Init, LookedUp, Idle
  <1> QED BY <1>1, <1>2, <1>3 DEF Tidy, SeenAreDone, NewestShown, Carriers

LEMMA WaitingType ==
    ASSUME TypeOK, NEW w \in Workers
    PROVE  /\ QueueOf[w] \in Queues /\ queue[QueueOf[w]] \subseteq Reports
           /\ inbox[w] \in Seq(Reports) /\ Len(inbox[w]) \in Nat
           /\ InboxSet(w) \subseteq Reports /\ Waiting(w) \subseteq Reports
           /\ Reports \subseteq Nat
  <1>1. QueueOf[w] \in Queues /\ queue[QueueOf[w]] \subseteq Reports /\ inbox[w] \in Seq(Reports)
    BY ParameterAssumption DEF TypeOK
  <1>2. InboxSet(w) \subseteq Reports /\ Len(inbox[w]) \in Nat
    BY <1>1 DEF InboxSet
  <1>3. Reports \subseteq Nat
    BY DEF Reports, TypeOK
  <1> QED BY <1>1, <1>2, <1>3 DEF Waiting

\* What may be assumed of a state holds of those before it.
LEMMA FaultsGrow ==
    ASSUME TypeOK, [Next]_vars
    PROVE  /\ faults \in Nat /\ imports \in Nat
           /\ faults' = faults \/ faults' = faults + 1
           /\ imports' = imports \/ imports' = imports + 1
  <1>1. faults \in Nat /\ imports \in Nat
    BY ParameterAssumption DEF TypeOK
  <1>2. faults' = faults \/ Fault
    BY DEF Next, vars, Post, Publish, PublishFails, DirectWrite, DirectFails, Work, Deliver, Begin,
       WriteEvent, WriteTelemetry, TelemetryFails, NoCustomer, LookupCached, LookupTree, Merge,
       MarkSeen, Ack, Reject, Raise, Crash, Restart, ForgetSeen, ForgetKnown, Import
  <1>3. imports' = imports \/ imports' = imports + 1
    BY DEF Next, vars, forest, Post, DirectWrite, DirectFails, Work, Deliver, Begin, WriteEvent,
       WriteTelemetry, TelemetryFails, NoCustomer, LookupCached, LookupTree, Merge, MarkSeen, Ack,
       Reject, Crash, Restart, ForgetSeen, ForgetKnown, Import
  <1> QED BY <1>1, <1>2, <1>3 DEF Fault

LEMMA QueueSteps ==
    ASSUME TypeOK, [Next]_vars, NEW w, Workers = {w}, NEW q \in Queues, q # QueueOf[w]
    PROVE  queue[q] \subseteq queue'[q]
  <1>1. CASE \E b \in Bodies : Post(b)
    <2>1. PICK b \in Bodies : Enqueue(Len(sent) + 1, b) \/ UNCHANGED queue
      BY <1>1 DEF Post, Publish, PublishFails
    <2> QED BY <2>1 DEF Enqueue
  <1>2. CASE Deliver(w)
    BY <1>2 DEF Deliver, TypeOK
  <1>3. CASE \E S : Return(w, S)
    BY <1>3 DEF Return, TypeOK
  <1>4. CASE UNCHANGED queue
    BY <1>4
  <1> QED
    BY <1>1, <1>2, <1>3, <1>4 DEF Next, vars, broker, DirectWrite, DirectFails, Work, Begin, WriteEvent,
       WriteTelemetry, TelemetryFails, NoCustomer, LookupCached, LookupTree, Merge, MarkSeen, Ack,
       Reject, Crash, Restart, ForgetSeen, ForgetKnown, Import

LEMMA UndisturbedBefore ==
    ASSUME TypeOK, [Next]_vars, NEW w, Workers = {w}, Undisturbed(w)'
    PROVE  Undisturbed(w) /\ ~ Fault /\ UNCHANGED <<faults, imports>>
  <1>1. faults = 0 /\ imports = 0 /\ UNCHANGED <<faults, imports>>
    BY FaultsGrow DEF Undisturbed
  <1>2. ASSUME Fault PROVE FALSE
    BY <1>1, <1>2 DEF Fault
  <1>3. DistinctEvents
    <2> SUFFICES ASSUME NEW m \in Reports, NEW n \in Reports, IdOf(m) = IdOf(n) PROVE m = n
      BY DEF DistinctEvents
    <2>1. m \in Reports' /\ n \in Reports' /\ IdOf(m)' = IdOf(n)'
      BY NothingWithdrawn
    <2> QED BY <2>1 DEF Undisturbed, DistinctEvents
  <1>4. Only(w)
    BY QueueSteps DEF Undisturbed, Only
  <1> QED BY <1>1, <1>2, <1>3, <1>4 DEF Undisturbed

\* The message in hand is the oldest that waits, and newer than all that is done.
LEMMA HeadFacts ==
    ASSUME TypeOK, NEW w \in Workers, InOrder(w), inbox[w] # <<>>
    PROVE  /\ Current(w) \in InboxSet(w) /\ Current(w) \in Reports /\ Current(w) \notin Done(w)
           /\ \A n \in Done(w) : n < Current(w)
           /\ \A labels : Past(w, labels) = IF job[w].pc \in labels THEN Done(w) \cup {Current(w)}
                                                                    ELSE Done(w)
  <1>1. /\ Current(w) = inbox[w][1] /\ Current(w) \in Reports
        /\ Len(inbox[w]) \in Nat /\ Len(inbox[w]) > 0
    BY CurrentType
  <1>2. Current(w) \in InboxSet(w)
    BY <1>1 DEF InboxSet
  <1>3. Current(w) \notin Done(w) /\ \A n \in Done(w) : n < Current(w)
    BY <1>2 DEF Done, Waiting, InOrder
  <1> QED BY <1>1, <1>2, <1>3 DEF Past

\* The steps at which the worker keeps its messages and its place in them.
LEMMA StayTidy ==
    ASSUME NEW w, Tidy(w), UNCHANGED <<sent, queue, snap, tree>>, inbox'[w] = inbox[w],
           seen' \subseteq seen, LookedUp(w)', job[w].pc = "ack" <=> job'[w].pc = "ack",
           job[w].pc \in {"mark", "ack"} <=> job'[w].pc \in {"mark", "ack"}
    PROVE  Tidy(w)'
  <1>1. /\ Reports' = Reports /\ InboxSet(w)' = InboxSet(w) /\ Waiting(w)' = Waiting(w)
        /\ Current(w)' = Current(w) /\ \A n : IdOf(n)' = IdOf(n)
    BY DEF Reports, InboxSet, Waiting, Current, IdOf, EventId
  <1>2. Done(w)' = Done(w)
    BY <1>1 DEF Done
  <1>3. Past(w, {"ack"})' = Past(w, {"ack"}) /\ Past(w, {"mark", "ack"})' = Past(w, {"mark", "ack"})
    BY <1>1, <1>2 DEF Past
  <1>4. InOrder(w)'
    BY <1>1, <1>2 DEF Tidy, InOrder
  <1>5. SeenAreDone(w)'
    BY <1>1, <1>3 DEF Tidy, SeenAreDone
  <1>6. NewestShown(Past(w, {"mark", "ack"}))'
    BY <1>1, <1>3 DEF Tidy, NewestShown, Carriers, Shows
  <1> QED BY <1>4, <1>5, <1>6 DEF Tidy

\* A report that comes is the newest, and goes to the queue the worker consumes.
LEMMA PostTidy ==
    ASSUME TypeOK, [Next]_vars, NEW w, Workers = {w}, Tidy(w), BusyHasMessage, ~ Fault, Only(w)',
           NEW b \in Bodies, Post(b)
    PROVE  Tidy(w)'
  <1> DEFINE n == Len(sent) + 1
  <1>1. /\ sent' = Append(sent, b) /\ Enqueue(n, b)
        /\ UNCHANGED <<inbox, job, seen, snap, tree, known>>
    BY DEF Post, Publish, PublishFails, cache, forest
  <1>2. /\ sent \in Seq(Bodies) /\ Len(sent) \in Nat /\ n \in Nat /\ n \notin Reports
        /\ Reports' = Reports \cup {n} /\ \A m \in Reports : m < n /\ sent'[m] = sent[m]
    BY <1>1 DEF TypeOK, Reports
  <1> HIDE DEF n
  <1>3. queue'[QueueOf[w]] = queue[QueueOf[w]] \cup {n}
    <2>1. PICK q \in Queues : Binding[q] = Wildcard
      BY CatchAllAssumption
    <2>2. n \in queue'[q]
      BY <1>1, <2>1 DEF Enqueue, Matches
    <2>3. q = QueueOf[w]
      BY <2>2 DEF Only
    <2> QED BY <1>1, <2>1, <2>3 DEF Enqueue, Matches
  <1>4. /\ InboxSet(w)' = InboxSet(w) /\ Waiting(w)' = Waiting(w) \cup {n} /\ Current(w)' = Current(w)
    BY <1>1, <1>3 DEF InboxSet, Waiting, Current
  <1>5. Waiting(w) \subseteq Reports /\ InboxSet(w) \subseteq Reports /\ Reports \subseteq Nat
    BY WaitingType
  <1>6. Done(w)' = Done(w)
    BY <1>2, <1>4, <1>5 DEF Done
  <1>7. \A labels : Past(w, labels)' = Past(w, labels) /\ Past(w, labels) \subseteq Reports
    BY <1>1, <1>4, <1>5, <1>6 DEF Past, Done
  <1>8. \A m \in Reports : IdOf(m)' = IdOf(m)
    BY <1>2 DEF IdOf, EventId
  <1>9. InOrder(w)'
    <2>1. \A i, j \in 1 .. Len(inbox'[w]) : i < j => inbox'[w][i] < inbox'[w][j]
      BY <1>1 DEF Tidy, InOrder
    <2>2. \A k \in InboxSet(w), m \in queue'[QueueOf[w]] : k < m
      BY <1>2, <1>3, <1>5 DEF Tidy, InOrder
    <2>3. \A k \in Done(w), m \in Waiting(w) \cup {n} : k < m
      BY <1>2 DEF Tidy, InOrder, Done
    <2> QED BY <1>4, <1>6, <2>1, <2>2, <2>3 DEF InOrder
  <1>10. SeenAreDone(w)'
    BY <1>1, <1>7, <1>8 DEF Tidy, SeenAreDone
  <1>11. NewestShown(Past(w, {"mark", "ack"}))'
    <2> DEFINE F == Past(w, {"mark", "ack"})
    <2>1. \A p, f : Carriers(p, f)' \cap F = Carriers(p, f) \cap F
      BY <1>2, <1>7 DEF Carriers
    <2>2. \A p, f, m : m \in F => (Shows(p, f, m)' <=> Shows(p, f, m))
      BY <1>1, <1>2, <1>7 DEF Shows
    <2>3. F' = F
      BY <1>7
    <2>4. NewestShown(F)
      BY DEF Tidy
    <2> HIDE DEF F
    <2> SUFFICES ASSUME NEW p \in Pairs, NEW f \in Fields, tree[p] = "present",
                        NEW m \in Carriers(p, f) \cap F, \A k \in Carriers(p, f) \cap F : k <= m
                 PROVE  Shows(p, f, m)'
      BY <1>1, <2>1, <2>3 DEF NewestShown, F
    <2> QED BY <2>2, <2>4 DEF NewestShown
  <1>12. LookedUp(w)'
    BY <1>1 DEF Tidy, LookedUp
  <1> QED BY <1>9, <1>10, <1>11, <1>12 DEF Tidy

\* The oldest message of the queue goes to the end of the inbox.
LEMMA DeliverTidy ==
    ASSUME TypeOK, NEW w, Workers = {w}, Tidy(w), BusyHasMessage, Deliver(w)
    PROVE  Tidy(w)'
  <1> DEFINE Q == queue[QueueOf[w]]
  <1>1. PICK n \in Q :
          /\ \A m \in Q : n <= m
          /\ inbox'[w] = Append(inbox[w], n) /\ queue'[QueueOf[w]] = Q \ {n}
    BY WaitingType DEF Deliver, TypeOK
  <1>2. UNCHANGED <<sent, job, seen, snap, tree, known>>
    BY DEF Deliver, cache, forest
  <1>3. /\ Q \subseteq Reports /\ inbox[w] \in Seq(Reports) /\ Len(inbox[w]) \in Nat
        /\ InboxSet(w) \subseteq Reports /\ Reports \subseteq Nat
    BY WaitingType
  <1>4. InboxSet(w)' = InboxSet(w) \cup {n}
    BY <1>1, <1>3, AppendElements DEF InboxSet
  <1>5. Waiting(w)' = Waiting(w) /\ Reports' = Reports /\ \A m : IdOf(m)' = IdOf(m)
    BY <1>1, <1>2, <1>4 DEF Waiting, Reports, IdOf, EventId
  <1>6. Done(w)' = Done(w)
    BY <1>5 DEF Done
  <1>7. \A labels : "idle" \notin labels /\ "down" \notin labels => Past(w, labels)' = Past(w, labels)
    <2>1. CASE inbox[w] = <<>>
      <3>1. job[w].pc \in {"idle", "down"}
        BY <2>1 DEF BusyHasMessage
      <3> QED BY <1>2, <1>6, <3>1 DEF Past
    <2>2. CASE inbox[w] # <<>>
      <3>1. Current(w)' = Current(w) /\ Current(w) \in InboxSet(w)
        BY <1>1, <1>3, <2>2, HeadFacts DEF Current, Tidy
      <3> QED BY <1>2, <1>4, <1>6, <3>1 DEF Past
    <2> QED BY <2>1, <2>2
  <1>8. InOrder(w)'
    <2>1. \A i, j \in 1 .. Len(inbox'[w]) : i < j => inbox'[w][i] < inbox'[w][j]
      <3> SUFFICES ASSUME NEW i \in 1 .. Len(inbox'[w]), NEW j \in 1 .. Len(inbox'[w]), i < j
                   PROVE  inbox'[w][i] < inbox'[w][j]
        OBVIOUS
      <3>1. Len(inbox'[w]) = Len(inbox[w]) + 1
        BY <1>1, <1>3
      <3>2. i \in 1 .. Len(inbox[w]) /\ inbox'[w][i] = inbox[w][i] /\ inbox[w][i] \in InboxSet(w)
        BY <1>1, <1>3, <3>1 DEF InboxSet
      <3>3. CASE j = Len(inbox[w]) + 1
        <4>1. inbox'[w][j] = n
          BY <1>1, <1>3, <3>3
        <4> QED BY <3>2, <4>1 DEF Tidy, InOrder
      <3>4. CASE j # Len(inbox[w]) + 1
        <4>1. j \in 1 .. Len(inbox[w]) /\ inbox'[w][j] = inbox[w][j]
          BY <1>1, <1>3, <3>1, <3>4
        <4> QED BY <3>2, <4>1 DEF Tidy, InOrder
      <3> QED BY <3>3, <3>4
    <2>2. \A k \in InboxSet(w) \cup {n}, m \in Q \ {n} : k < m
      <3>1. \A k \in InboxSet(w), m \in Q : k < m
        BY DEF Tidy, InOrder
      <3>2. \A m \in Q \ {n} : n < m
        <4> TAKE m \in Q \ {n}
        <4>1. n \in Nat /\ m \in Nat /\ n # m /\ n <= m
          BY <1>1, <1>3
        <4> QED BY <4>1
      <3> QED BY <3>1, <3>2
    <2>3. \A k \in InboxSet(w)', m \in queue'[QueueOf[w]] : k < m
      BY <1>1, <1>4, <2>2
    <2> QED BY <1>5, <1>6, <2>1, <2>3 DEF Tidy, InOrder
  <1>9. SeenAreDone(w)'
    BY <1>2, <1>5, <1>7 DEF Tidy, SeenAreDone
  <1>10. NewestShown(Past(w, {"mark", "ack"}))'
    BY <1>2, <1>5, <1>7 DEF Tidy, NewestShown, Carriers, Shows
  <1>11. LookedUp(w)'
    BY <1>2 DEF Tidy, LookedUp
  <1> QED BY <1>8, <1>9, <1>10, <1>11 DEF Tidy

\* The message in hand is done: it joins those that were, and nothing else moves.
LEMMA AckTidy ==
    ASSUME TypeOK, NEW w, Workers = {w}, Tidy(w), Ack(w)
    PROVE  Tidy(w)'
  <1> DEFINE s == inbox[w]
  <1>1. /\ job[w].pc = "ack" /\ s # <<>> /\ inbox'[w] = Tail(s) /\ job'[w] = Idle
        /\ UNCHANGED <<sent, queue, seen, snap, tree, known>>
    BY DEF Ack, At, cache, forest, TypeOK
  <1>2. /\ s \in Seq(Reports) /\ Len(s) \in Nat /\ Len(s) > 0 /\ InboxSet(w) \subseteq Reports
        /\ Reports \subseteq Nat /\ Current(w) = s[1] /\ queue[QueueOf[w]] \subseteq Reports
    BY <1>1, WaitingType, CurrentType
  <1>3. \A i \in 1 .. Len(Tail(s)) : /\ i \in 1 .. Len(s) /\ i + 1 \in 1 .. Len(s)
                                     /\ Tail(s)[i] = s[i + 1]
    BY <1>1, <1>2
  <1>4. InboxSet(w)' = InboxSet(w) \ {Current(w)}
    <2>1. \A i \in 1 .. Len(Tail(s)) : Tail(s)[i] \in InboxSet(w) /\ Tail(s)[i] # Current(w)
      <3> TAKE i \in 1 .. Len(Tail(s))
      <3>1. 1 \in 1 .. Len(s) /\ i + 1 \in 1 .. Len(s) /\ 1 < i + 1 /\ Tail(s)[i] = s[i + 1]
        BY <1>2, <1>3
      <3>2. \A a, b \in 1 .. Len(s) : a < b => s[a] < s[b]
        BY DEF Tidy, InOrder
      <3>3. s[1] < s[i + 1]
        BY <3>1, <3>2
      <3>4. s[1] \in Nat
        BY <1>1, <1>2, CurrentType
      <3> QED BY <1>2, <3>1, <3>3, <3>4 DEF InboxSet
    <2>2. InboxSet(w) \subseteq {Tail(s)[i] : i \in 1 .. Len(Tail(s))} \cup {Current(w)}
      <3>1. {s[i] : i \in 1 .. Len(s)} \subseteq {Tail(s)[i] : i \in 1 .. Len(Tail(s))} \cup {Head(s)}
        BY <1>1, <1>2, TailElements
      <3> QED BY <3>1 DEF InboxSet, Current
    <2>3. InboxSet(w)' = {Tail(s)[i] : i \in 1 .. Len(Tail(s))}
      BY <1>1 DEF InboxSet
    <2> QED BY <2>1, <2>2, <2>3
  <1>5. Current(w) \in InboxSet(w) /\ Current(w) \notin queue[QueueOf[w]] /\ Current(w) \in Reports
    <2>1. Current(w) \in InboxSet(w) /\ Current(w) \in Reports
      BY <1>1, HeadFacts DEF Tidy
    <2>2. ASSUME Current(w) \in queue[QueueOf[w]] PROVE FALSE
      <3>1. \A n \in InboxSet(w), m \in queue[QueueOf[w]] : n < m
        BY DEF Tidy, InOrder
      <3>2. Current(w) < Current(w) /\ Current(w) \in Nat
        BY <1>2, <2>1, <2>2, <3>1
      <3> QED BY <3>2
    <2> QED BY <2>1, <2>2
  <1>6. /\ Waiting(w)' = Waiting(w) \ {Current(w)} /\ Reports' = Reports
        /\ \A n : IdOf(n)' = IdOf(n)
    BY <1>1, <1>4, <1>5 DEF Waiting, Reports, IdOf, EventId
  <1>7. Done(w)' = Done(w) \cup {Current(w)}
    BY <1>5, <1>6 DEF Done
  <1>8. \A labels : "ack" \in labels /\ "idle" \notin labels => Past(w, labels)' = Past(w, labels)
    <2> TAKE labels
    <2> HAVE "ack" \in labels /\ "idle" \notin labels
    <2>1. Past(w, labels) = Done(w) \cup {Current(w)}
      BY <1>1, HeadFacts DEF Tidy
    <2>2. Past(w, labels)' = Done(w)'
      BY <1>1 DEF Past, Idle
    <2> QED BY <1>7, <2>1, <2>2
  <1>9. InOrder(w)'
    <2>1. \A i, j \in 1 .. Len(Tail(s)) : i < j => Tail(s)[i] < Tail(s)[j]
      <3> TAKE i, j \in 1 .. Len(Tail(s))
      <3> HAVE i < j
      <3>1. i + 1 < j + 1
        OBVIOUS
      <3> QED BY <1>3, <3>1 DEF Tidy, InOrder
    <2>2. \A n \in InboxSet(w)', m \in queue[QueueOf[w]] : n < m
      BY <1>4 DEF Tidy, InOrder
    <2>3. \A n \in Done(w), m \in Waiting(w) : n < m
      BY DEF Tidy, InOrder
    <2>4. \A m \in InboxSet(w) \ {Current(w)} : Current(w) < m
      <3> TAKE m \in InboxSet(w) \ {Current(w)}
      <3>1. PICK i \in 1 .. Len(s) : m = s[i]
        BY DEF InboxSet
      <3>2. 1 \in 1 .. Len(s) /\ 1 < i
        BY <1>2, <3>1
      <3> QED BY <1>2, <3>1, <3>2 DEF Tidy, InOrder
    <2>5. \A m \in queue[QueueOf[w]] : Current(w) < m
      BY <1>5 DEF Tidy, InOrder
    <2>6. \A n \in Done(w)', m \in Waiting(w)' : n < m
      BY <1>6, <1>7, <2>3, <2>4, <2>5 DEF Waiting
    <2> QED BY <1>1, <2>1, <2>2, <2>6 DEF InOrder
  <1>10. SeenAreDone(w)'
    BY <1>1, <1>6, <1>8 DEF Tidy, SeenAreDone
  <1>11. NewestShown(Past(w, {"mark", "ack"}))'
    BY <1>1, <1>6, <1>8 DEF Tidy, NewestShown, Carriers, Shows
  <1>12. LookedUp(w)'
    BY <1>1 DEF Tidy, LookedUp, Idle
  <1> QED BY <1>9, <1>10, <1>11, <1>12 DEF Tidy

\* No report is skipped: what is seen is that of another one, which is another event.
LEMMA BeginTidy ==
    ASSUME TypeOK, NEW w, Workers = {w}, Tidy(w), DistinctEvents, ~ Fault, Begin(w)
    PROVE  Tidy(w)'
  <1>1. job[w].pc = "idle" /\ inbox[w] # <<>> /\ UNCHANGED <<sent, queue, inbox, seen, snap, tree, known>>
    BY DEF Begin, At, broker, cache, forest
  <1>2. IdOf(Current(w)) \notin seen
    <2> SUFFICES ASSUME IdOf(Current(w)) \in seen PROVE FALSE
      OBVIOUS
    <2>1. PICK n \in Past(w, {"ack"}) : IdOf(Current(w)) = IdOf(n)
      BY DEF Tidy, SeenAreDone
    <2>2. n \in Done(w) /\ Current(w) \in Reports /\ Current(w) \notin Done(w)
      BY <1>1, HeadFacts DEF Tidy
    <2> QED BY <2>1, <2>2 DEF DistinctEvents, Done
  <1>3. job'[w].pc = "event" /\ job'[w].aborted = FALSE
    BY <1>2 DEF Begin, TypeOK
  <1>4. LookedUp(w)'
    BY <1>1, <1>3 DEF Tidy, LookedUp
  <1> QED BY <1>1, <1>3, <1>4, StayTidy

\* Folding the message in hand, or leaving it out because its device is not in the
\* hierarchy, shows the newest of what is done by now.
LEMMA FoldTidy ==
    ASSUME TypeOK, NEW w, Workers = {w}, Tidy(w), inbox[w] # <<>>,
           job[w].pc \notin {"mark", "ack"}, job'[w].pc = "mark", inbox'[w] = inbox[w],
           UNCHANGED <<sent, queue, seen, tree>>, LookedUp(w)',
           \A p \in Pairs, f \in Fields : tree[p] = "present" =>
              IF Current(w) \in Carriers(p, f)
                THEN Shows(p, f, Current(w))'
                ELSE \A n : Shows(p, f, n) => Shows(p, f, n)'
    PROVE  Tidy(w)'
  <1>1. /\ Reports' = Reports /\ InboxSet(w)' = InboxSet(w) /\ Waiting(w)' = Waiting(w)
        /\ Current(w)' = Current(w) /\ \A n : IdOf(n)' = IdOf(n)
    BY DEF Reports, InboxSet, Waiting, Current, IdOf, EventId
  <1>2. Done(w)' = Done(w)
    BY <1>1 DEF Done
  <1>3. InOrder(w)'
    BY <1>1, <1>2 DEF Tidy, InOrder
  <1>4. Past(w, {"ack"})' = Past(w, {"ack"})
    BY <1>1, <1>2 DEF Past
  <1>5. SeenAreDone(w)'
    BY <1>1, <1>4 DEF Tidy, SeenAreDone
  <1>6. /\ Past(w, {"mark", "ack"})' = Done(w) \cup {Current(w)} /\ Past(w, {"mark", "ack"}) = Done(w)
        /\ (\A n \in Done(w) : n < Current(w)) /\ Current(w) \in Nat /\ Done(w) \subseteq Nat
    <2>1. /\ Past(w, {"mark", "ack"}) = Done(w) /\ Current(w) \in InboxSet(w) /\ Current(w) \in Reports
          /\ \A n \in Done(w) : n < Current(w)
      BY HeadFacts DEF Tidy
    <2>2. Past(w, {"mark", "ack"})' = Done(w) \cup {Current(w)}
      BY <1>1, <1>2, <2>1 DEF Past
    <2> QED BY <2>1, <2>2, WaitingType DEF Done
  <1>7. NewestShown(Past(w, {"mark", "ack"}))'
    <2> SUFFICES ASSUME NEW p \in Pairs, NEW f \in Fields, tree[p] = "present",
                        NEW n \in Carriers(p, f) \cap (Done(w) \cup {Current(w)}),
                        \A m \in Carriers(p, f) \cap (Done(w) \cup {Current(w)}) : m <= n
                 PROVE  Shows(p, f, n)'
      BY <1>1, <1>6 DEF NewestShown, Carriers
    <2>1. CASE Current(w) \in Carriers(p, f)
      <3>1. n = Current(w)
        BY <1>6, <2>1
      <3>2. Shows(p, f, Current(w))'
        BY <2>1
      <3> QED BY <1>1, <3>1, <3>2 DEF Shows
    <2>2. CASE Current(w) \notin Carriers(p, f)
      <3>1. n \in Carriers(p, f) \cap Done(w)
        BY <2>2
      <3>2. Shows(p, f, n)
        BY <1>6, <3>1 DEF Tidy, NewestShown
      <3> QED BY <2>2, <3>2
    <2> QED BY <2>1, <2>2
  <1> QED BY <1>3, <1>5, <1>7 DEF Tidy

\* At "lookup" a worker learns whether the device is the customer's, and at "merge" it
\* folds the event.
LEMMA LookupTidy ==
    ASSUME TypeOK, NEW w, Workers = {w}, Tidy(w), NoCustomer(w) \/ LookupCached(w) \/ LookupTree(w)
    PROVE  Tidy(w)'
  <1>1. /\ job[w].pc = "lookup" /\ inbox[w] # <<>> /\ UNCHANGED <<sent, queue, inbox, seen, snap, tree>>
        /\ job'[w].aborted = job[w].aborted
    BY DEF NoCustomer, LookupCached, LookupTree, Queries, At, GoTo, broker, cache, forest, TypeOK
  <1>2. LookedUp(w)'
    <2>1. ASSUME NEW p \in Pairs, known'[w][p] = "no" PROVE tree[p] # "present"
      <3>1. CASE known'[w][p] = known[w][p]
        BY <2>1, <3>1 DEF Tidy, LookedUp
      <3>2. CASE LookupTree(w) /\ known'[w][p] # known[w][p]
        BY <2>1, <3>2 DEF LookupTree, TypeOK
      <3> QED BY <1>1, <3>1, <3>2 DEF NoCustomer, LookupCached
    <2> QED BY <1>1, <2>1 DEF Tidy, LookedUp
  <1>3. CASE job'[w].pc = "merge"
    BY <1>1, <1>2, <1>3, StayTidy
  <1>4. CASE job'[w].pc = "mark"
    <2>1. sent[Current(w)].customer = None \/ tree[Pair(w)] # "present"
      <3>1. CASE NoCustomer(w)
        BY <3>1 DEF NoCustomer
      <3>2. CASE LookupCached(w)
        <4>1. known[w][Pair(w)] # "yes" /\ sent[Current(w)].customer # None /\ known[w][Pair(w)] # "unknown"
          BY <1>4, <3>2 DEF LookupCached, GoTo, TypeOK
        <4>2. Pair(w) \in Pairs
          BY <1>1, <4>1, PairType
        <4> QED BY <4>1, <4>2 DEF Tidy, LookedUp, TypeOK
      <3>3. CASE LookupTree(w)
        BY <1>4, <3>3 DEF LookupTree, GoTo, TypeOK
      <3> QED BY <3>1, <3>2, <3>3
    <2>2. ASSUME NEW p \in Pairs, NEW f \in Fields, tree[p] = "present" PROVE Current(w) \notin Carriers(p, f)
      BY <2>1, <2>2, ParameterAssumption DEF Carriers, Pairs, Pair
    <2>3. \A p, f, n : Shows(p, f, n)' <=> Shows(p, f, n)
      BY <1>1 DEF Shows
    <2> QED BY <1>1, <1>2, <1>4, <2>2, <2>3, FoldTidy
  <1>5. job'[w].pc \in {"merge", "mark"}
    BY DEF NoCustomer, LookupCached, LookupTree, GoTo, TypeOK
  <1> QED BY <1>3, <1>4, <1>5

LEMMA MergeTidy ==
    ASSUME TypeOK, NEW w, Workers = {w}, Tidy(w), Merge(w)
    PROVE  Tidy(w)'
  <1> DEFINE b == sent[Current(w)]
  <1>1. /\ job[w].pc = "merge" /\ inbox[w] # <<>> /\ UNCHANGED <<sent, queue, inbox, seen, tree, known>>
        /\ job'[w].pc = "mark" /\ job'[w].aborted = job[w].aborted /\ HSet(b)
    BY DEF Merge, At, GoTo, broker, forest, TypeOK
  <1>2. LookedUp(w)'
    BY <1>1 DEF Tidy, LookedUp
  <1>3. ASSUME NEW p \in Pairs, NEW f \in Fields
        PROVE  IF Current(w) \in Carriers(p, f)
                 THEN Shows(p, f, Current(w))'
                 ELSE \A n : Shows(p, f, n) => Shows(p, f, n)'
    <2>1. /\ p[1] \in Customers /\ p[2] \in Devices /\ p = <<p[1], p[2]>>
          /\ Current(w)' = Current(w) /\ Current(w) \in Reports
      BY <1>1, CurrentType DEF Pairs, Current
    <2>2. CASE p = <<b.customer, b.device>>
      <3>1. snap'[p[1]][p[2]] = Overlay(snap[p[1]][p[2]], Fold(b))
        BY <1>1, <2>1, <2>2 DEF HSet, TypeOK
      <3>2. CASE Current(w) \in Carriers(p, f)
        <4>1. f \in DOMAIN Fold(b)
          BY <3>2 DEF Carriers
        <4> QED BY <1>1, <2>1, <3>1, <3>2, <4>1 DEF Shows, Overlay
      <3>3. CASE Current(w) \notin Carriers(p, f)
        <4>1. f \notin DOMAIN Fold(b)
          BY <2>1, <2>2, <3>3 DEF Carriers
        <4>2. ASSUME NEW n, Shows(p, f, n) PROVE Shows(p, f, n)'
          BY <1>1, <3>1, <4>1, <4>2 DEF Shows, Overlay
        <4> QED BY <3>3, <4>2
      <3> QED BY <3>2, <3>3
    <2>3. CASE p # <<b.customer, b.device>>
      <3>1. snap'[p[1]][p[2]] = snap[p[1]][p[2]]
        BY <1>1, <2>1, <2>3 DEF HSet, TypeOK
      <3>2. Current(w) \notin Carriers(p, f)
        BY <2>3 DEF Carriers
      <3>3. \A n : Shows(p, f, n)' <=> Shows(p, f, n)
        BY <1>1, <3>1 DEF Shows
      <3> QED BY <3>2, <3>3
    <2> QED BY <2>2, <2>3
  <1> QED BY <1>1, <1>2, <1>3, FoldTidy

LEMMA MarkTidy ==
    ASSUME TypeOK, NEW w, Workers = {w}, Tidy(w), MarkSeen(w)
    PROVE  Tidy(w)'
  <1>1. /\ job[w].pc = "mark" /\ inbox[w] # <<>> /\ UNCHANGED <<sent, queue, inbox, snap, tree, known>>
        /\ job'[w].pc = "ack" /\ job'[w].aborted = job[w].aborted
        /\ seen' \subseteq seen \cup {IdOf(Current(w))}
    BY DEF MarkSeen, At, GoTo, broker, forest, TypeOK
  <1>2. /\ Reports' = Reports /\ InboxSet(w)' = InboxSet(w) /\ Waiting(w)' = Waiting(w)
        /\ Current(w)' = Current(w) /\ \A n : IdOf(n)' = IdOf(n)
    BY <1>1 DEF Reports, InboxSet, Waiting, Current, IdOf, EventId
  <1>3. Done(w)' = Done(w)
    BY <1>2 DEF Done
  <1>4. InOrder(w)'
    BY <1>1, <1>2, <1>3 DEF Tidy, InOrder
  <1>5. Past(w, {"mark", "ack"})' = Past(w, {"mark", "ack"})
    BY <1>1, <1>2, <1>3 DEF Past
  <1>6. NewestShown(Past(w, {"mark", "ack"}))'
    BY <1>1, <1>2, <1>5 DEF Tidy, NewestShown, Carriers, Shows
  <1>7. SeenAreDone(w)'
    <2>1. Current(w) \in InboxSet(w)
      BY <1>1, HeadFacts DEF Tidy
    <2>2. Past(w, {"ack"}) = Done(w) /\ Past(w, {"ack"})' = Done(w) \cup {Current(w)}
      BY <1>1, <1>2, <1>3, <2>1 DEF Past
    <2> QED BY <1>1, <1>2, <2>2 DEF Tidy, SeenAreDone
  <1>8. LookedUp(w)'
    BY <1>1 DEF Tidy, LookedUp
  <1> QED BY <1>4, <1>6, <1>7, <1>8 DEF Tidy

LEMMA TidyStep ==
    ASSUME TypeOK, Accounting, NEW w, Workers = {w}, Tidy(w), Undisturbed(w), ~ Fault, UNCHANGED imports,
           Only(w)', [Next]_vars
    PROVE  Tidy(w)'
  <1>1. imports \in Nat
    BY FaultsGrow
  <1>2. CASE UNCHANGED <<sent, queue, snap, tree, inbox, job>> /\ seen' \subseteq seen
             /\ \A p \in Pairs : known'[w][p] \in {known[w][p], "unknown"}
    <2>1. LookedUp(w)'
      BY <1>2 DEF Tidy, LookedUp
    <2> QED BY <1>2, <2>1, StayTidy
  <1>3. CASE WriteEvent(w) \/ WriteTelemetry(w)
    <2>1. /\ job[w].pc \in {"event", "telemetry"} /\ job'[w].pc \in {"telemetry", "lookup"}
          /\ job'[w].aborted = job[w].aborted /\ UNCHANGED <<sent, queue, inbox, seen, snap, tree, known>>
      BY <1>3 DEF WriteEvent, WriteTelemetry, At, GoTo, broker, cache, forest, TypeOK
    <2>2. LookedUp(w)'
      BY <2>1 DEF Tidy, LookedUp
    <2> QED BY <2>1, <2>2, StayTidy
  <1>4. CASE Restart(w)
    <2>1. /\ job[w].pc = "down" /\ job'[w] = Idle /\ UNCHANGED <<sent, queue, inbox, seen, snap, tree, known>>
      BY <1>4 DEF Restart, broker, cache, forest, TypeOK
    <2>2. job'[w].pc = "idle" /\ job'[w].aborted = FALSE
      BY <2>1 DEF Idle
    <2>3. LookedUp(w)'
      BY <2>1, <2>2 DEF Tidy, LookedUp
    <2> QED BY <2>1, <2>2, <2>3, StayTidy
  <1>5. CASE \E b \in Bodies : Post(b)
    BY <1>5, PostTidy DEF Accounting
  <1>6. CASE Work(w)
    BY <1>3, <1>6, DeliverTidy, BeginTidy, LookupTidy, MergeTidy, MarkTidy, AckTidy
       DEF Work, TelemetryFails, Accounting, Undisturbed
  <1>7. ~ Reject(w) /\ ~ Crash(w)
    BY DEF Reject, Raise, Crash, Tidy, LookedUp
  <1>8. CASE \E x \in direct : DirectWrite(x) \/ DirectFails(x)
    BY <1>2, <1>8 DEF DirectWrite, DirectFails, broker, cache, forest
  <1>9. CASE \E id \in seen : ForgetSeen(id)
    BY <1>2, <1>9 DEF ForgetSeen, broker, forest
  <1>10. CASE \E p \in Pairs : ForgetKnown(w, p)
    <2>1. PICK p \in Pairs : ForgetKnown(w, p)
      BY <1>10
    <2>2. \A q \in Pairs : known'[w][q] \in {known[w][q], "unknown"}
      BY <2>1 DEF ForgetKnown, TypeOK
    <2> QED BY <1>2, <2>1, <2>2 DEF ForgetKnown, broker, cache, forest
  <1>11. \A p \in Pairs : ~ Import(p)
    BY <1>1 DEF Import
  <1>12. CASE UNCHANGED vars
    BY <1>2, <1>12 DEF vars, broker, cache, forest
  <1> QED BY <1>4, <1>5, <1>6, <1>7, <1>8, <1>9, <1>10, <1>11, <1>12 DEF Next

\* Among the reports there is a newest one.
LEMMA NewestExists ==
    ASSUME TypeOK, NEW S \in SUBSET Reports, S # {}
    PROVE  Newest(S) \in S /\ \A m \in S : m <= Newest(S)
  <1>1. Len(sent) \in Nat /\ \A n \in S : n \in Nat /\ n <= Len(sent)
    BY DEF TypeOK, Reports
  <1> DEFINE T == {Len(sent) - n : n \in S}
  <1>2. T \in SUBSET Nat /\ T # {}
    BY <1>1
  <1>3. PICK k \in T : \A j \in T : k <= j
    <2> HIDE DEF T
    <2> QED BY <1>2, LeastOf
  <1>4. PICK n \in S : k = Len(sent) - n
    BY <1>3
  <1>5. ASSUME NEW m \in S PROVE m <= n
    <2>1. Len(sent) - n <= Len(sent) - m
      BY <1>3, <1>4
    <2> QED BY <1>1, <2>1
  <1> QED BY <1>5 DEF Newest

\* When one process consumes the queue, the snapshot it leaves once the broker is drained
\* holds the newest report's value of every field, however many reports arrived between
\* its steps, whatever its caches and the idempotency keys forget, for any topology.
THEOREM OneConsumerKeepsOrder ==
    ASSUME NEW w, Workers = {w}
    PROVE  Spec => []NewestDistinctReportWins
  <1> DEFINE Ordered == Undisturbed(w) => Tidy(w)
  <1>1. Init => Ordered
    BY TidyInit
  <1>2. TypeOK /\ Accounting /\ Ordered /\ [Next]_vars => Ordered'
    <2> SUFFICES ASSUME TypeOK, Accounting, Ordered, [Next]_vars, Undisturbed(w)' PROVE Tidy(w)'
      OBVIOUS
    <2>1. Undisturbed(w) /\ ~ Fault /\ UNCHANGED <<faults, imports>>
      BY UndisturbedBefore
    <2>2. Only(w)'
      BY DEF Undisturbed
    <2> QED BY <2>1, <2>2, TidyStep
  <1>3. TypeOK /\ Ordered => NewestDistinctReportWins
    <2> SUFFICES ASSUME TypeOK, Ordered, Drained, DistinctEvents,
                        NEW p \in Pairs, NEW f \in Fields, tree[p] = "present", Carriers(p, f) # {}
                 PROVE  Shows(p, f, Newest(Carriers(p, f)))
      BY DEF NewestDistinctReportWins, SnapshotIsNewest, Shows
    <2>1. \A q \in Queues : queue[q] = {}
      BY DEF Drained, InBroker, TypeOK
    <2>2. InboxSet(w) = {}
      BY WaitingType DEF Drained, InBroker
    <2>3. Undisturbed(w)
      BY <2>1 DEF Undisturbed, Only, Drained
    <2>4. Past(w, {"mark", "ack"}) = Reports
      BY <2>1, <2>2, WaitingType DEF Past, Done, Waiting
    <2>5. Carriers(p, f) \in SUBSET Reports
      BY DEF Carriers
    <2>6. NewestShown(Reports)
      BY <2>3, <2>4 DEF Tidy
    <2> DEFINE n == Newest(Carriers(p, f))
    <2>7. n \in Carriers(p, f) /\ \A m \in Carriers(p, f) : m <= n
      BY <2>5, NewestExists
    <2> HIDE DEF n
    <2>8. Shows(p, f, n)
      BY <2>5, <2>6, <2>7 DEF NewestShown
    <2> QED BY <2>8 DEF n
  <1> HIDE DEF Ordered
  <1> QED BY <1>1, <1>2, <1>3, AccountingInvariant, PTL DEF Spec
============================================================================
