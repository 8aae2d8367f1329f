# A verification model of the ThingsBoard chatbot backend

TLA+ modules that model the core of this repository, from the webhook to the
chat widget, TLC
configurations that check them on small instances, and theorems that TLAPS
proves for every instance. Paths are relative to the repository's root (the
directory `src/` of the project map).

Contents: 1 the system, 2 the modules and the code, 3 the runs, 4 fairness,
5 the proofs, 6 what the runs found, 7 what is not modelled, 8 the plan.

## 1. The system: inventory

The program answers questions about a fleet of bank branches whose devices
report to ThingsBoard. It keeps three copies of what ThingsBoard knows: event
and telemetry rows in PostgreSQL, a *live* snapshot per device in Redis, and a
hierarchy (head office, zones, branches) in PostgreSQL with its closure table.
Web processes, queue workers and scheduled jobs share Redis, PostgreSQL and
RabbitMQ, and everything they do is a chain of awaits.

| Component | State it keeps | Operations | Talks to | What is hard | What makes it correct |
|---|---|---|---|---|---|
| Ingestion (`app/api/webhooks.py`, `app/ingest/*`) | exchange, queues, `device_event`, `device_telemetry`, idempotency keys, a worker's cache of known devices | post, publish, direct write, process an event step by step, acknowledge, reject | RabbitMQ, PostgreSQL, Redis, hierarchy | redelivery after a crash at any await; a publish that raised but arrived; a session in an aborted transaction; competing workers | an accepted report is stored or dead-lettered, never lost; nothing is skipped as a duplicate that was not stored; the snapshot holds only what rows explain |
| Fleet snapshot (`app/tasks/*`, the store functions of `live_sync.py`) | Redis hashes per device with an expiry, the rebuild lock | live-sync cycle, replay, reconciliation, merge of an event | ThingsBoard, PostgreSQL, Redis | a lock that expires and is deleted by anyone; DEL/HSET/EXPIRE as three commands; merges outside the lock; change detection against the snapshot others write | rebuilds exclude one another; no device is wiped by a failure; no hash lives forever; no observed value is missing from the history |
| Hierarchy (`app/hierarchy/parser.py`, `store.py`, `app/api/admin.py`) | `hierarchy_node`, `branch_ancestor_path` | import a dump, upsert a node, rebuild the closure | PostgreSQL | concurrent READ COMMITTED transactions with row locks, deadlocks, a walk that does not end on a cycle | the closure table is exactly the ancestor relation of the nodes |
| Access scope (`app/auth/scope_resolver.py`, `tb_acl.py`, `customers.py`, `app/hierarchy/scope.py`, `app/deps.py`) | three caches: prefix (300 s), branch scope (60 s), permissions (60 s) | resolve the prefix, read and filter the branches, ask ThingsBoard, intersect | PostgreSQL, Redis, ThingsBoard | two statements that read the hierarchy around a commit; overlapping requests that write stale entries back; a shared cache key | ThingsBoard is the ceiling, the region narrows it, names and devices stay paired |
| Service login and listings (`app/clients/thingsboard.py`) | the service token, the login lock | authenticated GET with one retry; paged listings | ThingsBoard | a late 401 for an old token; a failed login under the lock; paging by offset while the listing changes | one revocation never fails a call; a listing that lost something says so |
| Chat (`app/query/orchestrate.py`, `memory.py`, `extract.py`) | per session: history window, last branch, intent and period | ask, load the context, answer, record | Redis, access scope, handlers | overlapping turns of a session; a turn cut off between two commands; answers that return early | the window holds whole turns; a follow-up attaches to the turn before it |
| Branch-name gate (`orchestrate.py`, `branch_names.py`) | none | read the directory, read the scope, refuse or resolve the branch a question names; `MetricHandler` tests the device again | PostgreSQL, access scope | names that are parts of one another, of zones, or spelled together; three reads of a hierarchy that is imported meanwhile | the answer comes from a device of the caller and of the branch that was named |
| Normalization (`app/normalization/*`) | none | flatten, coerce, resolve keys, derive statuses | - | coercions and precedence; text of JSON beside JSON; five vendor formats for one camera list | one status per subsystem whatever the shape of the payload |
| Device answers (`MetricHandler`, `key_profiles.py`, `answer_support.py`, `cctv.py`, `derived.py`) | none | three calls to ThingsBoard, overlay, format | ThingsBoard | nulls of series that do not exist; attributes written at different times that contradict one another | the live answer is the one the snapshot of the same readings gives |
| Fleet and area answers (`shared_answer` and its handlers, `fleet_health.py`, `area_rollup.py`, `uptime.py`, `hierarchy_answers.py`, `cctv_fleet.py`) | none | resolve the scope, read the tree, read the snapshots, aggregate, roll up | Redis, PostgreSQL | two statements around an import; snapshots that lapse; rows joined to areas by name | totals that agree with their parts and with one another; nothing silent counts as healthy |
| Alarm answers (`AlarmDetail`, `alarm_answers.py`) | none | read two listings, merge, record, select, count | ThingsBoard | paging by offset while alarms are raised and cleared; fields that mean two things | an alarm is told as it was; a count that is no lower bound is complete |
| Widget and stream (`ChatContext.tsx`, `app/api/chat.py`) | messages, the typing indicator, the handle of the question in flight | send, read a frame, read the end, stop | the chat endpoint | the end of one question's stream beside the next question; a stream that breaks after its headers | every question settles; the stop button stops the question that is shown as loading |
| Users, audit, history and charts, intent extraction, scripts, schema, wiring, deployment | - | - | - | - | - |

How they interact: the webhook hands a report to the broker and the worker
stores it, records its telemetry and merges it into the Redis snapshot; live
sync rebuilds the same snapshot from ThingsBoard under a lock, and its change
detection takes that snapshot as its baseline; replay rebuilds it from the event
rows, and reconciliation starts replays. The hierarchy decides which events may
touch a customer's snapshot and, through the access scope, which devices a
question may be answered from. The widget, or another client, puts a question to
the chat orchestrator, which asks the gate first, then the memory, then one
handler; device questions are read from ThingsBoard, fleet questions from the
snapshots, alarm questions from ThingsBoard's listings.

`PROJECT.json` lists every component with its status and every hazard at the
line where it bites, with the properties that cover it.

## 2. The modules and the code

Every await is a step of its own wherever another actor can observe the
difference; the steps of one function carry the function's name or what the
command does. Values are opaque: a payload is a partial function from fields to
values, a question is what the gate and the extractor make of it. Where answers
depend on what is in a value, a text is one of a few, each with what the
conversions make of it, and a question is the sequence of its words.

* **EventLedger** is the abstract specification of ingestion: a set of accepted
  reports, a set of settled ones, and the promise that what is accepted is
  finally settled and stays so.
* **EventPipeline** is the detailed one. `Post` is the webhook (publish,
  publish that raises with or without the message having arrived, fallback);
  `Begin`, `WriteEvent`, `WriteTelemetry`, `LookupTree` (or `LookupCached`,
  `NoCustomer`), `Merge`, `MarkSeen`, `Ack` are `process_event` in order;
  `TelemetryFails` is the swallowed exception after which the session may be in
  an aborted transaction; `Reject` is an exception leaving
  `message.process(requeue=False)`, which dead-letters the message and ends the
  worker; `Crash` and `Restart` are the process. The clock, `now`, is what
  `datetime.now` returns and advances whenever it is read.
* **FleetSnapshot**: `StartSync` .. `Release` are one `sync_customer`; `Fetch`,
  `ReadBaseline`, `Record` and `Delete`/`HSet`/`Expire` the work on one device;
  `ReadEvents`, `LockReplay`, `NextState` a replay; `Reconcile` a detected drift;
  `Ingest`, `MergeFields`, `MergeExpire` the consumer. `table` is the fold of a
  device's event rows and `last` the last recorded value of each key: change
  detection can tell no more of the rows. `FaultKinds` names what may go wrong
  in an instance, so that a run can ask what one kind of failure costs.
* **HierarchyParser** has the pure functions from a dump to rows
  (`split_full_path`, `parse_device_path`, first occurrence wins, rows in the
  order of the reversed dump). **HierarchyStore** runs them as transactions:
  `LockRow` row by row in statement order, `ReadNodes` (committed rows and one's
  own), `FindPaths`/`DeletePaths` (a DELETE finds rows and then waits for those
  another transaction is deleting), `InsertPaths` with its primary key, `Commit`;
  `Deadlocked` is PostgreSQL's waits-for test and `Refuse` the rollback.
  Two assumptions are on those who send requests, not on the code: with
  `EditsAlone` single-node edits do not run beside other requests, and
  `RootedDumps` says that every dump has a device below the head office, so that
  two imports meet at its row.
* **AccessScope**: `ReadPrefix` .. `MatchTitle` are `resolve_customer_prefix`,
  `ReadScope` .. `KeepScope` are `branch_scope` with its two SELECTs apart,
  `ReadAcl` .. `KeepAcl` are `authorized_device_ids`, `Answer` is the
  intersection of `resolved_scope`. The hierarchy changes by whole commits, as
  HierarchyStore shows they do. `recentTrees` and `recentGrants` remember what
  an answer may still go back to: all there was since the last moment at which
  neither the cache nor a request under way held any of it.
* **ServiceLogin**: `_headers` and `_get` of one process; `line` is the FIFO
  queue of `asyncio.Lock`.
* **PagedFetch**: `fetch_all_pages` page by page, over one listing or several in
  turn (`listings`), of all alarms or the active ones. The world between two
  pages creates and clears items; `HitCap` ends a listing, and so does a body that
  is no page: a list as the first one is the rows (`BareList`), any other one adds
  none (`OddBody`).
  **AlarmAnswers** puts AlarmDetail on top of it. `TellAlarms` makes the answer
  of the records: its disjuncts are the families of `alarm_answers.py` in the
  order the code tries them. `details_of` is the record of a row, with its places
  and its two meanings of a last-seen time. Time is counted in alarms raised, so
  that "within an hour" and "older" are comparisons of numbers. Which of the
  questions about the same devices is asked makes no difference to what is read,
  so the question is chosen when the answer is told.
* **Normalization** and **DeviceReadings** are pure operators: from the raw fields
  of a device (None, a boolean, a text, an object, a list, or the text of an object
  or a list) to the snapshot every answer is built from, and to the faults, recorders
  and computed rows that answers read beside it. What a reader may fail to find is
  a set with at most one member, and the precedence of keys is `FirstFound`.
* **DeviceAnswers**: `AskDevice`, `ReadClient`, `ReadSeries` are the three calls
  of `_load_raw`, `CallFails` its error, `Answer` the formatted data; `SyncDevice`
  is what live sync makes of the same device, text of JSON included. The device
  goes on reporting (`ReportField`) between any two.
* **ScopedTree** and **FleetReports** are pure operators: the part of the
  hierarchy a caller may see and what is said of it, the sums over areas, and the
  health, recording and uptime reports. **FleetAnswers** runs them: `Inquire`
  starts the chain of candidates of `shared_answer`; each does `ReadScope`,
  `ReadPaths` and `ReadRows` (the two statements of `load_scoped_tree`),
  `ReadSnapshot` device by device, and `Reply`, which ends the chain or starts the
  next candidate. Meanwhile the hierarchy is imported (`Reimport`), devices are
  synced (`Resync`) and snapshots lapse (`Lapse`).
* **BranchGate**: `Approach`, `ReadDirectory`, `ReadCallerScope` are
  `_default_gate`, `CheckDevice` is the test of `MetricHandler`, `ImportAgain` the
  world. A text is a sequence of pieces (words, parts of words, blanks, hyphens)
  with a width each, which is all that `gate_and_resolve` looks at: parts, word
  boundaries and lengths.
* **Assistant** composes the four: one question, of one topic, with the world that
  is read for it; what is read for other topics stays at rest.
* **ChatMemory**: one turn is `Ask`, three loads, `Respond` and the writes, each
  a Redis command. `ideal` is what whole turns would have left, as long as turns
  do not overlap. **ChatWidget** says who asks: any clients, or a widget with its
  user (`embedded`). `Send`, `ReadFrame`, `ReadEnd`, `Stop`, `Aborted`,
  `StreamBreaks` and `LoseConnection` are `sendMessage` and `stopStreaming`;
  `Serve`, `Raise` and `Drop` are the generator of `/ask/stream` around the turn
  of ChatMemory. The flags of the screen are the code's three: `isLoading`,
  `isStreaming` and `abortRef`.

`MC<Module>` instantiates a module for TLC; `<Module>_proofs` holds its
theorems. Definitions marked "mutant" are the plausible bugs that
`PROJECT.json` pairs with properties: with the mutant in place of the
definition, the property must fail.

## 3. The runs

Bounds are named constants (`Max...`) and sit in the guards of environment
actions only: requests, imports, failures and changes of the outside world. All
that a component does by itself is unbounded.

| Run | Question | Bounds, and why they are enough |
|---|---|---|
| `pipeline` | Is anything accepted lost; does an idempotency key, the snapshot or the history ever claim more than the event table holds? | a catch-all and a dedicated worker that both get the reports of one customer, 2 reports, 1 failure: a duplicate, a reordering and a crash between any two steps need no more |
| `ledger` | Does the pipeline implement EventLedger, liveness included; is the drained snapshot the newest (no failures, distinct events); does an import race with a worker's cache? | 1 worker, 2 reports, 2 failures, 1 import: a message can be rejected and its worker restarted before the other is delivered |
| `snapshot` | Do rebuilds exclude one another while none outlives its lock; has every hash an expiry; does anything but an expiry or a rebuild empty it; does the history hold every value a cycle stored; does the snapshot catch up again and again? | two sync processes and one replayer on one device of two fields, 2 failures, 3 inputs: a value can change and return while both processes rebuild |
| `hierarchy` | Is the committed closure always exact under concurrent imports and edits between them; does every import end although imports lock rows in opposite orders? | 3 transactions at once, 4 in all, 5 nodes: areas that swap places, a repeated area, a dump in both orders, edits that would close a cycle |
| `scope` | Does a caller get branches of its own region only, each beside its own device, though two statements and three caches are read around imports? | two requests, an explicit and a guessed caller of one region, three hierarchies, an import at any await |
| `scope_current` | Does an answer ever exceed what ThingsBoard granted since the permissions were last read; do answers finally reflect the last change? | two requests, 1 change, 1 failure: a grant read before a change and written after it needs no more |
| `login` | Does one revocation fail a call, is a login ever needless, does every call end? | 3 calls, 2 revocations, 1 failure |
| `chat` | Does the history show whole turns, expiring; do turns in sequence leave what whole turns would; does the widget keep its turns in sequence, show a stop button that reaches what is loading, and settle every question? | 2 slots, 3 turns (the window holds 2) of 8 kinds of question, three of them typed into the widget, 1 failure, 1 lapse: a question stopped, its turn going on, and a third beside it |
| `assistant` | Do live and fleet answers agree; are camera counts sane and statuses consistent; do areas count their own devices, do totals add up; is an alarm told as it was and every count complete or a lower bound; is the branch that is named the one that answers? | a device with 15 readings that contradict one another, 2 of them reported at any moment, 16 intents; a fleet of three branches, two imports, 2 changes during a question, 31 inquiries; four alarms in pages of 1 with a cap of 3 pages, 2 raised or cleared during a reading, 22 questions; two directories, five callers and nine sentences at the gate: a shift across a page boundary, an import between two statements and a lapse between two snapshots need one change each |

The remaining runs, `history_loss`, `snapshot_overrun` and `hierarchy_race`,
expect a violation; section 6 says what they show.

A safety property that needs a calm world says so itself (`faults = 0`, no
overlap so far), so that one run can ask all of a component's questions: the
same instance holds the calm behaviours and the others.

`CHECK_DEADLOCK FALSE` stands in every configuration: with its bounds used up an
instance really stops, and the question of `assistant` ends. Symmetry is declared only where slots are interchangeable
and no liveness is checked.

## 4. Fairness

* EventPipeline: a worker's loop goes on (`WF` of its work or its rejection);
  `docker-compose.prod.yml` has `restart: always` for it; a fallback write that
  began ends, because the database driver answers or raises. Nothing is assumed
  of reports, failures, crashes, expiries or imports.
* FleetSnapshot: `periodic` starts a cycle every interval, a coroutine that runs
  goes on, and Redis drops an abandoned lock after its expiry. Replays need not
  be requested.
* HierarchyStore: PostgreSQL grants a free lock, detects deadlocks and answers.
* ServiceLogin: every request is answered or times out (httpx, 15 seconds).
* AccessScope: a request goes on, and keys with an expiry expire. Weak fairness
  of an expiry suffices because an entry stays until it expires or is evicted;
  nothing is assumed of callers.
* ChatMemory, ChatWidget, PagedFetch and Assistant state safety only: what they do
  is one pass over what is there, and whether it goes on is the event loop's and
  the connection's.

## 5. The proofs

`tlapm` checks every proof to the last leaf. Assumptions are the `ASSUME`s of
the modules, which TLC evaluates in every run.

**EventPipeline_proofs** (any devices, customers, queues, workers, payloads):

* `TypeCorrect`: `Spec => []TypeOK`.
* `NothingAcceptedIsLost` and `SeenOnlyWhenStored`: `Spec => []NoReportLost`,
  `Spec => []SeenIsStored`. Neither is inductive. The inductive invariant is
  `TypeOK /\ Accounting`, where `Accounting` adds that a worker past "idle" has a
  message (`BusyHasMessage`), that past the "event" step its event is stored
  (`StoredFirst`: without it `MarkSeen` could set a key and `Ack` could drop the
  only copy), and that every row carries its own report's event id
  (`RowsNameReports`: without it a report skipped on an id conflict might not be
  stored). The argument needs `CatchAllAssumption` (the catch-all queue is bound
  whoever declares the topology) and `IdAssumption` (a ThingsBoard message id
  names one message).
* `RefinesLedger`: the initial states are the ledger's, and every step is a step
  of the ledger or a stutter: the safety half of `ImplementsLedger`.
* `SnapshotComesFromRows`: `[]SnapshotIsExplained`, on the accounting invariant
  above: a fold comes after the row of its event.
* `HistoryComesFromRows`: `[]HistoryIsBacked`; `RowAtItsTime` and `RowHasBody` say
  that a worker at the telemetry step holds the time of a row it wrote or found.
* `FoldsStayHome`: `[]NoForeignFold`; `FoundInTree` says of every worker past the
  lookup, and every entry of its cache, that the device was in the tree once.
* `OneConsumerKeepsOrder`: for one worker (the theorem's hypothesis is
  `Workers = {w}`), `[]NewestDistinctReportWins`. The invariant `Tidy` is about runs
  so far undisturbed: the worker's queue is in the order of acceptance and behind
  all that is done (`InOrder`), the keys that are set are those of reports that are
  done (`SeenAreDone`), nothing was looked up in vain (`LookedUp`), and the snapshot
  shows the newest of the reports folded so far (`NewestShown`). The report in hand counts as folded from the step after the merge,
  which is why `Tidy` speaks of `Past(w, labels)` and not of what was acknowledged.
  A report in a queue that nobody consumes is never drained, so nothing is said of
  runs that have one.

**FleetSnapshot_proofs** (any number of processes, devices and failures):

* `RebuildsExclude`: under `Timely` (no rebuild outlives `_LOCK_TTL_SECONDS` and
  Redis does not evict the lock), `Spec => []RebuildExclusive`. The lock is a key
  that anyone deletes, so the invariant is not that of an owned lock: it carries
  `LockHeld`, that the key exists while anyone rebuilds, because then only the
  one that rebuilds can have set it. Without `Timely` the run `snapshot_overrun`
  refutes the property.
* `SnapshotTypeCorrect`: `Spec => []TypeOK`; the proof is by groups of actions
  (a cycle, a store, a replay, the world), one lemma each.
* `NoHashForever`: `Spec => []NoImmortalSnapshot`. The strengthening says of every
  hash without an expiry (`Mortal`) that a writer stands before its EXPIRE
  (`Attended`), and that faults are counted, so that "no failure so far" is kept.
* `NothingWipedSilently`: `Spec => NoSilentWipe`, an action property. It needs
  `Loaded`, that a process before its DEL holds something to store, which is what
  the early return of an empty fetch is for.
* `ChangesAreRecorded`: `[]ObservedIsRecorded`. The invariant `Recorded` says that a
  hash shows what is recorded (`Truthful`), that a cycle before its insert is about to
  make the record complete and after it did (`Recorder`), and that events and replays
  write no other keys than events carry (`Sources`). Between the insert and the DEL
  the hash is out of date and the record is not: a second cycle that read its baseline
  there would miss a change, and the exclusion of rebuilds is what keeps it away. So
  the proof carries `Exclusion` with it, which holds without `Timely` as long as there
  was no failure.

**ServiceLogin_proofs** (any number of calls): `OneRevocationFailsNoCall` and
`NoNeedlessLogin`, `[]RetrySurvivesRevocation` and `[]LoginsAreNeeded`. The
invariants `Survival` and `Economy` carry that whoever logs in holds the lock while
no token is there (`LoginExcludes`, over the FIFO queue of waiters), that what is
sent was issued and what was denied is no longer valid (`TokensKnown`), that nothing
is wiped before a revocation (`NothingWipedYet`), that after the first wipe and
before a second revocation whatever a call retries with is valid (`RetriesValid`),
and that without a token every login so far was followed by a wipe or a failure
(`Spent`).

**Assistant_proofs** first proves of any paged listing (any page size, cap and
traffic) `UncutIsComplete` and `HistoryHasNoGap`, `[]NoSilentDrop` and `[]NoGap`. The
invariant `Complete` has `Covered`, that the pages read so far hold all but the oldest
of what there was at the first request: creations push items down, so a later page
repeats some and skips none. Then, of the answers made of the listings, for any alarms,
questions, devices and readings (`AssistantSpec`):

* `AlarmsAreTold`: `[]ToldAsItWas`. The invariant `Written` adds to it that `ended` holds
  the cleared alarms (`Ends`) and that there is one record for every row read that is
  dated and wanted, with the alarm's own type and severity (`Records`). An alarm read
  twice, first open and then resolved, keeps its first record.
* `CountsHold`: `[]CountsAreBounds`. Of all the answers only one family is a count, of
  what the question selects (`AnswerTells`); that an alarm matches depends on what its
  record keeps of it (`SameMatch`); and nothing moves after the answer (`ToldLast`). The
  upper bound is `ToldAsItWas`, the lower one the completeness of the listing of all
  alarms, which by `ReadingAssumption` every reading ends with.
* `OldestHolds`: `[]OldestIsOldest`. While nobody leaves the listing of the open alarms,
  its pages so far hold every alarm at the places they cover (`OpenCovered`), and if the
  open alarms fit the pages the cap does not end that listing; whether they fit is known
  only at the answer, but what keeps them from fitting is never taken back (`FitsBefore`).
* `CamerasTellOne`: `[]OneCctvStory`. All that is read of a device is a JSON value
  (`Asked`), and flattening it to dotted keys makes no other (`ExpandedFields`). That is
  what counting rests on: `ValueAssumption` says of a list that it is finite, and no
  assumption is made of what the lists, objects and texts of a device hold. Then each of
  the five sources of the camera count, tried in turn, counts no more cameras online than
  it counts (`SourcesCount`, one lemma for each), though two of them derive the one figure
  from the other. `StoriesAgree` compares the two formatters over the same snapshot.
* `LiveIsFleet`: `[]LiveMatchesFleet`, for any JSON values that a device reports under any
  names. `Fetched` is the invariant: while nothing more is reported, a question has read
  what each of its calls returns, and the hash is the encoding of the same fields. The two
  hold a value and what `encode` makes of it, or a null and nothing (`LiveIsAlike`). Every
  reader of a field takes these for the same (`EncodedReads`; the exceptions are a
  boolean and a list for a count, which the property leaves out of the two intents that
  tell counts: `SameCounts` and `SameConnected` use it), and therefore every table, ladder
  and formatter does (`SameReads` to `SameAnswers`, one lemma for each), except that a name with
  nothing under it counts as a camera's alarm input if it is one of these: no intent asks
  for such a name (`ClearWanted`, over all the key profiles). What the live path expands
  twice is the same as when it is expanded once (`ExpandedOnce`), and equal in both
  (`ExpandedSame`): by `PathAssumption` a path is never a reported name and belongs to one
  field, so nothing in the one hides what is in the other.
* `AreasAreNarrow`: `[]NarrowedToArea`. Of every step of a question `Narrow` keeps that the
  devices are the scope's, and of each that is narrowed to an area that a branch was below
  the area (`WasBelow`) and had the device (`Had`), each at some time since the question;
  what was so remains so (`WasRemains`) when the hierarchy goes on, or the next candidate
  starts over. The two times may differ: `load_scoped_tree` reads the ancestors with one
  statement and the rows with another, and an import between them can move the branch and
  give it another device, which is why the run has a third hierarchy that does.
* `NamesAreKept`: `[]AnsweredAsNamed`. The directory is read after the question was asked,
  the branch is one that an alias in it spells, and the handler's own test keeps the
  device the caller's (`Gated`). The rest is about texts of any length: an alias that
  matches is part of the question, either as words or of the question spelled together, and
  leaving the blanks out of both keeps it so (`CompactWithin`, by induction over what comes
  before the part, the part, and what comes after). For that `Compact` and `normalize_key`
  read a text with `Through`, a recursive function, and not with a fold.
* `LongestWins`: `[]LongestBranchWins`, for any texts and any lengths of their words
  (`GateAssumption`: none is empty). Of the branches whose aliases are spelled the gate
  keeps those with the longest, and a name is an alias of its branch; a proper part of a
  name is shorter (`PartIsShorter`), and no alias made of a name is longer than the name
  (`AliasIsShorter`), so the shorter branch could have won by its id only, which the
  property leaves out. For that `Size` is a recursive function.
* `NumbersAgree`: `[]SameFleetSameNumbers`, for any devices and readings. The overview
  and the health report count the gateways of the scope by classes of their own, a device
  whose snapshot has lapsed among them (`GatewayCounts`). The report adds up its columns
  along the categories and its rows along the branches; each such sum is the number of
  pairs of a category and a device with a module of it (`TotalCounts`, `RowsAddUp`), if no
  two devices share a row. `FleetAssumption` says that a hierarchy has finitely many nodes.
* `AreaTotalsAgree`: `[]AreaTotalsExact`. The rows of an area are joined by name; where
  every row is called by the words of its leaf and no two leaves share them
  (`JoinableByName`), the join is one-to-one, and a sum over the rows of an area is the
  sum over its devices.

**ChatMemory_proofs** (any number of overlapping turns): `WindowIsWholeTurns` and
`WindowExpires`, `[]HistoryIsPairs` and `[]HistoryExpires`. `WholeTurns` says that
the stored list, longer than the window or not, is a sequence of pairs; a push of
two entries and a trim to an even length keep it.

* `TurnsAreSerial`: `[]SerialMemory`. Each turn is compared with what is left of it:
  `Underway` says, command by command, which part of the turn's result the memory
  already holds, and `Settles` that nothing is left at the end.
* `WidgetTurnsFollow`, `StopStops` and `EveryQuestionSettles`, on `SessionSpec`:
  `[]TurnsInSequence`, `[]StopReaches` and `[]QuestionsSettle`. The invariant `Orderly`
  adds `Widget` to the two above: the question that loads or streams is the last one
  sent, and `abortRef` is its handle (`Shown`); without a hasty question one stream at
  most is read, and a turn on the server is that of a question whose frame is still to
  come (`InTurn`).

**HierarchyStore_proofs** (any nodes, dumps, edits and number of requests):

* `ImportsAreTrees`: what `Batch` makes of any dump is a tree that holds its parents.
  In the flattened list every parent precedes its child (`ParentsPrecede`), by
  induction over the devices of the dump, and the first occurrence of a node wins.
* `ClosureStaysExact` and `WalksEnd`: `[]ClosureExact` and `[]NoEndlessWalk`, under
  `EditsAlone` and `RootedDumps`. The invariant `Sound` says that whoever is past its
  upsert works on what will be committed (`Current`): an import there holds the row of
  the head office until it ends, so that no two are there at once (`OneAtATime`). It
  carries that the committed hierarchy is acyclic, for a tree laid over acyclic rows
  makes no cycle (`TreeOverAcyclic`). The assumptions are needed. Two edits at once are
  the run `hierarchy_race`; a dump whose every path is only the bank's name writes
  leaves alone, need not meet another request at any row, and its rebuild may overlap
  the other's in the same way.

**AccessScope_proofs** (any callers, hierarchies, grants and overlapping requests):
`CeilingHolds` and `RegionHolds`, `[]WithinCeiling` and `[]WithinRegion`. What an
answer may go back to is remembered by the history variables. The invariant `Sound`
says of every cache entry and every request, stage by stage, that what it holds was
true in a remembered state: `Granted` of the permissions, `Backed` of the branches, each
of which is the caller's in one hierarchy and beside its device in one. These may be
two, because two SELECTs read them. `StillGranted` and `StillPlaced` say that what a
request holds is not forgotten under it, and `AclStays` and `ScopeStays` say so of
the caches.

**DataInduction** holds what several proofs need: a predicate that holds of 0 and goes
from each number to the next holds of all (`Inductive`, on a set of numbers and not on an
operator, which first-order provers can apply), a recursion over the numbers has the
values it was defined by (`Recursion`), the elements of a concatenation (`Joined`), and
the sums that the community modules' folds make over a finite set: `Adds` says what one
more element adds, `Summed` that a sum is a number, `SumCounts` that ones add up to a
cardinality.

Only model-checked: liveness (`ImplementsLedger`'s promise, `CatchesUp`,
`ImportsEnd`, `CallsEnd`, `Converges`), which is out of the prover's reach under
fairness. Every invariant of a run is a theorem.

## 6. What the runs found

Three runs expect a violation of what a line of the repository says;
`PROJECT.json` quotes the lines under "findings".

* `history_loss`: a swallowed telemetry failure leaves the session in an aborted
  transaction, and the message is dead-lettered by the query that follows.
* `snapshot_overrun`: a rebuild longer than five minutes overlaps the next and
  then frees a lock it does not hold.
* `hierarchy_race`: two edits at once leave a closure that lacks both's result.

Other behaviours of the code are why a property has the condition it has. A
reader who drops the condition gets the counterexample:

* `NewestDistinctReportWins` is about distinct events: without a message id the
  event id is a digest of the body, so a device that returns to an earlier
  reading within a day is taken for a duplicate. It is about one worker: two
  fold in either order. Without a timestamp a redelivery is stored twice.
* `HistoryIsBacked` has no converse: top-level fields reach the snapshot and not
  `device_telemetry`.
* `NoImmortalSnapshot` and `HistoryExpires` are about runs without failures: a
  process that dies between a write and its EXPIRE leaves a key that never
  expires.
* `ObservedIsRecorded` needs a database that answers: after a failed insert the
  baseline moves on and the change is never recorded. It leaves out the keys that
  events carry: an event stored earlier than a reading and folded after it hides
  the reading from change detection.
* A rebuild deletes a field the consumer has just merged, and reconciliation may
  repair a device that a rebuild is about to store; `CatchesUp` says what makes
  up for both.
* `NoEndlessWalk` and `ImportsEnd` are about imports: a single-node edit that
  closes a cycle walks in circles for ever, holding its row locks.
* `WithinRegion` accepts any container that matches: "ZO Kolkata" may be answered
  with "RO Kolkata", because only the rest of the name is compared.
* `NoSilentDrop` is about answers that read a listing which no item leaves: an
  item that leaves the ACTIVE listing between two pages hides another one.
* `LiveMatchesFleet` is about devices without shared attributes and with no series
  that their intent does not name, because the live path reads neither. One of the
  intents shows what that means: `_SUBSYSTEM` (key_profiles.py:31) lists `bas_sts`,
  `fas_sts`, `timeLock_sts` and `accessControl_sts` and not `ias_sts`, though the
  comment above it says that every subsystem has a flat heartbeat; where `ias_sts`
  arrives as a series only, the two answers about the intrusion alarm differ. For the
  two intents that tell counts it leaves out what their readers take differently
  (`ReadsApart`): `_number` (derived.py:51) takes a boolean for 1 or 0, which its text in
  the snapshot is not, and `_count_like` (derived.py:193) takes a list for unknown and its
  text for none, so that the two answers differ, as TLC shows of a count of devices that
  is `true` and of an empty list of cameras. Other scalars are given by their text, so
  a number of JSON reads as its text does (`_entry_int`, snapshot.py:205, which takes 3.0
  and not "3.0", is the one reader that would tell them apart). And `PathAssumption` keeps what is reported to
  the three levels that paths go: the live path expands containers twice (`_load_raw` and
  `build_snapshot`) and would find deeper paths that the snapshot lacks.
* `AreaTotalsExact` needs a snapshot of every device, rows that are called by the
  distinguishing words of their leaves and leaves that differ in them: a row that finds no area is dropped from its total, two
  that share their words may swap areas, and equal branch names overwrite one
  another in `summary.branches`, which is why `SameFleetSameNumbers` counts its
  rows first.
* An uptime answer's `devices_seen` is the number of snapshots, so that a device of
  the scope without one is not in the "honesty margin" that uptime.py:78 speaks of,
  nor among the silent branches of `_silent_suffix`. A question for non-compliant channels ranks by channels that do
  not record (cctv_fleet.py:265).
* `CountsAreBounds` is about single counts: a count by group carries no "at least"
  when the listing was cut.
* `AnsweredAsNamed` holds because `MetricHandler` tests the device again: the gate
  resolves a name with a directory of one moment and a scope of another.
* `LongestBranchWins` leaves out a longer name that the gate lets pass, and a question
  that spells an id of the shorter branch which is longer than its name: aliases are
  compared by length whatever they are aliases of. Of names
  that are parts of one another the gate looks at each by itself, so that a caller
  who may see "MALDA TOWN MAIN" and not "MALDA TOWN" is refused when he asks for the
  former, and a name that is spelled together is refused only by the names that
  are written together.
* `TurnsInSequence` and `StopReaches` leave out a question that is sent between
  another one's frame and the end of its stream (`hasty`): the `finally` of the
  first clears the indicator and the abort handle of the second, which goes on,
  cannot be stopped, and a third may then overlap it. A question that is stopped
  goes on at the server until its cancellation arrives. A connection lost after
  the frame overwrites an answer that was shown with an apology.
* `SerialMemory` takes from the code that an answer shared by all handlers is not
  recorded, so a fragment after it attaches to an older turn, and that a device
  id in the question's words is remembered like a branch the gate resolved.

## 7. What is not modelled

* Wording, formatting, sorting and cutting of lists, and the text rules behind what
  is opaque here: the words of intents, titles and regions, path segments, the
  substring test for the bank, a text that is none of the few a model knows.
* Which intent, window and fields the extractor takes from a question
  (`intent.py`, `timeframe.py`, `disclosure.py`): keyword rules and an external
  model. An intent is an input of Assistant and ChatMemory.
* Answers that list or refuse and compute nothing: recently added devices, the
  text of the active region, HierarchyInfo, refusals of credentials and of
  telemetry that is unavailable, users, the audit log (their listings are read as
  PagedFetch reads), history rows and charts.
* The `'null'` text of an empty key in change detection, where values are opaque;
  Normalization has it as a text.
* Discovery of the token and the host by the widget, rendering, voice input and
  `clearHistory`, which nothing calls. The lapse of a session's keys is left to the
  sessions of other clients, as nothing the widget shows depends on it.
* The answers of one question do not depend on another's, so that `assistant` asks
  one; what questions share is the memory of ChatMemory.
* Time as a number. An expiry is a step that may happen whenever the key is
  there; a timeout is a failure. The properties say what holds in any order.
* Eviction of the rebuild lock and its expiry under a live holder are one
  failure, `lapse`. Redis and PostgreSQL themselves do not lose what they
  acknowledged.
* Two customers that share a node id; the identity cache of `caller_identity`;
  the rollback switch `enforce_tb_device_acl`.
* Token decoding, prefix rules, schema, wiring, deployment and one-off scripts (`PROJECT.json` gives
  the reason for each).

## 8. The plan

Done, in this order because what is ingested, cached and authorized decides
every answer: EventLedger and EventPipeline, FleetSnapshot, HierarchyParser and
HierarchyStore, ServiceLogin, PagedFetch, ChatMemory, AccessScope; then what is
made of it, Normalization, DeviceReadings and DeviceAnswers, ScopedTree,
FleetReports and FleetAnswers, AlarmAnswers, BranchGate, composed by Assistant, and
ChatWidget over ChatMemory; and the theorems of section 5.

Next modules:

1. `DeviceAccess`: the data endpoints over AccessScope and the identity cache.
2. `Timeframe` and `PrefixRules`: the text rules, on words, as inputs of Assistant.
3. `UserListings`: users and audit log over PagedFetch.
4. HierarchyStore with two customers that share a node.
