---------------------------- MODULE FleetAnswers ----------------------------
(***************************************************************************)
(* A question about the fleet, from its words to its answer: the chain of  *)
(* shared_answer and the fleet handlers of app/query/handlers.py.  Each    *)
(* candidate resolves the caller's scope, may load the part of the         *)
(* hierarchy he sees with two statements, and reads the snapshots of the   *)
(* devices from Redis one by one; when it has nothing to say the next one  *)
(* starts over.  Meanwhile the hierarchy is imported again, devices are    *)
(* synced and snapshots expire.                                            *)
(***************************************************************************)
EXTENDS FleetReports

CONSTANTS
    Hierarchies,   \* the imports in turn: [nodes, above], above being the closure table
    Authorized,    \* the devices ThingsBoard lets the caller see
    Hashes,        \* device -> the hashes live sync may write
    Inquiries,     \* [q, intent, subsystem, device], device = "" when none is named
    MaxChanges,    \* bound: how often the world changes during a question
    SharedPosition \* bound: more branches than this at one place have none of their own

(* An import has finitely many rows, and closes over no others.            *)
ASSUME FleetAssumption ==
    /\ Len(Hierarchies) \in Nat \ {0} /\ MaxChanges \in Nat /\ SharedPosition \in Nat
    /\ \A i \in 1 .. Len(Hierarchies) :
          IsFiniteSet(DOMAIN Hierarchies[i].nodes) /\ DOMAIN Hierarchies[i].above \subseteq DOMAIN Hierarchies[i].nodes

VARIABLES
    version,       \* the import that is committed
    hashes,        \* Redis: device -> its hash, for those that have one
    changes,       \* changes so far
    inquiry        \* the question being answered

fleetVars == <<version, hashes, changes, inquiry>>

FleetInit ==
    /\ version = 1
    /\ hashes \in {[d \in S |-> CHOOSE h \in Hashes[d] : TRUE] : S \in SUBSET DOMAIN Hashes}
    /\ changes = 0
    /\ inquiry = [phase |-> "idle"]

(***************************************************************************)
(* Which answers a question may get, specific to general.                  *)
(***************************************************************************)
RankWords == {"worst", "best", "most", "least", "fewest", "highest", "lowest"}
BrandWords == {"amc", "dsc", "trisim", "seple"}
ListingWords == {"list", "all", "count", "per", "each", "total"}
MetricWords ==
    {"alarm", "alarms", "incident", "incidents", "alert", "alerts", "camera", "cameras", "channel", "channels",
     "recording", "compliance", "health", "offline", "online", "fault", "faults", "faulty", "uptime", "tat",
     "performance", "battery", "voltage", "temperature", "storage", "user", "users", "login", "concentration"}

Triggers(c, q) ==
    CASE c = "area_ranking" -> Says(q, ZoneWords \cup RegionWords \cup {"zonal", "zo"}) /\ Says(q, RankWords)
      [] c = "branch_ranking" -> Says(q, {"branch"}) /\ Says(q, RankWords)
      [] c = "uptime" -> ASKS_UPTIME(q) \/ ASKS_FAULT_HISTORY(q)
      [] c = "geo" -> Says(q, {"map", "latitude", "longitude", "coordinate", "coordinates", "geography"})
      [] c = "panel_brand" -> Says(q, {"panel", "integration"}) /\ Says(q, BrandWords)
      [] c = "per_branch_counts" ->
             \/ Says(q, {"device", "devices"}) /\ Says(q, {"per", "each"}) /\ Says(q, BranchWords)
             \/ Phrase(q, <<"branch", "report">>)
      [] c = "category_listing" -> normalize_category("", q) # {} /\ AsksForListing(q)
      [] c = "hierarchy" ->
             /\ \/ Says(q, ZoneWords \cup RegionWords \cup {"hierarchy", "belongs"})
                \/ Says(q, BranchWords) /\ (HowMany(q) \/ Says(q, ListingWords))
             /\ ~Says(q, MetricWords)

Candidates(q, intent) ==
    SelectSeq(<<"area_ranking", "branch_ranking", "uptime", "geo", "panel_brand", "per_branch_counts",
                "category_listing", "hierarchy">>, LAMBDA c : Triggers(c, q)) \o <<intent>>

Declines(c, q) == c \in {"area_ranking", "branch_ranking"} /\ unrecorded_metric(q)
ReadsTree(c, q) == c \in {"area_ranking", "hierarchy"} \/ (c = "fleet_health" /\ NamesALevel(q))
ReadsSnapshots(c) == c \notin {"hierarchy", "device_inventory"}

(***************************************************************************)
(* The answers.  Of a device's hash they use what snapshot.py, uptime.py   *)
(* and the rest make of it: its view.                                      *)
(***************************************************************************)
ViewOf(raw, fields, d) ==
    LET at(keys) == UNION {to_double(Text(t)) : t \in first_non_blank(raw, keys)}
    IN  [snap |-> SnapshotOf(fields), cctv |-> summarise_branch(fields, d), report |-> device_report(raw),
         position |-> <<at(<<"lat1", "lat">>), at(<<"lon1", "lon">>)>>,
         brand |-> FirstText(fields, <<"dexter_config.brand">>),
         panel_of |-> OrElse(FirstText(fields, <<"dexter_config.branch">>), OrElse(SnapshotOf(fields).identity.branch_name, ""))]
View(raw, d) == ViewOf(raw, expand_containers(raw), d)

Each(states, view) == [d \in DOMAIN states |-> states[d][view]]
Summary(states, ids) == aggregate_fleet_health(Each(states, "snap"), SetToSeq(ids))

Keyless(rows) == [b \in DOMAIN rows |-> [branch |-> b, counts |-> rows[b]]]
AreaRows(q, states, ids) ==
    IF normalize_category("", q) = {"cctv"} \/ Says(q, {"record", "recording"})
    THEN branch_recording_rows(Each(states, "cctv"))
    ELSE Keyless(branch_rows(Summary(states, ids)))
area_ranking(q, tree, states, ids) ==
    IF IsEmptyTree(tree) \/ states = <<>> THEN {}
    ELSE rank_areas(roll_up(AreaRows(q, states, ids), area_of_branch(tree, q)), q)

uptime_answer(q, report) == IF ASKS_UPTIME(q) THEN format_uptime_answer(report, q) ELSE format_fault_answer(report, q)

(* Many branches at one position share a default, and have none.           *)
geo_answer(q, states) ==
    LET position == Each(states, "position")
        markers == {d \in DOMAIN states : {} \notin {position[d][1], position[d][2]}}
        placed == {d \in markers : Cardinality({e \in markers : position[e] = position[d]}) <= SharedPosition}
    IN  [kind |-> IF Says(q, {"latitude", "longitude", "coordinate", "coordinates"}) THEN "coordinates" ELSE "map",
         markers |-> {<<NameOf(states[d].snap, d), states[d].snap.gateway.state>> : d \in markers},
         placed |-> [d \in placed |-> position[d]], unplaced |-> Cardinality(markers \ placed)]

panel_brand(q, states) ==
    LET wanted == Head(SelectSeq(q, LAMBDA w : w \in BrandWords))
        fitted == {d \in DOMAIN states : states[d].brand = {wanted}}
    IN  [kind |-> "panels", present |-> UNION {states[d].brand : d \in DOMAIN states},
         matches |-> Cardinality(fitted), branches |-> {states[d].panel_of : d \in fitted} \ {""}]

per_branch_counts(branches) ==
    [kind |-> "per branch", modules |-> [b \in DOMAIN branches |-> Cardinality(DOMAIN branches[b])]]

(* Counts over the snapshots found; the rest have no recent data.          *)
GlobalOverview(states, ids) ==
    LET in(state) == Cardinality({d \in DOMAIN states : states[d].snap.gateway.state = state})
        count == Cardinality(ids)
        found == Cardinality(DOMAIN states)
    IN  [kind |-> "overview", device_count |-> count, online |-> in(ONLINE), offline |-> in(OFFLINE),
         other |-> found - in(ONLINE) - in(OFFLINE), no_data |-> count - found]

FleetHealth(i, summary) ==
    [area |-> i.area, summary |-> summary,
     data |-> OrElse(rank_branches(summary, i.asked.q), format_fleet_health(summary, i.asked.q, i.asked.subsystem))]

CctvFleet(i, fleet) ==
    [fleet |-> fleet, data |-> OrElse(rank_cctv_branches(fleet, i.asked.q), format_cctv_fleet(fleet, i.asked.q))]

(* One of the nodes that match, or none.                                   *)
OrNobody(named) == IF named = {} THEN {{}} ELSE {{n} : n \in named}

DeviceInventory(i) ==
    IF i.asked.device \in i.scope.devices THEN [kind |-> "in scope", device |-> i.asked.device]
    ELSE [kind |-> "inventory", branches |-> i.scope.leaves]

(* What the candidate whose turn it is has to say, if anything.  Without a *)
(* snapshot only the map and the last one, the intent's own, have.         *)
Replies(i, c, q, summary) ==
    IF i.states = <<>> /\ c \in {"branch_ranking", "uptime", "panel_brand", "per_branch_counts", "category_listing"} THEN {}
    ELSE CASE c = "area_ranking" -> area_ranking(q, i.tree, i.states, i.ids)
           [] c = "branch_ranking" -> rank_branches(summary, q)
           [] c = "uptime" -> {uptime_answer(q, build_report(Each(i.states, "report")))}
           [] c = "geo" -> {geo_answer(q, i.states)}
           [] c = "panel_brand" -> {panel_brand(q, i.states)}
           [] c = "per_branch_counts" -> {per_branch_counts(summary.branches)}
           [] c = "category_listing" -> category_listing(summary, q)
           [] c = "hierarchy" ->
                  IF IsEmptyTree(i.tree) THEN {}
                  ELSE {format_hierarchy_answer(i.tree, q, area) : area \in OrNobody(find_area(i.tree, q, DOMAIN i.tree.nodes))}
           [] c = "global_overview" -> {GlobalOverview(i.states, i.ids)}
           [] c = "device_inventory" -> {DeviceInventory(i)}
           [] c = "fleet_health" -> {FleetHealth(i, summary)}
           [] c = "cctv_fleet" -> {CctvFleet(i, Each(i.states, "cctv"))}

(***************************************************************************)
(* The steps of a question.                                                *)
(***************************************************************************)
Committed == Hierarchies[version]
world == <<version, hashes, changes>>

(* A candidate starts with nothing read.                                   *)
Start(a, todo, since) ==
    [phase |-> "scope", asked |-> a, todo |-> todo, since |-> since, scope |-> [leaves |-> {}, devices |-> {}],
     area |-> {}, tree |-> <<>>, states |-> <<>>, ids |-> {}, left |-> {}, answer |-> <<>>]
Inquire(a) ==
    /\ inquiry.phase = "idle"
    /\ inquiry' = Start(a, Candidates(a.q, a.intent), version)
    /\ UNCHANGED world

End(data) == [phase |-> "told", asked |-> inquiry.asked, answer |-> data]

(* The leaves of the customer, and of their devices those ThingsBoard      *)
(* allows.  A device that is named must be one of them.                    *)
ReadScope ==
    /\ inquiry.phase = "scope"
    /\ LET nodes == Committed.nodes
           leaves == {n \in DOMAIN nodes : nodes[n].leaf /\ nodes[n].device \in Authorized}
           devices == {nodes[n].device : n \in leaves}
           c == Head(inquiry.todo)
           named == c \in {"fleet_health", "cctv_fleet"} /\ inquiry.asked.device # ""
       IN  inquiry' =
             IF Declines(c, inquiry.asked.q) \/ (named /\ inquiry.asked.device \notin devices)
             THEN End([kind |-> "declined"])
             ELSE [inquiry EXCEPT !.phase = IF ReadsTree(c, inquiry.asked.q) THEN "paths" ELSE "snapshots",
                      !.scope = [leaves |-> leaves, devices |-> devices],
                      !.ids = IF named THEN {inquiry.asked.device} ELSE devices,
                      !.left = IF ~ReadsSnapshots(c) THEN {} ELSE IF named THEN {inquiry.asked.device} ELSE devices]
    /\ UNCHANGED world

(* The first statement: the ancestors of the leaves.                       *)
ReadPaths ==
    /\ inquiry.phase = "paths"
    /\ LET above == Committed.above IN
       inquiry' = [inquiry EXCEPT !.phase = "rows",
                      !.tree = [l \in inquiry.scope.leaves |-> IF l \in DOMAIN above THEN above[l] ELSE {}]]
    /\ UNCHANGED world

(* A buggy filter that takes the place of the caller's devices.            *)
NarrowToLoose(ids, tree, n) == ids

NarrowTo(ids, tree, n) == ids \cap device_ids_under(tree, n)

(* The second: the rows of both.  A named area narrows the devices; which  *)
(* of several that match, find_area leaves open.                           *)
ReadRows ==
    /\ inquiry.phase = "rows"
    /\ LET tree == load_scoped_tree(inquiry.tree, Committed.nodes, inquiry.scope.devices)
           read == [inquiry EXCEPT !.phase = "snapshots", !.tree = tree]
           areas == IF Head(inquiry.todo) = "fleet_health" THEN area_filter(tree, inquiry.asked.q) ELSE {}
       IN  \/ areas = {} /\ inquiry' = read
           \/ \E n \in areas :
                LET ids == NarrowTo(inquiry.ids, tree, n)
                IN  inquiry' = IF ids = {} THEN End([kind |-> "nothing below"])
                               ELSE [read EXCEPT !.area = {n}, !.ids = ids, !.left = ids]
    /\ UNCHANGED world

(* One command of the pipeline, which is no transaction, in some order of  *)
(* the devices.                                                            *)
ReadSnapshot ==
    /\ inquiry.phase = "snapshots" /\ inquiry.left # {}
    /\ LET d == CHOOSE d \in inquiry.left : TRUE
       IN  inquiry' = [inquiry EXCEPT !.left = @ \ {d},
                         !.states = IF d \in DOMAIN hashes THEN With([e \in {d} |-> View(hashes[d], d)], @) ELSE @]
    /\ UNCHANGED world

(* Redis fails: there are no states.                                       *)
FailSnapshots ==
    /\ inquiry.phase = "snapshots" /\ inquiry.left # {}
    /\ inquiry' = [inquiry EXCEPT !.left = {}, !.states = <<>>]
    /\ UNCHANGED world

Say(replies) ==
    \/ replies = {} /\ inquiry' = Start(inquiry.asked, Tail(inquiry.todo), inquiry.since)
    \/ \E data \in replies : inquiry' = [inquiry EXCEPT !.phase = "answered", !.answer = data]
Reply ==
    /\ inquiry.phase = "snapshots" /\ inquiry.left = {}
    /\ Say(Replies(inquiry, Head(inquiry.todo), inquiry.asked.q, Summary(inquiry.states, inquiry.ids)))
    /\ UNCHANGED world

(***************************************************************************)
(* The world.                                                              *)
(***************************************************************************)
Changing == changes < MaxChanges /\ changes' = changes + 1 /\ inquiry.phase \notin {"idle", "answered", "told"}

Reimport ==
    /\ Changing /\ version < Len(Hierarchies)
    /\ version' = version + 1
    /\ UNCHANGED <<hashes, inquiry>>

Resync(d) ==
    /\ Changing
    /\ \E h \in Hashes[d] : hashes' = With([e \in {d} |-> h], hashes)
    /\ UNCHANGED <<version, inquiry>>

Lapse(d) ==
    /\ Changing /\ d \in DOMAIN hashes
    /\ hashes' = [e \in DOMAIN hashes \ {d} |-> hashes[e]]
    /\ UNCHANGED <<version, inquiry>>

FleetNext ==
    \/ \E a \in Inquiries : Inquire(a)
    \/ ReadScope \/ ReadPaths \/ ReadRows
    \/ ReadSnapshot \/ FailSnapshots \/ Reply
    \/ Reimport
    \/ \E d \in DOMAIN Hashes : Resync(d) \/ Lapse(d)

(***************************************************************************)
(* Properties.                                                             *)
(***************************************************************************)
AnsweredBy(c) == inquiry.phase = "answered" /\ Head(inquiry.todo) = c

(* An answer about an area counts only devices of the caller whose branch  *)
(* was below that area at some time since the question was asked, and had  *)
(* the device at some time: the closure and the rows come from two         *)
(* statements, and an import between them may move the branch and give it  *)
(* another device.                                                         *)
NarrowedToArea ==
    AnsweredBy("fleet_health") => \A n \in inquiry.area, d \in inquiry.ids :
        /\ d \in inquiry.scope.devices
        /\ \E v, w \in inquiry.since .. version : \E l \in DOMAIN Hierarchies[v].above \cap DOMAIN Hierarchies[w].nodes :
              n \in Hierarchies[v].above[l] /\ Hierarchies[w].nodes[l].device = d

(* The figures of a zone or region are those of the devices below it in    *)
(* the tree that was read, though the rows are joined to the tree by name, *)
(* which a snapshot may spell otherwise: when the row of every device is   *)
(* called by the words of its leaf, and no two leaves by the same ones.    *)
JoinableByName(called, tree) ==
    LET device(l) == tree.nodes[l].device
        key(l) == BranchKey(tree.nodes[l].name)
    IN  /\ \A l \in Leaves(tree) : device(l) \in DOMAIN called => BranchKey(called[device(l)]) = key(l)
        /\ \A l, m \in Leaves(tree) : l # m => key(l) # key(m)
AreaTotalsExact ==
    AnsweredBy("area_ranking") /\ inquiry.ids = {inquiry.tree.nodes[l].device : l \in Leaves(inquiry.tree)} =>
        LET tree == inquiry.tree
            area_of == area_of_branch(tree, inquiry.asked.q)
            devices(a) == {tree.nodes[l].device : l \in {l \in Leaves(tree) :
                              tree.nodes[l].name \in DOMAIN area_of /\ area_of[tree.nodes[l].name] = a}}
            snaps == Each(inquiry.states, "snap")
            fleet == Each(inquiry.states, "cctv")
            reporting(a) == devices(a) \cap Reporting(fleet)
        IN  \A a \in DOMAIN inquiry.answer.rows :
              LET row == inquiry.answer.rows[a]
              IN  IF "total" \in DOMAIN row
                  THEN JoinableByName([d \in inquiry.ids |-> RowName(snaps, d)], tree) =>
                         /\ DOMAIN inquiry.answer.rows = {area_of[name] : name \in DOMAIN area_of}
                         /\ row.branches = Cardinality(devices(a))
                         /\ row.total = Total(devices(a), LAMBDA d : Cardinality(DOMAIN Modules(snaps, d)))
                         /\ row.offline = Total(devices(a), LAMBDA d :
                               Cardinality({c \in DOMAIN Modules(snaps, d) : Modules(snaps, d)[c] = OFFLINE}))
                  ELSE JoinableByName([d \in Reporting(fleet) |-> fleet[d].branch], tree) =>
                         /\ row.branches = Cardinality(reporting(a))
                         /\ row.not_recording = Sum(fleet, reporting(a), "not_recording")

(* The overview and the health report of the same snapshots tell the same  *)
(* story: every device of the scope is one gateway, and where the branches *)
(* have different names the report's rows add up to its totals.            *)
SameFleetSameNumbers ==
    AnsweredBy("fleet_health") =>
        LET summary == inquiry.answer.summary
            overview == GlobalOverview(inquiry.states, inquiry.ids)
            gateways == summary.categories["gateway"]
            rows == branch_rows(summary)
        IN  /\ gateways.healthy = overview.online /\ gateways.offline = overview.offline
            /\ gateways.faulty + gateways.unknown = overview.other + overview.no_data
            /\ Cardinality(DOMAIN rows) = Cardinality(inquiry.ids) =>
                  /\ FleetTotal(summary) = Total(DOMAIN rows, LAMBDA b : rows[b].total)
                  /\ FleetColumn(summary, "healthy") = Total(DOMAIN rows, LAMBDA b : rows[b].healthy)

=============================================================================
