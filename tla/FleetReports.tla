---------------------------- MODULE FleetReports ----------------------------
(***************************************************************************)
(* What is said of the whole fleet from the snapshots of its devices:      *)
(* app/query/fleet_health.py, cctv_fleet.py and uptime.py.  Pure           *)
(* operators.  snaps and states map the devices that have a snapshot to it *)
(* and to its raw fields; percentages are in tenths; what is sorted by     *)
(* name only to break a tie is a set of leaders.                           *)
(***************************************************************************)
EXTENDS DeviceReadings, ScopedTree

(* Numbers summed over a set.                                              *)
Total(S, Value(_)) == MapThenSumSet(Value, S)

(***************************************************************************)
(* fleet_health.py                                                         *)
(***************************************************************************)
Categories == {"gateway"} \cup Subsystems
CategoryColumns == {"healthy", "faulty", "offline", "unknown"}
ColumnOf(state) ==
    CASE state = ONLINE -> "healthy" [] state = FAULT -> "faulty" [] state = OFFLINE -> "offline"
      [] OTHER -> "unknown"

(* A buggy expansion that leaves out a branch without a snapshot.          *)
ModulesPresent(snaps, d) ==
    IF d \notin DOMAIN snaps THEN <<>>
    ELSE [c \in {"gateway"} \cup {s \in Subsystems : snaps[d].subsystems[s].installed} |->
             IF c = "gateway" THEN snaps[d].gateway.state ELSE snaps[d].subsystems[c].state]

(* The deployed modules of a branch and their states: a branch without a   *)
(* snapshot is a gateway in an unknown state.                              *)
Modules(snaps, d) ==
    IF d \notin DOMAIN snaps THEN [c \in {"gateway"} |-> UNKNOWN]
    ELSE [c \in {"gateway"} \cup {s \in Subsystems : snaps[d].subsystems[s].installed} |->
             IF c = "gateway" THEN snaps[d].gateway.state ELSE snaps[d].subsystems[c].state]

NameOf(snap, d) == OrElse(snap.identity.branch_name, OrElse(snap.identity.technical_id, d))
RowName(snaps, d) == IF d \in DOMAIN snaps THEN NameOf(snaps[d], d) ELSE d

(* Categories count devices; a branch row of the same name is overwritten. *)
aggregate_fleet_health(snaps, ids) ==
    LET states == [d \in SeqSet(ids) |-> Modules(snaps, d)]
        held(c, column) == {d \in SeqSet(ids) : c \in DOMAIN states[d] /\ ColumnOf(states[d][c]) = column}
        last(name) == ids[Max({i \in DOMAIN ids : RowName(snaps, ids[i]) = name})]
    IN  [categories |-> [c \in Categories |-> [k \in CategoryColumns |-> Cardinality(held(c, k))]],
         branches |-> [name \in {RowName(snaps, d) : d \in SeqSet(ids)} |-> states[last(name)]],
         open_alerts |-> Total(SeqSet(ids) \cap DOMAIN snaps, LAMBDA d : Max({0, snaps[d].alerts.alarm_count}))]

CategoryTotal(item) == Total(CategoryColumns, LAMBDA k : item[k])
FleetColumn(summary, k) == Total(Categories, LAMBDA c : summary.categories[c][k])
FleetTotal(summary) == Total(CategoryColumns, LAMBDA k : FleetColumn(summary, k))

CategoryWords ==
    <<<<"gateway", {<<"gateway">>}>>,
      <<"cctv", {<<"cctv">>, <<"camera">>, <<"cameras">>}>>,
      <<"ias", {<<"integrated", "alarm">>, <<"ias">>}>>,
      <<"bas", {<<"burglar">>, <<"intrusion">>, <<"bas">>}>>,
      <<"fas", {<<"fire", "alarm">>, <<"fas">>}>>,
      <<"timeLock", {<<"time", "lock">>, <<"tls">>}>>,
      <<"accessControl", {<<"access", "control">>, <<"acs">>}>>>>
normalize_category(subsystem, q) ==
    FirstFound(Len(CategoryWords), LAMBDA i :
        IF subsystem = CategoryWords[i][1] \/ Mentions(q, CategoryWords[i][2])
        THEN {CategoryWords[i][1]} ELSE {})

AsksForListing(q) ==
    /\ Says(q, {"device", "devices"})
    /\ Says(q, {"show", "list", "which", "what"})
category_listing(summary, q) ==
    {[kind |-> "category listing", category |-> c,
      rows |-> {<<b, summary.branches[b][c]>> : b \in {b \in DOMAIN summary.branches : c \in DOMAIN summary.branches[b]}}] :
        c \in IF AsksForListing(q) THEN normalize_category("", q) ELSE {}}

HowMany(q) == Phrase(q, <<"how", "many">>)
FaultWords == {"fault", "faults", "faulty"}
format_category(item, c, q) ==
    LET total == CategoryTotal(item)
        shown(kind, n) == [kind |-> kind, category |-> c, count |-> n, total |-> total]
    IN  IF Says(q, {"deployed"}) \/ (c = "accessControl" /\ total = 0) THEN shown("deployed", total)
        ELSE IF total = 0 THEN shown("none deployed", 0)
        ELSE IF HowMany(q) /\ Says(q, {"offline"}) THEN shown("offline", item.offline)
        ELSE IF HowMany(q) /\ Says(q, FaultWords) THEN shown("faulty", item.faulty)
        ELSE [kind |-> IF item.healthy = total THEN "healthy"
                       ELSE IF 2 * item.healthy >= total THEN "mostly healthy" ELSE "unhealthy",
              category |-> c, count |-> item, total |-> total]

WantedStates(q) ==
    (IF Says(q, FaultWords \cup {"error", "unhealthy"}) \/ Phrase(q, <<"not", "functioning">>) THEN {FAULT} ELSE {})
    \cup (IF Says(q, {"offline", "down"}) THEN {OFFLINE} ELSE {})

format_fleet_health(summary, q, subsystem) ==
    LET category == normalize_category(subsystem, q)
        item(c) == summary.categories[c]
        deployed == {c \in Categories : CategoryTotal(item(c)) > 0}
        share(c, d) == item(c).healthy * CategoryTotal(item(d))
        issues(k) == {<<c, item(c)[k]>> : c \in {c \in deployed : item(c)[k] > 0}}
        most(k) == Max({item(c)[k] : c \in deployed} \cup {0})
        hits(b) == {c \in DOMAIN summary.branches[b] : summary.branches[b][c] \in WantedStates(q)}
    IN  IF category # {} THEN LET c == OrElse(category, "") IN format_category(item(c), c, q)
        ELSE IF Phrase(q, <<"most", "faulty">>)
          THEN [kind |-> "most faulty", leaders |-> {h \in issues("faulty") : h[2] = most("faulty")}]
        ELSE IF Phrase(q, <<"most", "offline">>) THEN [kind |-> "most offline", leaders |-> issues("offline")]
        ELSE IF Phrase(q, <<"lowest", "health">>)
          THEN [kind |-> "lowest health", leaders |-> {c \in deployed : \A d \in deployed : share(c, d) <= share(d, c)}]
        ELSE IF WantedStates(q) # {} /\ Says(q, {"which", "list", "show", "name", "any"})
          THEN [kind |-> "branches", hits |-> {<<b, hits(b)>> : b \in {b \in DOMAIN summary.branches : hits(b) # {}}}]
        ELSE IF Says(q, {"distribution"}) \/ Phrase(q, <<"across", "all", "device", "categories">>) THEN [kind |-> "distribution", categories |-> summary.categories]
        ELSE IF Says(q, {"attention", "broken", "wrong", "issue", "issues", "problem", "problems"})
          THEN [kind |-> "issues", faulty |-> issues("faulty"), offline |-> issues("offline"), alerts |-> summary.open_alerts]
        ELSE [kind |-> "summary", branches |-> Cardinality(DOMAIN summary.branches), total |-> FleetTotal(summary),
              counts |-> [k \in CategoryColumns |-> FleetColumn(summary, k)], alerts |-> summary.open_alerts]

branch_rows(summary) ==
    [b \in DOMAIN summary.branches |->
        LET modules == summary.branches[b]
            having(state) == Cardinality({c \in DOMAIN modules : modules[c] = state})
            total == Cardinality(DOMAIN modules)
        IN  [total |-> total, healthy |-> having(ONLINE), offline |-> having(OFFLINE), faulty |-> having(FAULT),
             health_pct |-> IF total = 0 THEN 0 ELSE Permille(having(ONLINE), total)]]

(* Only of the metrics this module holds.                                  *)
rank_branches(summary, q) ==
    LET known == LET rows == branch_rows(summary) IN [b \in {b \in DOMAIN rows : rows[b].total > 0} |-> rows[b]]
        column == IF Says(q, {"offline", "down"}) THEN "offline"
                  ELSE IF Says(q, FaultWords \cup {"problem", "problems"}) THEN "faulty" ELSE "health_pct"
    IN  IF \/ ~Says(q, BranchWords \cup {"device", "devices", "site", "sites"})
           \/ Says(q, {"alarm", "alarms", "incident", "incidents", "user", "users", "camera", "cameras",
                       "channel", "channels"})
           \/ DOMAIN known = {}
        THEN {}
        ELSE {[kind |-> "branch ranking", column |-> column, descending |-> d, rows |-> known,
               leaders |-> Leaders(known, column, d)] : d \in Descending(q, column # "health_pct")}

(***************************************************************************)
(* cctv_fleet.py                                                           *)
(***************************************************************************)
MAX_CREDIBLE_NVR_TB == 500

Stated(raw, keys) == Keyed(raw, keys, LAMBDA v : IF v = None \/ StrOf(v) = "" THEN {} ELSE {StrOf(v)})
branch_name_of(raw, d) ==
    OrElse(Stated(raw, <<"branch_name", "branchName", "formattedBranchName", "deviceName">>), d)

(* Cameras without a single recording row are channels without footage.    *)
ChannelCounts(cameras, summary) ==
    IF summary = {} THEN [total |-> cameras, not_recording |-> cameras, compliant |-> 0]
    ELSE LET s == OrElse(summary, 0)
         IN  [total |-> s.total, not_recording |-> Cardinality(s.zero_channels), compliant |-> s.compliant]

Recorder(name, info, cameras, summary, counts, slots) ==
    LET free == {i \in DOMAIN slots : slots[i].free_tb \in DOMAIN Decimal}
    IN  [branch |-> name, model |-> info.model, vendor |-> info.vendor, storage_tb |-> info.storage_tb,
         cameras_configured |-> cameras, total_channels |-> counts.total, not_recording |-> counts.not_recording,
         recording |-> counts.total - counts.not_recording, compliant |-> counts.compliant,
         zero_channels |-> UNION {s.zero_channels : s \in summary},
         available |-> summary # {} \/ cameras > 0 \/ \E k \in DOMAIN info : info[k] # {},
         hdd_error_slots |-> Cardinality({i \in DOMAIN slots : slots[i].status = "error"}),
         free_tb |-> Total(free, LAMBDA i : Decimal[slots[i].free_tb])]
Summarised(name, info, cameras, summary, slots) ==
    Recorder(name, info, cameras, summary, ChannelCounts(cameras, summary), slots)
summarise_branch(raw, d) ==
    Summarised(branch_name_of(raw, d), device_info(raw), camera_count(raw), recording_summary(raw), hdd_info(raw))
Reporting(fleet) == {d \in DOMAIN fleet : fleet[d].available}
Sum(fleet, S, k) == Total(S, LAMBDA d : fleet[d][k])
Silent(fleet) == Cardinality(DOMAIN fleet \ Reporting(fleet))

RecordingColumns == {"cameras_configured", "total_channels", "recording", "not_recording", "compliant"}
branch_recording_rows(fleet) ==
    [d \in Reporting(fleet) |-> [branch |-> fleet[d].branch, counts |-> [k \in RecordingColumns |-> fleet[d][k]]]]

CctvColumns ==
    <<<<{<<"not", "recording">>, <<"without", "footage">>, <<"zero", "days">>, <<"zero", "footage">>}, "not_recording">>,
      <<{<<"non-compliant">>}, "not_recording">>, <<{<<"compliant">>}, "compliant">>,
      <<{<<"recording">>}, "recording">>, <<{<<"channel">>, <<"channels">>}, "total_channels">>,
      <<{<<"camera">>, <<"cameras">>}, "cameras_configured">>>>
rank_cctv_branches(fleet, q) ==
    LET most == Says(q, MaxWords)
        column == FirstFound(Len(CctvColumns), LAMBDA i :
                      IF Mentions(q, CctvColumns[i][1]) THEN {CctvColumns[i][2]} ELSE {})
        candidates(k) == {d \in Reporting(fleet) : fleet[d][k] > 0 \/ ~most}
        known(k) == [d \in candidates(k) |-> [c \in RecordingColumns |-> fleet[d][c]]]
    IN  IF ~Says(q, {"branch"}) \/ most = Says(q, MinWords) THEN {}
        ELSE {[kind |-> "cctv ranking", column |-> k, rows |-> known(k), leaders |-> Leaders(known(k), k, most),
               silent |-> Silent(fleet)] : k \in {k \in column : candidates(k) # {}}}

format_cctv_fleet(fleet, q) ==
    LET all == DOMAIN fleet
        reporting == Reporting(fleet)
        credible == {d \in all : \E tb \in fleet[d].storage_tb : 0 < tb /\ tb <= MAX_CREDIBLE_NVR_TB}
        offenders == {d \in reporting : fleet[d].not_recording > 0}
        figures == [k \in RecordingColumns |-> Sum(fleet, reporting, k)]
        listed(S) == {<<fleet[d].branch, fleet[d].not_recording, fleet[d].zero_channels>> : d \in S}
    IN  IF reporting = {} /\ Sum(fleet, all, "cameras_configured") = 0 THEN [kind |-> "nothing recorded"]
        ELSE IF Says(q, {"storage", "consumption"})
          THEN [kind |-> "storage", branches |-> Cardinality(credible), free |-> Sum(fleet, credible, "free_tb"),
                capacity |-> Total(credible, LAMBDA d : OrElse(fleet[d].storage_tb, 0)),
                rejected |-> {fleet[d].branch : d \in {d \in all : \E tb \in fleet[d].storage_tb : tb > MAX_CREDIBLE_NVR_TB}},
                silent |-> Silent(fleet)]
        ELSE IF Says(q, {"model", "models", "inventory", "vendor", "make"})
          THEN [kind |-> "models", cameras |-> Sum(fleet, all, "cameras_configured"),
                models |-> {<<m, Cardinality({d \in all : <<fleet[d].vendor, fleet[d].model>> = m})>> :
                               m \in {<<fleet[d].vendor, fleet[d].model>> : d \in all}}]
        ELSE IF Phrase(q, <<"most", "cameras">>) /\ Mentions(q, {<<"not", "recording">>, <<"no", "recording">>})
          THEN [kind |-> "most not recording", silent |-> Silent(fleet),
                leaders |-> listed({d \in offenders : \A e \in offenders : fleet[e].not_recording <= fleet[d].not_recording})]
        ELSE IF Says(q, {"gap", "gaps", "failure", "failures"}) \/ Phrase(q, <<"not", "recording">>)
          THEN [kind |-> "failures", offenders |-> listed(offenders), total |-> figures.total_channels,
                not_recording |-> figures.not_recording, silent |-> Silent(fleet)]
        ELSE IF Says(q, {"percentage", "health", "compliance", "compliant"})
          THEN [kind |-> "compliance", figures |-> figures, silent |-> Silent(fleet)]
        ELSE IF Says(q, {"which"}) /\ Says(q, {"recording", "camera", "cameras"})
          THEN [kind |-> "recording", branches |-> {fleet[d].branch : d \in {d \in reporting : fleet[d].recording > 0}}]
        ELSE IF HowMany(q) \/ Says(q, {"deployed", "count"})
          THEN [kind |-> "cameras", configured |-> Sum(fleet, all, "cameras_configured"),
                channels |-> figures.total_channels]
        ELSE [kind |-> "recording health", figures |-> figures, silent |-> Silent(fleet)]

(***************************************************************************)
(* uptime.py: months under a wrapper or not, in three attributes.          *)
(***************************************************************************)
Months == <<"2026-06", "2026-07", "2026-08">>
Latest(S) == Months[Max({i \in DOMAIN Months : Months[i] \in S})]
Mapping(v) == IF "obj" \in DOMAIN v THEN {v.obj} ELSE {}
months_of(node) ==
    OrElse(Mapping(Get(node, "monthly")), [k \in DOMAIN node \cap SeqSet(Months) |-> node[k]])
minutes(values, key) == NumberIn(Get(values, key), Decimal)

(* The readings of an attribute: [group, name, month, values].             *)
Members(f) == UNION {{<<k, o>> : o \in Mapping(f[k])} : k \in DOMAIN f}
MonthlyReadings(raw, key) ==
    UNION {UNION {UNION {
        {[group |-> g[1], name |-> n[1], month |-> m[1], values |-> m[2]] : m \in Members(months_of(n[2]))} :
            n \in Members(g[2])} : g \in Members(top)} : top \in AsContainer(Get(raw, key))}
parse_uptime(raw) ==
    UNION {{[subsystem |-> r.group, name |-> r.name, month |-> r.month, up |-> up, down |-> down] :
                up \in minutes(r.values, "month_duration"), down \in minutes(r.values, "downtime_minutes")} :
            r \in MonthlyReadings(raw, "mainDevicesOnTimeData")}
parse_faults(raw, key) ==
    UNION {{[group |-> r.group, name |-> r.name, month |-> r.month, duration |-> n] : n \in minutes(r.values, "month_duration")} :
            r \in MonthlyReadings(raw, key)}

ReportName(raw) == OrElse(Stated(raw, <<"branchName", "deviceName", "sol_id">>), "")
device_report(raw) ==
    [name |-> ReportName(raw), uptime |-> parse_uptime(raw), device |-> parse_faults(raw, "mainDevicesFaultData"),
     cctv |-> parse_faults(raw, "mainCCTVFaultData")]
build_report(reports) ==
    LET rows(k) == UNION {{<<d, r>> : r \in reports[d][k]} : d \in DOMAIN reports}
    IN  [uptime |-> rows("uptime"), device |-> rows("device"), cctv |-> rows("cctv"),
         branch |-> [d \in DOMAIN reports |-> reports[d].name]]
Coverage(report, rows) == <<Cardinality({r[1] : r \in rows}), Cardinality(DOMAIN report.branch)>>

ASKS_UPTIME(q) == Says(q, {"uptime", "downtime", "availability", "on-time", "ontime"})
ASKS_FAULT_HISTORY(q) ==
    \/ \E w \in {"history", "score", "duration", "record", "data"} : Phrase(q, <<"fault", w>>)
    \/ Phrase(q, <<"how", "long">>) /\ Says(q, FaultWords)

UptimePct(r) == IF r[2].up + r[2].down = 0 THEN 1010 ELSE Permille(r[2].up, r[2].up + r[2].down)
Current(rows) == LET latest == Latest({r[2].month : r \in rows}) IN {r \in rows : r[2].month = latest}
(* The subsystem a question names, the longest name of several.            *)
OfSubsystem(rows, q) ==
    LET named == {s \in {r[2].subsystem : r \in rows} : s \in DOMAIN Words /\ Phrase(q, Words[s])}
    IN  IF named = {} THEN rows
        ELSE {r \in rows : r[2].subsystem = CHOOSE s \in named : \A u \in named : Len(u) <= Len(s)}
UptimeOf(report, rows) ==
    LET up == Total(rows, LAMBDA r : r[2].up)
        lowest == {r \in rows : \A o \in rows : UptimePct(r) <= UptimePct(o)}
    IN  [kind |-> "uptime", month |-> {r[2].month : r \in rows}, up |-> up,
         whole |-> up + Total(rows, LAMBDA r : r[2].down), branches |-> {report.branch[r[1]] : r \in rows} \ {""},
         lowest |-> {<<report.branch[r[1]], UptimePct(r)>> : r \in {r \in lowest : UptimePct(r) <= 1000}},
         coverage |-> Coverage(report, report.uptime)]
format_uptime_answer(report, q) ==
    IF report.uptime = {} THEN [kind |-> "no uptime"] ELSE UptimeOf(report, OfSubsystem(Current(report.uptime), q))

FaultsOf(rows, report, coverage) ==
    [kind |-> "fault history", month |-> {r[2].month : r \in rows}, total |-> Total(rows, LAMBDA r : r[2].duration),
     longest |-> {<<report.branch[r[1]], r[2]>> : r \in {r \in rows : \A o \in rows : o[2].duration <= r[2].duration}},
     coverage |-> coverage]
format_fault_answer(report, q) ==
    LET rows == IF Says(q, {"cctv", "camera", "channel"}) THEN report.cctv ELSE report.device
    IN  IF rows = {} THEN [kind |-> "no fault history"] ELSE FaultsOf(Current(rows), report, Coverage(report, rows))

=============================================================================
