--------------------------- MODULE DeviceAnswers ---------------------------
(***************************************************************************)
(* One device and the two ways its readings become answers: a question     *)
(* about it, which reads ThingsBoard live (MetricHandler and _load_raw in  *)
(* app/query/handlers.py) in three calls, and the fleet snapshot, which    *)
(* live sync fetches whole and encodes for Redis.  Device and ThingsBoard  *)
(* go on reporting meanwhile.                                              *)
(***************************************************************************)
EXTENDS DeviceReadings

CONSTANTS
    Values,         \* JSON values: what is reported, and all that is inside of it
    Reports,        \* what can be reported: [place, key, value], place a member of Places
    Intents,        \* the intents that are asked, <<name, subsystem or "">>
    MaxReports      \* bound

(* A JSON value is of one kind and made of JSON values, a list of finitely *)
(* many.  Nothing is reported as null.                                     *)
ASSUME ValueAssumption ==
    /\ None \in Values
    /\ \A r \in Reports : r.value \in Values \ {None}
    /\ \A v \in Values :
          /\ \E kind \in {"none", "text", "bool", "obj", "objText", "list", "listText"} : DOMAIN v = {kind}
          /\ \A k \in DOMAIN v \cap {"bool"} : v[k] \in BOOLEAN
          /\ \A k \in DOMAIN v \cap {"obj", "objText"} : \A j \in DOMAIN v[k] : v[k][j] \in Values
          /\ \A k \in DOMAIN v \cap {"list", "listText"} : v[k] \in Seq(Values)

VARIABLES
    tb,             \* ThingsBoard: place -> the fields it holds there
    cache,          \* Redis: the device's hash, empty when absent
    syncedAt,       \* the number of reports that the cache reflects
    reports,        \* reports so far
    ask             \* the one question being answered

deviceVars == <<tb, cache, syncedAt, reports, ask>>

Places == {"SERVER_SCOPE", "SHARED_SCOPE", "CLIENT_SCOPE", "series"}
Empty == [k \in {} |-> None]

(***************************************************************************)
(* key_profiles.py: what an intent asks the telemetry API for.             *)
(***************************************************************************)
BatteryFlags == {"statusbox_battery_low", "statusbox_battery_reverse", "system_status"}
SubsystemProfile ==
    {"ias", "bas_sts", "bas", "fas_sts", "fas", "timeLock_sts", "timeLock", "timeLockDoor", "timeLockHealth",
     "accessControl_sts", "accessControl", "accessControlDoor", "accessControlHealth"}
BasProfile == {"basSystemIntegration"}
RockProfile == {"rock"}

INTENT_KEYS ==
    [gateway_status |-> {"gateway_sts", "gateway", "statusbox_system_on", "statusbox_system_healthy", "system_status"},
     power_status |->
        {"gateway", "statusbox_mains_on", "battery_voltage", "ac_voltage", "system_current"} \cup BatteryFlags,
     battery_voltage |-> {"battery_voltage"},
     battery_health |-> {"battery_voltage"} \cup BatteryFlags,
     battery_low_status |-> BatteryFlags,
     ac_voltage |-> {"ac_voltage"},
     system_current |-> {"system_current"},
     network_status |-> {"statusbox_network", "system_status", "statusbox_sos_status", "statusbox_no_of_connected_device"},
     cctv_status |-> {"cctv", "cctv_sts", "cameraTamperCount", "cameraDisconnectCount"},
     cctv_hdd_error_status |-> {"hddStatus", "rock"},
     subsystem_status |-> SubsystemProfile,
     door_status |-> {"timeLockDoor", "accessControlDoor", "timeLock", "accessControl"},
     sos_status |-> {"statusbox_sos_status"},
     connected_devices |-> {"statusbox_no_of_connected_device", "system_status"},
     cctv_tamper_count |-> {"cameraTamperCount", "cameraDisconnectCount"},
     bas_panel_info |-> BasProfile, bas_power_status |-> BasProfile, bas_zone_info |-> BasProfile,
     cctv_hdd_info |-> RockProfile, cctv_device_info |-> RockProfile, cctv_recording_info |-> RockProfile,
     device_hardware |-> RockProfile, cctv_storage |-> RockProfile, cctv_camera_count |-> RockProfile,
     cctv_camera_info |-> RockProfile, cctv_sd_recording |-> RockProfile]

CctvIntents ==
    {"cctv_status", "cctv_hdd_error_status", "cctv_hdd_info", "cctv_device_info", "cctv_recording_info",
     "cctv_storage", "cctv_camera_count", "cctv_camera_info", "cctv_sd_recording", "cctv_tamper_count"}
Wanted(name) ==
    INTENT_KEYS[name] \cup LADDER_KEYS \cup (IF name \in CctvIntents THEN CCTV_KEYS ELSE {})

(* What is inside of some named values: its place, name and value.         *)
Parts(fields) == UNION {UNION {{<<f[1], j, c[j]>> : j \in DOMAIN c} : c \in AsContainer(f[2])} : f \in fields}
Under(fields) == {<<Path(p[1], p[2]), p[3]>> : p \in Parts(fields)}

(* No name in the fleet has a dot in it (flatten.py:13), so a path tells   *)
(* what it is made of and is not itself a name; and what is reported nests *)
(* no deeper than paths go, three levels (flatten.py:29).                  *)
ASSUME PathAssumption ==
    LET fields == {<<r.key, r.value>> : r \in Reports}
        names == {r.key : r \in Reports} \cup UNION {Wanted(i[1]) : i \in Intents}
        parts == Parts(fields) \cup Parts(Under(fields)) \cup Parts(Under(Under(fields)))
    IN  /\ \A p, q \in parts : Path(p[1], p[2]) = Path(q[1], q[2]) => p[1] = q[1] /\ p[2] = q[2]
        /\ \A p \in parts : Path(p[1], p[2]) \notin names
        /\ Parts(Under(Under(Under(fields)))) = {}
ASSUME IntentAssumption == \A i \in Intents : i[1] \in DOMAIN INTENT_KEYS

(***************************************************************************)
(* handlers._format_metric: the data an answer carries.                    *)
(***************************************************************************)
format_subsystem(snap, s) ==
    IF s \in Subsystems
    THEN [state |-> snap.subsystems[s].state, fault |-> resolve_subsystem_fault(snap.raw_data, s),
          alarm |-> resolve_subsystem_alarm(snap.raw_data, s)]
    ELSE [t \in Subsystems |-> snap.subsystems[t].state]

(* A buggy answer that takes any count of cameras for evidence.            *)
cctv_status_plain(snap) ==
    [cctv_state |-> snap.cctv.state, cameras |-> snap.cctv.cameras, status_contradicts_cameras |-> FALSE]

(* Cameras online outrank a status that says there are none.               *)
cctv_status(snap) ==
    LET online == {c.online : c \in snap.cctv.cameras}
    IN  [cctv_state |-> snap.cctv.state, cameras |-> snap.cctv.cameras,
         status_contradicts_cameras |-> /\ \E n \in online : n > 0
                                        /\ snap.cctv.state \in {NOT_INSTALLED, UNKNOWN}]
hdd_error(raw) ==
    LET flag == resolve_boolean(raw, <<"HDD ERROR", "ticketStatus_HDD_ERROR", "cameraStatus_HDD ERROR">>)
    IN  IF flag = {} /\ first_non_blank(raw, <<"hddStatus">>) = {"healthy"} THEN {FALSE} ELSE flag

format_metric(name, s, snap) ==
    LET raw == snap.raw_data
        p == snap.power
    IN CASE name = "gateway_status" -> snap.gateway.state
         [] name = "battery_voltage" -> <<p.battery_voltage, p.battery_low>>
         [] name = "battery_health" -> <<resolve_battery_status(raw), p.battery_voltage>>
         [] name = "battery_low_status" -> <<resolve_battery_status(raw), p.battery_low>>
         [] name = "ac_voltage" -> p.ac_voltage
         [] name = "system_current" -> p.system_current
         [] name = "power_status" -> <<p.battery_voltage, p.ac_voltage, p.mains_on, p.battery_low>>
         [] name = "cctv_status" -> cctv_status(snap)
         [] name = "cctv_hdd_error_status" -> hdd_error(raw)
         [] name = "cctv_hdd_info" -> hdd_info(raw)
         [] name = "cctv_device_info" -> device_info(raw)
         [] name = "cctv_recording_info" -> recording_summary(raw)
         [] name = "device_hardware" -> snap.hardware
         [] name = "network_status" -> network_operator(raw)
         [] name = "sos_status" -> sos_status(raw)
         [] name = "connected_devices" -> connected_devices(raw)
         [] name = "door_status" -> door_status(raw)
         [] name = "cctv_storage" -> <<hdd_total_capacity(raw), hdd_free_space(raw)>>
         [] name = "cctv_camera_count" -> camera_count(raw)
         [] name = "cctv_camera_info" -> camera_rows(raw)
         [] name = "cctv_sd_recording" -> sd_recording_rows(raw)
         [] name = "cctv_tamper_count" ->
                <<count_like(Get(raw, "cameraTamperCount")), count_like(Get(raw, "cameraDisconnectCount"))>>
         [] name = "bas_panel_info" -> <<bas_panel(raw), bas_device(raw)>>
         [] name = "bas_power_status" -> bas_power(raw)
         [] name = "bas_zone_info" -> bas_zones(raw)
         [] name = "subsystem_status" -> format_subsystem(snap, s)

Answer(intent, raw) == format_metric(intent[1], intent[2], build_snapshot(raw))

(***************************************************************************)
(* The live path.                                                          *)
(***************************************************************************)
Idle == [phase |-> "idle"]

(* The first call is for the server attributes.                            *)
AskDevice(intent) ==
    /\ ask.phase = "idle"
    /\ ask' = [phase |-> "client", intent |-> intent, raw |-> tb["SERVER_SCOPE"], began |-> reports]
    /\ UNCHANGED <<tb, cache, syncedAt, reports>>

ReadClient ==
    /\ ask.phase = "client"
    /\ ask' = [ask EXCEPT !.phase = "series", !.raw = With(tb["CLIENT_SCOPE"], ask.raw)]
    /\ UNCHANGED <<tb, cache, syncedAt, reports>>

(* A buggy overlay in which telemetry always wins.                         *)
OverlayAll(series, raw) == series @@ raw

(* ThingsBoard answers for every key asked for, with a null where it has   *)
(* no series; a null does not erase an attribute.                          *)
Series(wanted) == [k \in wanted |-> Get(tb["series"], k)]
Overlay(series, raw) ==
    [k \in DOMAIN series \cup DOMAIN raw |->
        IF k \notin DOMAIN series \/ (series[k] = None /\ Get(raw, k) # None) THEN raw[k] ELSE series[k]]
ReadSeries ==
    /\ ask.phase = "series"
    /\ ask' = LET raw == expand_containers(Overlay(Series(Wanted(ask.intent[1])), ask.raw))
              IN  [phase |-> "answered", intent |-> ask.intent, raw |-> raw, began |-> ask.began,
                   answer |-> Answer(ask.intent, raw)]
    /\ UNCHANGED <<tb, cache, syncedAt, reports>>

(* A rejected token or an unreachable ThingsBoard becomes a text.          *)
CallFails ==
    /\ ask.phase \in {"client", "series"}
    /\ ask' = [phase |-> "failed"]
    /\ UNCHANGED <<tb, cache, syncedAt, reports>>

(***************************************************************************)
(* The snapshot path.                                                      *)
(***************************************************************************)
(* What is not a string goes to Redis as its JSON text.                    *)
encode(v) ==
    IF v = None THEN Text("null")
    ELSE IF "bool" \in DOMAIN v THEN Text(StrOf(v))
    ELSE IF "obj" \in DOMAIN v THEN ObjText(v.obj)
    ELSE IF "list" \in DOMAIN v THEN ListText(v.list)
    ELSE v
fetch_device_fields ==
    With(tb["series"], With(tb["CLIENT_SCOPE"], With(tb["SHARED_SCOPE"], tb["SERVER_SCOPE"])))

SyncDevice ==
    /\ fetch_device_fields # Empty
    /\ cache' = [k \in DOMAIN fetch_device_fields |-> encode(fetch_device_fields[k])]
    /\ syncedAt' = reports
    /\ UNCHANGED <<tb, reports, ask>>

(* Live sync has stopped for fifteen minutes.                              *)
SnapshotExpires ==
    /\ cache # Empty
    /\ cache' = Empty
    /\ syncedAt' = 0
    /\ UNCHANGED <<tb, reports, ask>>

(* The device, or an administrator, sets a field.  A series is never null, *)
(* nor is an attribute.                                                    *)
ReportField(r) ==
    /\ reports < MaxReports
    /\ reports' = reports + 1
    /\ tb' = [tb EXCEPT ![r.place] = With([k \in {r.key} |-> r.value], @)]
    /\ UNCHANGED <<cache, syncedAt, ask>>

DeviceInit ==
    /\ tb = [p \in Places |-> Empty]
    /\ cache = Empty
    /\ syncedAt = 0
    /\ reports = 0
    /\ ask = Idle

DeviceNext ==
    \/ \E i \in Intents : AskDevice(i)
    \/ ReadClient
    \/ ReadSeries
    \/ CallFails
    \/ SyncDevice
    \/ SnapshotExpires
    \/ \E r \in Reports : ReportField(r)

(***************************************************************************)
(* Properties.                                                             *)
(***************************************************************************)
Answered == ask.phase = "answered"
Undisturbed == Answered /\ ask.began = reports

(* _number takes a boolean for a number and the text of one for none, and  *)
(* _count_like a list for unknown and the text of one for none.            *)
CountIntents == {"cctv_tamper_count", "connected_devices"}
CountFields == {"cameraTamperCount", "cameraDisconnectCount"}
ConnectedFields == {"statusbox_no_of_connected_device", "system_status.statusbox_no_of_connected_device"}

(* A question answered from ThingsBoard's three calls gets the answer that *)
(* the fleet snapshot of the same readings would give, text of JSON and    *)
(* nulls of unknown series included.  (_load_raw reads no shared attribute *)
(* and only the series its intent names, where live sync reads them all;   *)
(* and a count depends on whether it is a boolean or the text of one.)     *)
ReadsApart(k, v) ==
    \/ "bool" \in DOMAIN v /\ k \in CountFields \cup ConnectedFields
    \/ "list" \in DOMAIN v /\ k \in CountFields
LiveMatchesFleet ==
    /\ Undisturbed /\ syncedAt = reports /\ cache # Empty
    /\ ask.intent[1] \in CountIntents => \A k \in DOMAIN fetch_device_fields : ~ReadsApart(k, fetch_device_fields[k])
    /\ tb["SHARED_SCOPE"] = Empty /\ DOMAIN tb["series"] \subseteq Wanted(ask.intent[1])
    => ask.answer = Answer(ask.intent, cache)

About(name) == Answered /\ ask.intent[1] = name

(* However the vendors' lists, inputs and counts disagree, the CCTV answer *)
(* has no more cameras online than there are, nor fewer than none; and it  *)
(* does not contradict the subsystem overview of the same readings unless  *)
(* it says that its status and its cameras do, or the gateway is offline   *)
(* and the status missing.                                                 *)
Consistent(answer, snap) ==
    \/ answer.cctv_state = format_subsystem(snap, "")["cctv"]
    \/ answer.status_contradicts_cameras
    \/ snap.gateway.state = OFFLINE /\ answer.cctv_state = UNKNOWN
OneCctvStory ==
    About("cctv_status") =>
        /\ \A c \in ask.answer.cameras : 0 <= c.online /\ c.online <= c.total
        /\ Consistent(ask.answer, build_snapshot(ask.raw))

=============================================================================
