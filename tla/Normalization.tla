--------------------------- MODULE Normalization ---------------------------
(***************************************************************************)
(* How one device's raw fields become the BranchSnapshot every answer is   *)
(* built from: app/normalization/values.py, flatten.py, resolver.py and    *)
(* snapshot.py.  Pure operators; DeviceAnswers and FleetAnswers use them.  *)
(*                                                                         *)
(* A raw field is Python's None, a boolean, another scalar (given by its   *)
(* text, trimmed and in lower case: every reader compares it so), an       *)
(* object, a list, or the text of an object or list, which is what the     *)
(* Redis snapshot holds.                                                   *)
(* What a reader may fail to find is a set with at most one member.        *)
(***************************************************************************)
EXTENDS Integers, Sequences, FiniteSets, FiniteSetsExt, TLC

None == [none |-> TRUE]
Text(t) == [text |-> t]
Bool(b) == [bool |-> b]
Obj(f) == [obj |-> f]
List(s) == [list |-> s]
ObjText(f) == [objText |-> f]
ListText(s) == [listText |-> s]

Get(raw, k) == IF k \in DOMAIN raw THEN raw[k] ELSE None
StrOf(v) ==
    IF "text" \in DOMAIN v THEN v.text
    ELSE IF "bool" \in DOMAIN v THEN (IF v.bool THEN "true" ELSE "false")
    ELSE IF v = None THEN "none" ELSE "{...}"

(* The first of n readings that finds something.                           *)
FirstOf(s) == LET found == {i \in DOMAIN s : s[i] # {}} IN IF found = {} THEN {} ELSE s[Min(found)]
FirstFound(n, Reading(_)) == FirstOf([i \in 1..n |-> Reading(i)])
Keyed(raw, keys, Reader(_)) == FirstFound(Len(keys), LAMBDA i : Reader(Get(raw, keys[i])))
(* What f says, and what g says beside it.                                 *)
With(f, g) == [k \in DOMAIN f \cup DOMAIN g |-> IF k \in DOMAIN f THEN f[k] ELSE g[k]]
OrElse(opt, default) == IF opt = {} THEN default ELSE CHOOSE x \in opt : TRUE

(***************************************************************************)
(* values.py                                                               *)
(***************************************************************************)
ONLINE == "ONLINE"
OFFLINE == "OFFLINE"
FAULT == "FAULT"
NOT_INSTALLED == "NOT_INSTALLED"
UNKNOWN == "UNKNOWN"

NullOrCorrupt == {"", "null", "not_found", "not found"}
NoNumber == NullOrCorrupt \cup {"n/a", "na", "-"}

to_state(v) ==
    LET t == StrOf(v) IN
    IF t \in {"online", "on", "healthy", "active", "true", "1", "yes", "clear", "normal"} THEN ONLINE
    ELSE IF t \in {"offline", "off", "inactive", "false", "0", "disconnected"} THEN OFFLINE
    ELSE IF t \in {"fault", "alarm", "error", "tamper", "triggered", "critical"} THEN FAULT
    ELSE IF t \in {"n/a", "na", "not installed", "-"} THEN NOT_INSTALLED
    ELSE UNKNOWN

to_bool(v) ==
    LET t == StrOf(v) IN
    IF t \in {"true", "1", "yes", "on", "healthy", "online"} THEN {TRUE}
    ELSE IF t \in {"false", "0", "no", "off", "offline", "fault", "inactive"} THEN {FALSE}
    ELSE {}

(* The numbers that occur, by their text; int() refuses a decimal point.   *)
Whole ==
    [t \in {"0", "1", "2", "13", "90", "120", "9000"} |->
        CASE t = "0" -> 0 [] t = "1" -> 1 [] t = "2" -> 2 [] t = "13" -> 13 [] t = "90" -> 90 [] t = "120" -> 120
          [] t = "9000" -> 9000]
Decimal == With(Whole, [t \in {"3.0"} |-> 3])
(* int() and float() of a value that is not made a text first: a boolean   *)
(* is a number.                                                            *)
NumberIn(v, numbers) ==
    IF "bool" \in DOMAIN v THEN {IF v.bool THEN 1 ELSE 0}
    ELSE IF StrOf(v) \in DOMAIN numbers THEN {numbers[StrOf(v)]} ELSE {}

to_double(v) == LET t == StrOf(v) IN IF t \in DOMAIN Decimal \ NoNumber THEN {Decimal[t]} ELSE {}
to_int(v, fallback) == LET t == StrOf(v) IN IF t \in DOMAIN Whole \ NoNumber THEN Whole[t] ELSE fallback

(***************************************************************************)
(* flatten.py: nested objects under dotted paths.                          *)
(***************************************************************************)
AsContainer(v) ==
    IF "obj" \in DOMAIN v THEN {v.obj} ELSE IF "objText" \in DOMAIN v THEN {v.objText} ELSE {}

Path(k, j) == k \o "." \o j

(* The fields one level below f, under their paths.                        *)
AsFields(pairs) == [p \in {e[1] : e \in pairs} |-> (CHOOSE e \in pairs : e[1] = p)[2]]
Below(f) ==
    AsFields(UNION {UNION {{<<Path(k, j), c[j]>> : j \in DOMAIN c} : c \in AsContainer(f[k])} : k \in DOMAIN f})

expand_containers(raw) ==
    LET one == Below(raw)
        two == Below(one)
    IN  With(raw, With(one, With(two, Below(two))))

(***************************************************************************)
(* resolver.py                                                             *)
(***************************************************************************)
NestedParents == <<"rock", "gatewayStatus", "system_status", "ticketStatus", "rockAI">>

find_in_nested_json(raw, k) ==
    Keyed(raw, NestedParents, LAMBDA parent :
        {c[k] : c \in {c \in AsContainer(parent) : k \in DOMAIN c /\ DOMAIN c[k] \cap {"text", "bool"} # {}}})

(* A field of its own, and only when that is None the same name inside the *)
(* known parents.                                                          *)
Lookup(raw, k) ==
    IF Get(raw, k) # None THEN raw[k] ELSE OrElse(find_in_nested_json(raw, k), None)

Resolved(state, source) == [state |-> state, source |-> source]

resolve_first_state(raw, candidates) ==
    OrElse(FirstFound(Len(candidates), LAMBDA i :
               {Resolved(s, candidates[i]) : s \in {to_state(Lookup(raw, candidates[i]))} \ {UNKNOWN}}),
           Resolved(UNKNOWN, "none"))

ActiveKeys == <<"active", "serverAttributes_active", "device_active", "gateway_active">>
GatewayKeys ==
    <<"status_device_gateway_status", "statusbox_system_healthy",
      "system_status_statusbox_system_healthy", "rock_healthyStatus", "healthyStatus", "gwHealth",
      "gateway_sts", "gateway_status", "gatewayStatus_status", "rock_gateway_status", "status",
      "statusbox_system_on", "system_status_statusbox_system_on", "gatewayStatus_SYSTEM ON">>

ActiveState(t) == IF t \in {"false", "0", "offline"} THEN {OFFLINE} ELSE IF t \in {"true", "1", "online"} THEN {ONLINE} ELSE {}
resolve_gateway_state(raw) ==
    OrElse(FirstFound(Len(ActiveKeys), LAMBDA i :
               {Resolved(s, ActiveKeys[i]) : s \in ActiveState(StrOf(Lookup(raw, ActiveKeys[i])))}),
           resolve_first_state(raw, GatewayKeys))

BatteryVoltageKeys ==
    <<"battery_voltage", "battery_status.battery_voltage", "gatewayStatus.battery_voltage",
      "battery_status_battery_voltage", "gatewayStatus_battery_voltage">>
AcVoltageKeys ==
    <<"ac_voltage", "ac_status.ac_voltage", "gatewayStatus.ac_voltage", "ac_status_ac_voltage">>
SystemCurrentKeys ==
    <<"system_current", "current_status.system_current", "gatewayStatus.system_current",
      "current_status_system_current">>
MainsKeys ==
    <<"statusbox_mains_on", "system_status_statusbox_mains_on", "MAINS ON", "gatewayStatus_MAINS ON">>

(***************************************************************************)
(* snapshot.py                                                             *)
(***************************************************************************)
choose(raw, keys) ==
    Keyed(raw, keys, LAMBDA v : IF v # None /\ StrOf(v) \notin {"", "null"} THEN {StrOf(v)} ELSE {})
Flag(raw, k) == to_bool(Get(raw, k)) = {TRUE}

as_json(v) ==
    IF "obj" \in DOMAIN v THEN {[obj |-> v.obj]}
    ELSE IF "objText" \in DOMAIN v THEN {[obj |-> v.objText]}
    ELSE IF "list" \in DOMAIN v THEN {[list |-> v.list]}
    ELSE IF "listText" \in DOMAIN v THEN {[list |-> v.listText]}
    ELSE {}

JsonParents ==
    <<"rock", "dexter_config", "cameraStatus", "gatewayStatus", "ticketStatus", "rockAI",
      "mainDevicesOnTimeData", "mainDevicesFaultData", "mainCCTVFaultData">>

find_container(raw, keys) ==
    FirstFound(1 + Len(JsonParents), LAMBDA i :
        IF i = 1 THEN Keyed(raw, keys, as_json)
        ELSE UNION {Keyed(p.obj, keys, as_json) :
                       p \in {p \in as_json(Get(raw, JsonParents[i - 1])) : "obj" \in DOMAIN p}})
(* The list found, empty when there is none.                               *)
FoundList(raw, keys) ==
    OrElse({c.list : c \in {c \in find_container(raw, keys) : "list" \in DOMAIN c}}, <<>>)
Objects(s) == {i \in DOMAIN s : "obj" \in DOMAIN s[i]}

Identity(raw) ==
    [branch_name |-> choose(raw, <<"branchName", "formattedBranchName", "device_name", "deviceName">>),
     technical_id |-> choose(raw, <<"device_name", "deviceName", "formattedBranchName", "branchName">>)]

Conflict(raw) ==
    /\ Get(raw, "gateway") # None /\ Get(raw, "status") # None
    /\ StrOf(raw["gateway"]) # StrOf(raw["status"])
Gateway(raw) == resolve_gateway_state(raw) @@ [active |-> to_bool(Get(raw, "active")), warned |-> Conflict(raw)]

Power(raw) ==
    [battery_voltage |-> Keyed(raw, BatteryVoltageKeys, to_double),
     ac_voltage |-> Keyed(raw, AcVoltageKeys, to_double),
     system_current |-> Keyed(raw, SystemCurrentKeys, to_double),
     battery_low |-> to_bool(Get(raw, "BATTERY LOW")),
     mains_on |-> Keyed(raw, MainsKeys, to_bool)]

Subsystems == {"cctv", "ias", "bas", "fas", "timeLock", "accessControl"}
SubsystemKeys ==
    [s \in Subsystems |->
        CASE s = "cctv" -> <<"cctv_sts", "cameraStatus_cctvStatus", "cctvStatus", "cctv_status",
                             "cameraLinkStatus", "cctv_state", "rock_cctv_status">>
          [] s = "ias" -> <<"ias_sts">>
          [] s = "bas" -> <<"bas_sts">>
          [] s = "fas" -> <<"fas_sts">>
          [] s = "timeLock" -> <<"timeLock_sts">>
          [] s = "accessControl" -> <<"accessControl_sts">>]

(* "installed" is that of the resolved state: the override below it, for a *)
(* primary field that says N/A, does not recompute it.                     *)
Installed(state) == state \notin {NOT_INSTALLED, UNKNOWN}
Override(state, primary) ==
    [state |-> IF ~Installed(state) /\ primary # None /\ StrOf(primary) \in {"n/a", "null"} THEN NOT_INSTALLED ELSE state,
     installed |-> Installed(state)]
Subsystem(raw, s) == Override(resolve_first_state(raw, SubsystemKeys[s]).state, Get(raw, SubsystemKeys[s][1]))

(* A camera without any status field counts as online.                     *)
CameraStatusKeys == <<"cameraStatus", "status", "Active Status", "active_status", "camera_status">>
camera_online(camera) ==
    LET status == FirstFound(Len(CameraStatusKeys), LAMBDA i :
                      IF CameraStatusKeys[i] \in DOMAIN camera THEN {StrOf(camera[CameraStatusKeys[i]])} ELSE {})
    IN  status \subseteq {"active", "online", "on", "1", "true"}

(* entry_int: the first of the two keys that holds a whole number.         *)
Duration(entry) ==
    OrElse(Keyed(entry, <<"total_duration", "total_recording_days">>, LAMBDA v : NumberIn(v, Whole)), 0)
recorded(entry) ==
    \/ Duration(entry) > 0
    \/ "start_time" \in DOMAIN entry /\ StrOf(entry["start_time"]) \notin {"n/a", ""}

(* A count of cameras: how many, how many of them online.  Unknown: {}.    *)
Cameras(total, online) == {[total |-> total, online |-> online]}

OnlineOf(s, Online(_)) == Cardinality({i \in Objects(s) : Online(s[i].obj)})
Listed(s) == IF Objects(s) = {} THEN {} ELSE Cameras(Cardinality(Objects(s)), OnlineOf(s, camera_online))
FromDetails(raw) ==
    Listed(FoundList(raw, <<"rock_CAMERAdETAILS", "CAMERAdETAILS", "CAMERA_DETAILS", "CAMERADETAILS">>))

(* Every row counts, an object or not; none recorded counts as all online. *)
AllIfNone(online, total) == Cameras(total, IF online > 0 THEN online ELSE total)
Recorded(s) == IF s = <<>> THEN {} ELSE AllIfNone(OnlineOf(s, recorded), Len(s))
FromRecordings(raw) ==
    Recorded(FoundList(raw, <<"rock_VIDEOdETAILS", "VIDEOdETAILS", "rock_SdRecINFO", "SdRecINFO",
                              "Hikvision_NVR_CameraRecInfo", "Dahua_NVR_CameraRecInfo",
                              "CP_Plus_NVR_CameraRecInfo", "CameraRecInfo">>))

(* The first recorder of dexter_config that lists camera addresses.        *)
FromDexter(raw) ==
    LET ips(nvr) == IF "obj" \in DOMAIN nvr /\ "list" \in DOMAIN Get(nvr.obj, "camera_ip")
                    THEN {Len(nvr.obj["camera_ip"].list)} \ {0} ELSE {}
        first(nvrs) == FirstFound(Len(nvrs), LAMBDA i : ips(nvrs[i]))
    IN  UNION {Cameras(n, n) :
            n \in UNION {IF "obj" \in DOMAIN c /\ "list" \in DOMAIN Get(c.obj, "integration")
                         THEN first(c.obj["integration"].list) ELSE {} : c \in find_container(raw, <<"dexter_config">>)}}

(* Alarm inputs "CAMERA DISCONNECT CH n", under their own name or nested   *)
(* in a container, where they are a second field of the same channel.      *)
ChannelOf ==
    With([k \in {"CAMERA DISCONNECT CH 1", "cameraStatus.CAMERA DISCONNECT CH 1"} |-> 1],
         [k \in {"CAMERA DISCONNECT CH 2", "cameraStatus.CAMERA DISCONNECT CH 2"} |-> 2])

FromChannels(raw) ==
    LET inputs == DOMAIN raw \cap DOMAIN ChannelOf
        total == Max({0} \cup {ChannelOf[k] : k \in inputs})
        off == {k \in inputs : StrOf(raw[k]) \in {"true", "1", "yes"}}
    IN  IF total = 0 THEN {} ELSE Cameras(total, Max({0, total - Cardinality(off)}))

FromCount(raw) ==
    LET n == to_int(Text(OrElse(choose(raw, <<"count_camera", "no_of_connected_cctv", "cctv_count",
                        "no_of_cameras", "total_cameras", "Hikvision_NVR_NoOfCameras">>), "null")), 0)
    IN  IF n > 0 THEN Cameras(n, n) ELSE {}

(* The inventory, unless the recordings know more cameras; then the        *)
(* fallbacks in their order.                                               *)
Larger(details, recordings) ==
    IF recordings # {} /\ \A d \in details, r \in recordings : r.total > d.total THEN recordings ELSE details
CameraCount(raw) ==
    FirstFound(4, LAMBDA i :
        CASE i = 1 -> Larger(FromDetails(raw), FromRecordings(raw))
          [] i = 2 -> FromDexter(raw) [] i = 3 -> FromChannels(raw) [] i = 4 -> FromCount(raw))

hdd_status(raw) ==
    OrElse(FirstFound(3, LAMBDA i :
        UNION {IF c.list = <<>> \/ 1 \notin Objects(c.list) THEN {} ELSE {StrOf(Get(c.list[1].obj, "HDDStatus"))} :
                  c \in {c \in as_json(Get(raw, <<"rock_HddINFO", "HddINFO", "HDD_INFO">>[i])) : "list" \in DOMAIN c}}),
        "none")

Cctv(raw) ==
    LET subsystem == Subsystem(raw, "cctv")
    IN  [state |-> subsystem.state, subsystem |-> subsystem, cameras |-> CameraCount(raw),
         has_disconnect |-> Flag(raw, "CAMERA DISCONNECT"), has_tamper |-> Flag(raw, "CAMERA TAMPER"),
         hdd_status |-> hdd_status(raw)]

Alerts(raw) ==
    [alarm_count |-> to_int(Get(raw, "alarmCount"), 0), error_count |-> to_int(Get(raw, "errorCount"), 0),
     raised |-> {k \in {"DVR/NVR OFF", "ticketStatus_NVR_OFF", "HDD ERROR", "CAMERA DISCONNECT",
                        "CAMERA TAMPER", "INTRUSION ALARM SYSTEM ACTIVATE",
                        "FIRE ALARM SYSTEM ACTIVATE", "POWER OFF", "BATTERY LOW"} : Flag(raw, k)}]

Hardware(raw) == [k \in {"cpu", "memory", "disk", "temperature"} |-> to_double(Get(raw, k))]

(* Where cctv_sts says nothing, cameras online or a gateway offline decide *)
(* the subsystem; the state the CCTV block took is not touched.            *)
InferCctv(s, gateway, cameras) ==
    IF s.state # UNKNOWN THEN s
    ELSE IF \E c \in cameras : c.online > 0 THEN [state |-> ONLINE, installed |-> TRUE]
    ELSE IF gateway = OFFLINE THEN [state |-> OFFLINE, installed |-> TRUE] ELSE s

Snapshot(raw, gateway, cctv) ==
    [identity |-> Identity(raw), gateway |-> gateway, power |-> Power(raw),
     subsystems |-> [s \in Subsystems |->
         IF s = "cctv" THEN InferCctv(cctv.subsystem, gateway.state, cctv.cameras) ELSE Subsystem(raw, s)],
     cctv |-> cctv, alerts |-> Alerts(raw), hardware |-> Hardware(raw), raw_data |-> raw]
SnapshotOf(raw) == Snapshot(raw, Gateway(raw), Cctv(raw))
build_snapshot(raw) == SnapshotOf(expand_containers(raw))

=============================================================================
