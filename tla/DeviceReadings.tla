--------------------------- MODULE DeviceReadings ---------------------------
(***************************************************************************)
(* What the answers read beside the snapshot's fields, from one device's   *)
(* expanded raw fields: the fault and alarm ladders of                     *)
(* app/query/answer_support.py, the recorder parsers of app/query/cctv.py  *)
(* and the computed rows of app/query/derived.py.                          *)
(***************************************************************************)
EXTENDS Normalization

(***************************************************************************)
(* answer_support.py                                                       *)
(***************************************************************************)
BatteryLowKeys ==
    <<"statusbox_battery_low", "system_status_statusbox_battery_low", "BATTERY LOW", "gatewayStatus_BATTERY LOW">>
BatteryReverseKeys ==
    <<"statusbox_battery_reverse", "system_status_statusbox_battery_reverse", "BATTERY REVERSE",
      "gatewayStatus_BATTERY REVERSE">>
FaultKeys ==
    [ias |-> <<"ticketStatus_IAS_FAULT", "intrusion_alarm_system_fault", "INTRUSION ALARM SYSTEM FAULT",
               "iasBasFasStatus_INTRUSION ALARM SYSTEM FAULT">>,
     fas |-> <<"ticketStatus_FAS_FAULT", "fireAlarmSystem_fault", "FIRE ALARM SYSTEM FAULT",
               "fire_alarm_system_fault", "iasBasFasStatus_FIRE ALARM SYSTEM FAULT">>,
     timeLock |-> <<"ticketStatus_TLS_TAMPER", "ticketStatus_TLS_OFF">>,
     accessControl |-> <<"ticketStatus_ACS_TAMPER", "ticketStatus_ACS_OFF">>,
     cctv |-> <<"HDD ERROR", "ticketStatus_HDD_ERROR", "ticketStatus_NVR_OFF", "cameraStatus_HDD ERROR">>]
AlarmKeys ==
    [ias |-> <<"ticketStatus_IAS_ACTIVATE", "ticketStatus_IAS_INT_ACTIVATE", "INTRUSION ALARM SYSTEM ACTIVATE",
               "iasBasFasStatus_INTRUSION ALARM SYSTEM ACTIVATE">>,
     bas |-> <<>>,
     fas |-> <<"ticketStatus_FAS_ACTIVATE", "FIRE ALARM SYSTEM ACTIVATE",
               "iasBasFasStatus_FIRE ALARM SYSTEM ACTIVATE">>,
     timeLock |-> <<"ticketStatus_TLS_DOOR_OPEN">>,
     accessControl |-> <<"ticketStatus_ACS_DOOR_OPEN">>,
     cctv |-> <<"CAMERA DISCONNECT", "ticketStatus_CAM_DIS", "ticketStatus_CAM_TAMPER">>]
CountKey ==
    [bas |-> "BASfaultCOUNT", timeLock |-> "time_lock_door_open_count",
     accessControl |-> "access_control_door_open_count"]

SeqSet(s) == {s[i] : i \in DOMAIN s}
LADDER_KEYS ==
    SeqSet(BatteryLowKeys) \cup SeqSet(BatteryReverseKeys)
    \cup (UNION {SeqSet(FaultKeys[s]) : s \in DOMAIN FaultKeys})
    \cup (UNION {SeqSet(AlarmKeys[s]) : s \in DOMAIN AlarmKeys})
    \cup {CountKey[s] : s \in DOMAIN CountKey}

resolve_boolean(raw, keys) ==
    Keyed(raw, keys, LAMBDA v :
        IF StrOf(v) \in {"true", "1", "on", "healthy", "online"} THEN {TRUE}
        ELSE IF StrOf(v) \in {"false", "0", "off", "offline", "inactive"} THEN {FALSE}
        ELSE {})

resolve_from_count(raw, key) ==
    IF StrOf(Get(raw, key)) \in DOMAIN Whole THEN {Whole[StrOf(raw[key])] > 0} ELSE {}

first_non_blank(raw, keys) ==
    Keyed(raw, keys, LAMBDA v : IF v = None \/ StrOf(v) \in {"", "null", "n/a", "na"} THEN {} ELSE {StrOf(v)})
first_integer(raw, keys) ==
    Keyed(raw, keys, LAMBDA v : IF StrOf(v) \in DOMAIN Whole THEN {Whole[StrOf(v)]} ELSE {})

resolve_battery_status(raw) ==
    LET low == resolve_boolean(raw, BatteryLowKeys) = {TRUE}
        reverse == resolve_boolean(raw, BatteryReverseKeys) = {TRUE}
    IN  IF low /\ reverse THEN "Low & Reverse" ELSE IF reverse THEN "Reverse" ELSE IF low THEN "Low" ELSE "OK"

resolve_subsystem_fault(raw, s) ==
    IF s = "bas" THEN resolve_from_count(raw, CountKey[s]) ELSE resolve_boolean(raw, FaultKeys[s])

resolve_subsystem_alarm(raw, s) ==
    LET flag == resolve_boolean(raw, AlarmKeys[s]) IN
    IF flag = {} /\ s \in {"timeLock", "accessControl"} THEN resolve_from_count(raw, CountKey[s]) ELSE flag

(***************************************************************************)
(* cctv.py: the recorders of several vendors.                              *)
(***************************************************************************)
RecKeys ==
    <<"rock.VIDEOdETAILS", "rockAI.VIDEOdETAILS", "rock_VIDEOdETAILS", "VIDEOdETAILS",
      "Hikvision_NVR_CameraRecInfo", "Dahua_NVR_CameraRecInfo", "CP_Plus_NVR_CameraRecInfo",
      "Hik_rock_NVR1_VIDEOdETAILS", "Hik_rock_NVR2_VIDEOdETAILS">>
HddKeys == <<"rock.HddINFO", "rockAI.HddINFO", "rock_HddINFO", "Hikvision_NVR_HDDInfo">>
ModelKeys == <<"Hikvision_NVR_model", "rock.model", "rockAI.model", "rock_model", "Dahua_NVR_model">>
SlotKeys ==
    <<"rock.NoOfHDDSlots", "rock_NoOfHDDSlots", "Hikvision_NVR_NoOfHDDSlots1", "Dahua_NVR_NoOfHDDSlots", "count_HDD">>
CapacityKeys == <<"rock.capacity", "rock_capacity", "Hikvision_NVR_capacity1", "Dahua_NVR_capacity">>
ResolutionKeys ==
    <<"Video Resolution", "Hikvision_NVR_Resolutions", "Dahua_NVR_Resolutions", "CP_Plus_NVR_Resolutions">>
(* What a live fetch asks ThingsBoard for: a path into rock or rockAI is   *)
(* asked for by its container (flatten.request_keys).                      *)
CCTV_KEYS ==
    {"rock", "rockAI"} \cup {"rock_VIDEOdETAILS", "VIDEOdETAILS", "Hikvision_NVR_CameraRecInfo",
     "Dahua_NVR_CameraRecInfo", "CP_Plus_NVR_CameraRecInfo", "Hik_rock_NVR1_VIDEOdETAILS",
     "Hik_rock_NVR2_VIDEOdETAILS", "rock_SdRecINFO", "rock_HddINFO", "Hikvision_NVR_HDDInfo",
     "rock_CAMERAdETAILS", "Hikvision_NVR_model", "Dahua_NVR_model", "nvr_brand",
     "Hikvision_NVR_NoOfHDDSlots1", "Dahua_NVR_NoOfHDDSlots", "count_HDD",
     "Hikvision_NVR_capacity1", "Dahua_NVR_capacity"}
    \cup SeqSet(ResolutionKeys) \cup {"HDD ERROR", "ticketStatus_HDD_ERROR", "cameraStatus_HDD ERROR", "hddStatus"}

as_list(v) == OrElse({c.list : c \in {c \in as_json(v) : "list" \in DOMAIN c}}, <<>>)
first_list(raw, keys) ==
    OrElse(Keyed(raw, keys, LAMBDA v : {as_list(v)} \ {<<>>}), <<>>)
ObjectsOf(s) == {s[i].obj : i \in Objects(s)}

VendorOfModel == "ds-7616" :> "hikvision" @@ "dh-xvr" :> "dahua" @@ "cp-uvr" :> "cpplus"
nvr_vendor(raw, model) ==
    LET brand == first_non_blank(raw, <<"nvr_brand">>) IN
    IF brand # {} THEN brand ELSE {VendorOfModel[m] : m \in model \cap DOMAIN VendorOfModel}

device_info(raw) ==
    LET model == first_non_blank(raw, ModelKeys)
        storage == UNION {to_double(Text(t)) : t \in first_non_blank(raw, CapacityKeys)}
    IN  [vendor |-> nvr_vendor(raw, model), model |-> model, hdd_slots |-> first_integer(raw, SlotKeys),
         storage_tb |-> {n \in storage : n > 0},
         resolution |-> first_non_blank(raw, ResolutionKeys)]

(* One row per slot object, its place kept: equal slots are two slots.     *)
SlotField(slot, keys) ==
    OrElse(FirstFound(Len(keys), LAMBDA i :
               IF keys[i] \notin DOMAIN slot THEN {} ELSE {IF slot[keys[i]] = None THEN "n/a" ELSE StrOf(slot[keys[i]])}),
           "n/a")
SlotsOf(s) ==
    [i \in Objects(s) |->
        [status |-> IF "HDDStatus" \in DOMAIN s[i].obj THEN StrOf(s[i].obj["HDDStatus"]) ELSE "n/a",
         capacity_tb |-> SlotField(s[i].obj, <<"HDDcapacity", "HDDCapacity">>),
         free_tb |-> SlotField(s[i].obj, <<"HDDfreeSpace", "HDDFreeSpace">>)]]
hdd_info(raw) == SlotsOf(first_list(raw, HddKeys))

ChannelName(entry) ==
    OrElse(FirstFound(2, LAMBDA i : LET k == <<"channel_no", "channel">>[i] IN
               IF k \in DOMAIN entry THEN {StrOf(entry[k])} ELSE {}),
           IF "camera_id" \in DOMAIN entry THEN StrOf(entry["camera_id"]) ELSE "")
DaysOf(v) == IF StrOf(v) \in DOMAIN Decimal THEN Decimal[StrOf(v)] ELSE 0
Days(entry) ==
    DaysOf(IF "total_recording_days" \in DOMAIN entry THEN entry["total_recording_days"]
           ELSE Get(entry, "total_duration"))

(* Every vendor's rows together, the most days any of them gives a channel.*)
MostDays(rows) == [c \in {r[1] : r \in rows} \ {"", "n/a"} |-> Max({r[2] : r \in {r \in rows : r[1] = c}})]
parse_recordings(raw) ==
    MostDays({<<ChannelName(e), Days(e)>> : e \in UNION {ObjectsOf(as_list(Get(raw, k))) : k \in SeqSet(RecKeys)}})

RETENTION_DAYS == 90
(* {} when no channel is reported.                                         *)
SummaryOf(cams) ==
    LET days == {cams[c] : c \in DOMAIN cams}
        compliant == {c \in DOMAIN cams : cams[c] >= RETENTION_DAYS}
    IN  IF days = {} THEN {}
        ELSE {[total |-> Cardinality(DOMAIN cams), compliant |-> Cardinality(compliant),
               non_compliant |-> Cardinality(DOMAIN cams \ compliant),
               zero_channels |-> {c \in DOMAIN cams : cams[c] <= 0},
               min_days |-> Min(days), max_days |-> Max(days)]}
recording_summary(raw) == SummaryOf(parse_recordings(raw))

(***************************************************************************)
(* derived.py: computations over nested containers.                        *)
(***************************************************************************)
Missing == {"", "n/a", "na", "null", "none", "-"}
number(v) == NumberIn(v, [t \in DOMAIN Decimal \ Missing |-> Decimal[t]])
text(v) == {StrOf(v)} \ Missing
texts(raw, keys) == [k \in keys |-> text(Get(raw, k))]
(* The list without its None entries, which pad unpopulated channels.      *)
present(v) == SelectSeq(as_list(v), LAMBDA e : e # None)
rows_of(raw, key) == LET s == present(Get(raw, key)) IN [i \in Objects(s) |-> s[i].obj]
dict_of(v) == OrElse({c.obj : c \in {c \in as_json(v) : "obj" \in DOMAIN c}}, <<>>)

(* Two vendors spell the fields differently; one that Python takes for     *)
(* false gives way.                                                        *)
Falsy(v) ==
    \/ v = None \/ StrOf(v) = ""
    \/ "bool" \in DOMAIN v /\ ~v.bool
    \/ \E kind \in DOMAIN v \cap {"obj", "list"} : DOMAIN v[kind] = {}
Either(entry, a, b) == IF Falsy(Get(entry, a)) THEN Get(entry, b) ELSE Get(entry, a)
hdd_rows(raw) ==
    LET s == rows_of(raw, "rock.HddINFO") IN
    [i \in DOMAIN s |->
        [status |-> text(Get(s[i], "HDDStatus")),
         capacity |-> number(Either(s[i], "HDDCapacity", "HDDcapacity")),
         free_space |-> number(Either(s[i], "HDDFreeSpace", "HDDfreeSpace"))]]

(* {} when no disk reports one, which is not a sum of 0.                   *)
SumOf(rows, column) ==
    LET known == {i \in DOMAIN rows : rows[i][column] # {}} IN
    IF known = {} THEN {} ELSE {MapThenSumSet(LAMBDA i : OrElse(rows[i][column], 0), known)}
hdd_total_capacity(raw) == SumOf(hdd_rows(raw), "capacity")
hdd_free_space(raw) == SumOf(hdd_rows(raw), "free_space")

camera_count(raw) ==
    LET videos == present(Get(raw, "rock.VIDEOdETAILS")) IN
    IF videos # <<>> THEN Len(videos) ELSE Len(present(Get(raw, "rock.CAMERAdETAILS")))
camera_rows(raw) ==
    LET s == rows_of(raw, "rock.CAMERAdETAILS") IN
    [i \in DOMAIN s |-> texts(s[i], {"channel_no", "id", "Channel Name", "manufacturer", "model", "serialNumber",
                                     "resolution", "fps", "IP Address", "status", "Active Status"})]
sd_recording_rows(raw) ==
    LET s == rows_of(raw, "rock.SdRecINFO") IN
    [i \in DOMAIN s |-> texts(s[i], {"channel_no", "channel_name", "cameraIP", "start_time", "end_time",
                                     "total_recording_days"})]

(* An object counts its members; other text counts as none.                *)
count_like(v) ==
    IF number(v) # {} THEN number(v)
    ELSE IF v = None \/ "list" \in DOMAIN v THEN {}
    ELSE {Cardinality(DOMAIN dict_of(v))}

FirstText(raw, keys) == Keyed(raw, keys, text)
network_operator(raw) == FirstText(raw, <<"statusbox_network", "system_status.statusbox_network">>)
connected_devices(raw) ==
    number(IF Get(raw, "statusbox_no_of_connected_device") # None THEN raw["statusbox_no_of_connected_device"]
           ELSE Get(raw, "system_status.statusbox_no_of_connected_device"))
sos_status(raw) ==
    {IF t \in {"true", "1", "on", "active"} THEN "Active" ELSE "Clear" : t \in text(Get(raw, "statusbox_sos_status"))}

BAS == "basSystemIntegration."
bas_panel(raw) ==
    LET info == dict_of(Get(raw, BAS \o "basMainInfo"))
    IN  With(texts(info, {"heartbeat", "panelState", "panelMode"}), [zoneSupported |-> number(Get(info, "zoneSupported"))])
bas_device(raw) ==
    texts(dict_of(Get(raw, BAS \o "basAboutDevice")), {"panelIp", "model", "firmwareVersion", "lastUpdated"})
bas_power(raw) ==
    texts(dict_of(Get(raw, BAS \o "basPowerStatus")),
          {"systemVoltage", "batteryVoltage", "systemCurrent", "batteryCurrent", "batteryStatus", "mainStatus"})
bas_zones(raw) ==
    LET s == rows_of(raw, BAS \o "zoneInfo") IN
    [i \in DOMAIN s |-> texts(s[i], {"zoneName", "areaStates", "bell", "zoneEvent", "timeStamp"})]
door_status(raw) == texts(raw, {"timeLockDoor", "accessControlDoor"})

=============================================================================
