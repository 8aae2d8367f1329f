---------------------------- MODULE MCAssistant ----------------------------
(* Small instances of Assistant: one device, a fleet of three, four alarms. *)
EXTENDS Assistant

----------------------------------------------------------------------------
\* One device whose sources disagree: two recorder formats, a camera input in two
\* places, a status that is null in one place and n/a in another.
At(where, key, value) == [place |-> where, key |-> key, value |-> value]
Channel(no, days) == Obj("channel_no" :> Text(no) @@ "total_recording_days" :> Text(days))
Camera(no, status) == Obj("channel_no" :> Text(no) @@ "Active Status" :> Text(status))
Disk == Obj("HDDStatus" :> Text("error") @@ "HDDCapacity" :> Text("2") @@ "HDDfreeSpace" :> Text("1"))
Recordings == Obj("VIDEOdETAILS" :> List(<<Channel("1", "90"), Channel("2", "0"), None>>) @@ "HddINFO" :> List(<<Disk>>))
Inventory ==
    Obj("CAMERAdETAILS" :> List(<<Camera("1", "inactive"), None>>) @@ "SdRecINFO" :> List(<<Channel("1", "13")>>)
        @@ "capacity" :> Text("2") @@ "model" :> Text("ds-7616"))
Dexter == Obj("integration" :> List(<<Obj("camera_ip" :> List(<<Text("a"), Text("b")>>))>>))
Panel == Obj("basMainInfo" :> ObjText("heartbeat" :> Text("on")) @@ "zoneInfo" :> List(<<Obj("zoneName" :> Text("vault"))>>))
MCReports ==
    {At("SERVER_SCOPE", "active", Bool(FALSE)), At("SHARED_SCOPE", "status", Text("online")),
     At("CLIENT_SCOPE", "gateway_sts", Text("fault")),
     At("series", "rock", Recordings), At("CLIENT_SCOPE", "rock", Inventory), At("SERVER_SCOPE", "dexter_config", Dexter),
     At("CLIENT_SCOPE", "cameraStatus", Obj("CAMERA DISCONNECT CH 1" :> Text("true"))),
     At("CLIENT_SCOPE", "CAMERA DISCONNECT CH 1", Text("true")),
     At("series", "cctv_sts", Text("n/a")), At("CLIENT_SCOPE", "cctv_sts", Text("null")),
     At("CLIENT_SCOPE", "gatewayStatus", Obj("battery_voltage" :> Text("3.0") @@ "BATTERY LOW" :> Bool(TRUE))),
     At("series", "BASfaultCOUNT", Text("2")), At("CLIENT_SCOPE", "basSystemIntegration", Panel),
     At("CLIENT_SCOPE", "statusbox_no_of_connected_device", Bool(TRUE)),
     At("series", "cameraTamperCount", Obj("a" :> Text("1")))}
Inside(S) ==
    S \cup UNION {UNION {{c[k] : k \in DOMAIN c} : c \in AsContainer(v)} : v \in S}
      \cup UNION {UNION {{c.list[i] : i \in DOMAIN c.list} : c \in {c \in as_json(v) : "list" \in DOMAIN c}} : v \in S}
MCValues == Inside(Inside(Inside(Inside({r.value : r \in MCReports} \cup {None}))))
MCIntents ==
    {"gateway_status", "battery_health", "power_status", "cctv_status", "cctv_hdd_error_status", "cctv_hdd_info",
     "cctv_recording_info", "cctv_camera_count", "cctv_camera_info", "cctv_storage", "cctv_device_info",
     "cctv_sd_recording", "subsystem_status", "cctv_tamper_count", "connected_devices", "bas_zone_info"} \X {""}
    \cup {<<"subsystem_status", "bas">>}

----------------------------------------------------------------------------
\* Three branches below two regions and a zone; the second import moves one branch and
\* drops another, whose device the third gives to the first.  Snapshots spell some of the names differently.
NodeOf(parent, level, name, device) ==
    [parent |-> parent, level |-> level, name |-> name, leaf |-> device # "", device |-> device]
Shared ==
    "bank" :> NodeOf("", 0, "BOI HO", "") @@ "east" :> NodeOf("bank", 1, "NBG EAST", "")
    @@ "west" :> NodeOf("bank", 1, "NBG WEST", "") @@ "howrah" :> NodeOf("east", 2, "ZO HOWRAH", "")
MCHierarchies ==
    <<[nodes |-> Shared @@ "l1" :> NodeOf("howrah", 3, "BOI-LILUAH", "d1") @@ "l2" :> NodeOf("east", 3, "BOI-BALLY", "d2")
                 @@ "l3" :> NodeOf("west", 3, "BOI-NASIK", "d3"),
       above |-> "l1" :> {"bank", "east", "howrah", "l1"} @@ "l2" :> {"bank", "east", "l2"} @@ "l3" :> {"bank", "west", "l3"}],
      [nodes |-> Shared @@ "l1" :> NodeOf("west", 3, "BOI-LILUAH", "d1") @@ "l3" :> NodeOf("west", 3, "BOI-NASIK", "d3"),
       above |-> "l1" :> {"bank", "west", "l1"} @@ "l3" :> {"bank", "west", "l3"}],
      [nodes |-> Shared @@ "l1" :> NodeOf("west", 3, "BOI-LILUAH", "d2") @@ "l3" :> NodeOf("west", 3, "BOI-NASIK", "d3"),
       above |-> "l1" :> {"bank", "west", "l1"} @@ "l3" :> {"bank", "west", "l3"}]>>
MCWords ==
    "BOI HO" :> <<"boi", "ho">> @@ "NBG EAST" :> <<"nbg", "east">> @@ "NBG WEST" :> <<"nbg", "west">>
    @@ "ZO HOWRAH" :> <<"zo", "howrah">> @@ "BOI-LILUAH" :> <<"boi", "liluah">> @@ "BOI-BALLY" :> <<"boi", "bally">>
    @@ "BOI-NASIK" :> <<"boi", "nasik">> @@ "branch liluah" :> <<"branch", "liluah">> @@ "boi-nasik" :> <<"boi", "nasik">>
    @@ "d1" :> <<"d1">> @@ "d2" :> <<"d2">> @@ "d3" :> <<"d3">> @@ "CCTV" :> <<"cctv">> @@ "IAS" :> <<"ias">> @@ "" :> <<>>
    @@ "CAMERA DISCONNECT" :> <<"camera", "disconnect">> @@ "FIRE ALARM ACTIVATE" :> <<"fire", "alarm", "activate">>
    @@ "HDD TAMPER" :> <<"hdd", "tamper">>
Month(up, down) == Obj("month_duration" :> Text(up) @@ "downtime_minutes" :> Text(down))
OnTime ==
    ObjText("CCTV" :> Obj("online" :> Obj("monthly" :> Obj("2026-07" :> Month("90", "13") @@ "2026-08" :> Month("2", "0"))))
            @@ "IAS" :> Obj("on" :> Obj("2026-08" :> Month("1", "13"))))
Faults == ObjText("CCTV" :> Obj("ch1" :> Obj("2026-08" :> Month("13", "n/a"))))
MCHashes ==
    "d1" :> {"branchName" :> Text("branch liluah") @@ "active" :> Text("true") @@ "ias_sts" :> Text("fault")
                 @@ "cctv_sts" :> Text("on") @@ "rock" :> ObjText("VIDEOdETAILS" :> List(<<Channel("1", "90"), Channel("2", "0")>>))
                 @@ "lat" :> Text("1") @@ "lon" :> Text("2") @@ "mainDevicesOnTimeData" :> OnTime,
             "branchName" :> Text("branch liluah") @@ "active" :> Text("false")} @@
    "d2" :> {"branchName" :> Text("BOI-BALLY") @@ "gateway_sts" :> Text("fault") @@ "bas_sts" :> Text("offline")
                 @@ "rock" :> ObjText("CAMERAdETAILS" :> List(<<Channel("1", "n/a")>>) @@ "capacity" :> Text("9000"))
                 @@ "dexter_config" :> ObjText("brand" :> Text("amc")) @@ "lat" :> Text("1") @@ "lon" :> Text("2")
                 @@ "alarmCount" :> Text("2")} @@
    "d3" :> {"branchName" :> Text("boi-nasik") @@ "active" :> Text("true") @@ "fas_sts" :> Text("on")
                 @@ "rock" :> ObjText("VIDEOdETAILS" :> List(<<Channel("1", "120")>>) @@ "capacity" :> Text("2")
                                      @@ "HddINFO" :> List(<<Disk>>))
                 @@ "mainDevicesFaultData" :> Faults @@ "mainCCTVFaultData" :> Faults}
Ask(q, intent, subsystem, device) == [q |-> q, intent |-> intent, subsystem |-> subsystem, device |-> device]
MCInquiries ==
    {Ask(<<"health", "of", "the", "east", "zone">>, "fleet_health", "", ""),
     Ask(<<"health", "of", "the", "howrah", "zone">>, "fleet_health", "", ""),
     Ask(<<"which", "devices", "in", "the", "east", "zone", "are", "faulty">>, "fleet_health", "", ""),
     Ask(<<"which", "devices", "are", "offline">>, "fleet_health", "", ""),
     Ask(<<"is", "the", "fleet", "fine">>, "fleet_health", "", ""),
     Ask(<<"is", "cctv", "fine">>, "fleet_health", "cctv", "d2"),
     Ask(<<"how", "many", "ias", "devices", "are", "faulty">>, "fleet_health", "ias", ""),
     Ask(<<"which", "category", "has", "the", "lowest", "health">>, "fleet_health", "", ""),
     Ask(<<"what", "needs", "attention">>, "fleet_health", "", ""),
     Ask(<<"which", "zone", "has", "the", "worst", "overall", "health">>, "fleet_health", "", ""),
     Ask(<<"which", "region", "has", "the", "most", "faulty", "devices">>, "fleet_health", "", ""),
     Ask(<<"which", "zone", "has", "the", "best", "sla">>, "fleet_health", "", ""),
     Ask(<<"show", "fault", "history", "of", "cctv">>, "fleet_health", "", ""),
     Ask(<<"which", "zone", "has", "the", "most", "cameras">>, "cctv_fleet", "", ""),
     Ask(<<"which", "zone", "has", "the", "best", "recording", "compliance">>, "cctv_fleet", "", ""),
     Ask(<<"which", "branch", "has", "the", "most", "cameras">>, "cctv_fleet", "", ""),
     Ask(<<"storage", "consumption">>, "cctv_fleet", "", ""),
     Ask(<<"nvr", "models">>, "cctv_fleet", "", ""),
     Ask(<<"recording", "failures">>, "cctv_fleet", "", ""),
     Ask(<<"cameras", "not", "recording">>, "cctv_fleet", "", "d1"),
     Ask(<<"recording", "compliance">>, "cctv_fleet", "", ""),
     Ask(<<"which", "branch", "has", "the", "most", "offline", "devices">>, "device_inventory", "", ""),
     Ask(<<"amc", "panel", "integration">>, "device_inventory", "", ""),
     Ask(<<"show", "ias", "devices">>, "device_inventory", "", ""),
     Ask(<<"is", "nasik", "there">>, "device_inventory", "", "d3"),
     Ask(<<"what", "is", "the", "uptime", "of", "cctv">>, "global_overview", "", ""),
     Ask(<<"coordinates", "of", "my", "devices">>, "global_overview", "", ""),
     Ask(<<"how", "many", "devices", "per", "branch">>, "global_overview", "", ""),
     Ask(<<"how", "many", "branches", "under", "east", "zone">>, "global_overview", "", ""),
     Ask(<<"list", "all", "zones">>, "global_overview", "", ""),
     Ask(<<"how", "are", "things">>, "global_overview", "", "")}

----------------------------------------------------------------------------
\* Alarms of one type at one branch and of others elsewhere; the whole scope, an area,
\* one device.
AlarmOf(type, severity, device, places, stamped) ==
    [type |-> type, severity |-> severity, device |-> device, name |-> {}, places |-> places, dated |-> TRUE,
     stamped |-> stamped]
Liluah == "branch" :> "BOI-LILUAH" @@ "zone" :> "ZO HOWRAH" @@ "region" :> "NBG EAST"
MCAlarm ==
    <<AlarmOf("CAMERA DISCONNECT", {"MAJOR"}, "d1", Liluah, TRUE), AlarmOf("FIRE ALARM ACTIVATE", {"CRITICAL"}, "d2", <<>>, TRUE),
      AlarmOf("HDD TAMPER", {}, "d1", Liluah, FALSE), AlarmOf("CAMERA DISCONNECT", {"MAJOR"}, "d3", Liluah, TRUE)>>
MCNodeName == "d1" :> "l1" @@ "d2" :> "l2" @@ "d3" :> "l3"
MCReadings ==
    {<<<<"ACTIVE", "ANY">>, {"d1", "d2", "d3"}>>, <<<<"ACTIVE", "ANY">>, {"d1", "d3"}>>, <<<<"ANY">>, {"d1"}>>}
MCAnswers == {r[1] : r \in MCReadings}
MCAlarmQuestions ==
    {<<"severity", "breakdown">>, <<"which", "zones", "have", "active", "alarms">>, <<"which", "branch", "needs", "attention">>,
     <<"active", "critical", "alarms">>, <<"the", "oldest", "alarm">>, <<"latest", "resolved", "alarm">>,
     <<"longest", "resolved", "alarm">>, <<"current", "tat">>, <<"which", "branches", "have", "unresolved", "alarms">>,
     <<"types", "of", "alarms">>, <<"which", "zone", "has", "the", "longest", "open", "alarm">>,
     <<"the", "slowest", "camera", "disconnect">>, <<"which", "alarm", "type", "has", "the", "most", "active", "alarms">>,
     <<"alarms", "per", "day">>, <<"how", "many", "major", "alarms", "are", "active">>,
     <<"how", "many", "camera", "disconnect", "alarms", "are", "unresolved">>,
     <<"how", "many", "alarms", "are", "currently", "resolved">>, <<"how", "many", "tamper", "alarms", "are", "open">>,
     <<"is", "the", "fire", "alarm", "healthy">>, <<"alarms", "in", "the", "last", "hour">>,
     <<"tamper", "alarms", "in", "the", "last", "24", "hours">>, <<"show", "open", "alarms">>}

----------------------------------------------------------------------------
\* Branches whose names are parts of one another, one called like a word of questions,
\* one like its zone.  The second import moves a device from one branch to another, and
\* renames a branch and gives it a new one.
MCLetters ==
    "BOI-" :> 4 @@ " " :> 1 @@ "-" :> 1 @@ "_" :> 1 @@ "LILUAH" :> 6 @@ "MALDA" :> 5 @@ "TOWN" :> 4 @@ "MAIN" :> 4
    @@ "HOWRAH" :> 6 @@ "TEST" :> 4 @@ "ZO" :> 2 @@ "DEVICE" :> 6 @@ "TESTING" :> 7 @@ "BRANCH" :> 6 @@ "STATUS" :> 6
Leaf(id, name, device) == [id |-> <<"BOI-">> \o id, name |-> name, leaf |-> TRUE, device |-> device]
Kept ==
    "main" :> Leaf(<<"MALDA", "TOWN", "MAIN">>, <<"MALDA", " ", "TOWN", " ", "MAIN">>, "d3")
    @@ "howrah" :> Leaf(<<"HOWRAH">>, <<"BOI-", "HOWRAH">>, "d4") @@ "test" :> Leaf(<<"TEST">>, <<"BOI-", "TEST">>, "d5")
    @@ "zone" :> [id |-> <<"ZO", "-", "HOWRAH">>, name |-> <<"ZO", " ", "HOWRAH">>, leaf |-> FALSE, device |-> ""]
MCDirectories ==
    <<Kept @@ "liluah" :> Leaf(<<"LILUAH">>, <<"BOI-", "LILUAH", "_", "TESTING", " ", "DEVICE">>, "d1")
           @@ "malda" :> Leaf(<<"MALDA", "TOWN">>, <<"BRANCH", " ", "MALDA", " ", " ", "TOWN">>, "d2"),
      Kept @@ "liluah" :> Leaf(<<"LILUAH">>, <<"BOI-", "LILUAH">>, "d6")
           @@ "malda" :> Leaf(<<"MALDA", "TOWN">>, <<"BRANCH", " ", "MALDA", " ", "TOWN">>, "d1")>>
MCCallers == {{"d1", "d2", "d5"}, {"d1", "d2", "d3", "d5"}, {"d3", "d4"}, {"d1", "d3"}, {}}
MCSentences ==
    {<<"STATUS", " ", "LILUAH">>, <<"STATUS", " ", "MALDA", " ", "TOWN", " ", "MAIN">>, <<"STATUS", " ", "MALDA", "TOWN">>,
     <<"STATUS", " ", "MALDA", " ", "TOWN">>, <<"STATUS", " ", "ZO", " ", "HOWRAH">>, <<"STATUS", " ", "HOWRAH">>,
     <<"TEST", " ", "DEVICE">>, <<"BRANCH", "-", "MALDA", "TOWN", "MAIN", " ", "STATUS">>, <<"STATUS">>}
=============================================================================
