------------------------------ MODULE Assistant ------------------------------
(***************************************************************************)
(* One question to the assistant, with whichever handler the registry of   *)
(* app/query/handlers.py has for its intent: MetricHandler (DeviceAnswers),*)
(* the fleet handlers and what they try first (FleetAnswers), AlarmDetail  *)
(* (AlarmAnswers); or at the gate before the handlers (BranchGate).  While *)
(* it is answered the world that is read for it goes on; what is read for  *)
(* other questions is left at rest.                                        *)
(***************************************************************************)
EXTENDS DeviceAnswers, FleetAnswers, AlarmAnswers, BranchGate

VARIABLE topic      \* whose question it is

assistantVars == <<topic, deviceVars, fleetVars, alarmVars, gateVars>>

Topics == {"device", "fleet", "alarms", "gate"}

AssistantInit ==
    /\ topic \in Topics
    /\ GateInit
    /\ DeviceInit
    /\ FleetInit /\ (topic # "fleet" => hashes = <<>>)
    /\ AlarmInit /\ (topic # "alarms" => created = 0 /\ \A d \in Readings : Len(listings) >= Len(d[1]))

MetricStep == topic = "device" /\ DeviceNext /\ UNCHANGED <<topic, fleetVars, alarmVars, gateVars>>
FleetStep == topic = "fleet" /\ FleetNext /\ UNCHANGED <<topic, deviceVars, alarmVars, gateVars>>
AlarmStep == topic = "alarms" /\ AlarmNext /\ UNCHANGED <<topic, deviceVars, fleetVars, gateVars>>
GateStep == topic = "gate" /\ GateNext /\ UNCHANGED <<topic, deviceVars, fleetVars, alarmVars>>

AssistantNext == MetricStep \/ FleetStep \/ AlarmStep \/ GateStep

AssistantSpec == AssistantInit /\ [][AssistantNext]_assistantVars

=============================================================================
