CONSTANTS
    f1 = f1  f2 = f2  v1 = v1  v2 = v2
    Devices = {d1}
    Fields = {f1, f2}
    Values = {v1, v2}
    Syncs = {s1, s2}
    Replays = {r1}
    Readings <- SomeReadings
    Events <- SomeEvents
    FaultKinds = {"fetch", "database", "redis", "crash"}
    MaxFaults = 2
    MaxInputs = 3
SPECIFICATION FairSpec
CHECK_DEADLOCK FALSE
INVARIANTS
    RebuildExclusive
    NoImmortalSnapshot
    ObservedIsRecorded
PROPERTIES
    NoSilentWipe
    CatchesUp
