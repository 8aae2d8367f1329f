CONSTANTS
    d1 = d1  d2 = d2  alarms = alarms  battery = battery  overview = overview  week = week
    None = none
    FreeText = freetext
    Devices <- TwoDevices
    Intents <- ThreeIntents
    Windows <- OneWindow
    Slots = {s1, s2}
    Questions <- MemoryQuestions
    Typed <- TypedQuestions
    MaxTurns = 3
    MaxFaults = 1
    MaxLapses = 1
SYMMETRY AnySlot
SPECIFICATION SessionSpec
CHECK_DEADLOCK FALSE
INVARIANTS
    HistoryIsPairs
    HistoryExpires
    SerialMemory
    TurnsInSequence
    StopReaches
    QuestionsSettle
