CONSTANTS
    Calls = {c1, c2, c3}
    MaxRevocations = 2
    MaxFaults = 1
SPECIFICATION FairSpec
CHECK_DEADLOCK FALSE
INVARIANTS
    RetrySurvivesRevocation
    LoginsAreNeeded
PROPERTIES
    CallsEnd
