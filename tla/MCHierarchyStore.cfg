CONSTANTS
    ho = ho  bank = bank  east = east  zone = zone  b1 = b1  b2 = b2
    None = none
    Absent = absent
    HeadOffice = ho
    BankLike = {bank}
    Nodes = {ho, bank, east, zone, b1, b2}
    Admins = {a1, a2, a3}
    Dumps <- SomeDumps
    Edits <- SomeEdits
    EditsAlone = TRUE
    MaxRequests = 4
    MaxFaults = 1
SPECIFICATION FairSpec
CHECK_DEADLOCK FALSE
INVARIANTS
    ClosureExact
    NoEndlessWalk
PROPERTIES
    ImportsEnd
