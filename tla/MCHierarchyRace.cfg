CONSTANTS
    ho = ho  bank = bank  east = east  zone = zone  b1 = b1  b2 = b2
    None = none
    Absent = absent
    HeadOffice = ho
    BankLike = {bank}
    Nodes = {ho, bank, east, zone, b1, b2}
    Admins = {a1, a2}
    Dumps <- OneDump
    Edits <- RaceEdits
    EditsAlone = FALSE
    MaxRequests = 3
    MaxFaults = 0
SPECIFICATION Spec
CHECK_DEADLOCK FALSE
INVARIANTS
    ClosureExact
