CONSTANTS
    d1 = d1  d2 = d2  l1 = l1  l2 = l2  zone = zone  office = office
    boi = boi  sbi = sbi  bank = bank  area = area  anyone = anyone  other = other
    Devices = {d1, d2}
    Leaves = {l1, l2}
    Containers = {zone, office}
    Customers = {}
    None = none
    Missing = missing
    NameOf <- ContainerNames
    RegionKinds = {"ZO", "RO"}
    KnownPrefixes = {boi}
    Hierarchies <- ThreeTrees
    Callers = {other, area}
    CallerOf <- GuessedAndZone
    Grants <- NoGrants
    Strict = FALSE
    Slots = {r1, r2}
    MaxChanges = 1
    MaxFaults = 0
SYMMETRY AnySlot
SPECIFICATION Spec
CHECK_DEADLOCK FALSE
INVARIANTS
    WithinRegion
