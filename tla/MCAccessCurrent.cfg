CONSTANTS
    d1 = d1  d2 = d2  l1 = l1  l2 = l2  zone = zone  office = office
    boi = boi  sbi = sbi  bank = bank  area = area  anyone = anyone  other = other
    Devices = {d1, d2}
    Leaves = {l1, l2}
    Containers = {zone, office}
    Customers = {bank}
    None = none
    Missing = missing
    NameOf <- ContainerNames
    RegionKinds = {"ZO", "RO"}
    KnownPrefixes = {boi}
    Hierarchies <- TwoTrees
    Callers = {anyone, other}
    CallerOf <- WideAndNobody
    Grants <- SomeGrants
    Strict = FALSE
    Slots = {r1, r2}
    MaxChanges = 1
    MaxFaults = 1
SPECIFICATION FairSpec
CHECK_DEADLOCK FALSE
INVARIANTS
    WithinCeiling
PROPERTIES
    Converges
