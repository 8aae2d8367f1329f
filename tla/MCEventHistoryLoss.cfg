CONSTANTS
    d1 = d1  c1 = c1   f1 = f1  f2 = f2  v1 = v1  v2 = v2  none = none
    m1 = m1  m2 = m2  k1 = k1  k2 = k2  any = any  main = main  own = own  w1 = w1  w2 = w2
    Devices <- OneDevice
    Customers <- OneCustomer
    Fields <- TwoFields
    Values <- TwoValues
    None = none
    Ids = {m1, m2}
    Times = {5}
    Bodies <- MixedBodies
    Keys = {k1, k2}
    RoutingKey <- SharedKeys
    Wildcard = any
    Queues = {main}
    Binding <- CatchAllOnly
    Workers = {w1}
    QueueOf <- AllOnMain
    Prefetch = 2
    Fallback = TRUE
    MaxReports = 1
    MaxFaults = 1
    MaxImports = 0
SPECIFICATION Spec
CHECK_DEADLOCK FALSE
PROPERTIES
    HistoryLossCostsNothingElse
