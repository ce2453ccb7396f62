SPECIFICATION Spec
CONSTANTS
    e1 = e1  e2 = e2  e3 = e3  c1 = c1  c2 = c2  m1 = m1  m2 = m2
    r1 = r1  r2 = r2  d1 = d1  d2 = d2
    pr1 = pr1  pr2 = pr2  pd1 = pd1  pd2 = pd2  Null = Null
    Events = {e1}
    Cases = {c1}
    CaseOf <- SameCase
    RawWorkers = {r1}
    DriftWorkers = {d1}
    RawPartitions = {pr1}
    DriftPartitions = {pd1}
    KeyPartition <- KeyToFirst
    Mappings = {m1, m2}
    Predefined <- NoPredefined
    InitialDisks <- EmptyDisk
    SupportedEvents = {e1}
    Result <- SharedMapping
    Oversized = {}
    MaxCrashes = 1
    MaxEvictions = 0
    MaxRepeats = 0
    MaxOutages = 0
INVARIANT FailedNotStored
