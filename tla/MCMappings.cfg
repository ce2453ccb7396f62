SPECIFICATION Spec
CONSTANTS
    e1 = e1  e2 = e2  e3 = e3  c1 = c1  c2 = c2  m1 = m1  m2 = m2
    r1 = r1  r2 = r2  d1 = d1  d2 = d2
    pr1 = pr1  pr2 = pr2  pd1 = pd1  pd2 = pd2  Null = Null
    Events = {e1, e2}
    Cases = {c1, c2}
    CaseOf <- OwnCase
    RawWorkers = {r1}
    DriftWorkers = {d1, d2}
    RawPartitions = {pr1}
    DriftPartitions = {pd1, pd2}
    KeyPartition <- KeyByCase
    Mappings = {m1, m2}
    Predefined <- PredefinedSecond
    InitialDisks <- OldDisk
    SupportedEvents = {e1, e2}
    Result <- EitherMapping
    Oversized = {}
    MaxCrashes = 1
    MaxEvictions = 0
    MaxRepeats = 1
    MaxOutages = 0
INVARIANTS CachesAreCoherent PredefinedRows GenerateOnlyUnmapped OneGeneratorPerCase RowsFollowMapping MappingsInv
PROPERTIES MappingsAreWriteOnce
SYMMETRY DriftSymmetry
