SPECIFICATION Spec
CONSTANTS
    api = api  r1 = r1  d1 = d1  d2 = d2  c1 = c1  c2 = c2  m1 = m1  m2 = m2  Null = Null
    Events = {}
    CaseOf <- NoEvents
    Cases = {c1, c2}
    RawWorkers = {api, r1}
    DriftWorkers = {d1, d2}
    Mappings = {m1, m2}
    Predefined <- NoPredefined
    InitialDisks <- EmptyDisk
    Releases <- MCReleases
    QuietReleases = TRUE
INVARIANTS StartupPriority RolloutConverges RolloutInv
PROPERTIES ResolveIsStable
