SPECIFICATION Spec
CONSTANTS
    e1 = e1  c1 = c1  c2 = c2  m1 = m1  m2 = m2  d1 = d1  d2 = d2
    Null = Null
    Torn = Torn
    Events = {e1}
    Cases = {c1, c2}
    CaseOf <- AnyCase
    RawWorkers = {}
    DriftWorkers = {d1, d2}
    Mappings = {m1, m2}
    Predefined <- PredefinedSecond
    InitialDisks <- OldDisks
    MaxKills = 2
    MaxOutages = 1
INVARIANTS FilesAreWhole PredefinedLoaded FilesInv
PROPERTY StoreSpec
