SPECIFICATION Spec
CONSTANTS
    KeyOrder <- PlainKeys
    LeafTypes = {"integer", "string"}
    Signatures <- SmallSignatures
    MaxDepth = 2
    MaxMappings = 1
INVARIANTS MappingFitsItsCase PredefinedIsReachable CaseInv
