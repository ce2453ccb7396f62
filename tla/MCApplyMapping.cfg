SPECIFICATION Spec
CONSTANTS
    FloatMax = 4
    ColumnMax = 2
    Kind <- MCKind
    Payloads <- MCPayloads
    Mappings <- MCMappings
INVARIANTS TypesFollowStructure TextRoundTrip RowsAreClean ApplyInv OutcomeIsFunction
