SPECIFICATION FairSpec
CONSTANTS
    Sizes <- MCZeroOne
    Int32Half = 4
    HashTypes = {"sha"}
    HT_NONE = "none"
    Supported = {"sha"}
    Masks = {}
    Resume = FALSE
    MaxPos = 5
INVARIANTS
    TypeOK
    SourceMatchesStack
    HashCoversBody
    NoNullAccess
    ChildCountsBounded
    SinkInStep
    ReadNextKeepsToItsDepth
PROPERTIES
    KeepsProtocol
    CallReturns
