SPECIFICATION Spec
CONSTANTS
    Sizes <- MCZeroOne
    Int32Half = 4
    HashTypes = {"sha"}
    HT_NONE = "none"
    Supported = {"sha"}
    Masks = {}
    Resume = FALSE
    MaxPos = 4
INVARIANTS
    ReadNextReadsOneNode
