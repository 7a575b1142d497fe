SPECIFICATION Spec
CONSTANTS
    Sizes <- MCOne
    Int32Half = 4
    HashTypes = {"sha", "other"}
    HT_NONE = "none"
    Supported = {"sha"}
    Masks <- MCMasks
    Resume = TRUE
    MaxPos = 3
INVARIANTS
    ReaderInv
    SinkInStep
    UnvalidatedOnlyIfForgiven
