SPECIFICATION Spec
CONSTANTS
    Sizes <- MCWrapping
    Int32Half = 2
    HashTypes = {"sha"}
    HT_NONE = "none"
    Supported = {"sha"}
    Masks = {}
    Resume = FALSE
    MaxPos = 4
PROPERTIES
    SizeHonoured
