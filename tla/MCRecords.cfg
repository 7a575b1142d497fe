SPECIFICATION Spec
CONSTANTS
    ByteBits = 4
    Chunk = 8
    Handles = {h1, h2}
    h1 = h1
    h2 = h2
    MaxBlocks = 2
    MaxLen = 2
    MaxRecords = 2
    Plain <- MCPlain
    Memories <- MCMemories
    Registries <- MCRegistries
    Foreign <- MCForeign
SYMMETRY MCSymmetry
INVARIANT RecordsTypeOK
INVARIANT BuffersOwned
INVARIANT ReadsWhatWasWritten
INVARIANT ForeignNormalised
CHECK_DEADLOCK FALSE
