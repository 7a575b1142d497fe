SPECIFICATION Spec
CONSTANTS
    ByteBits = 4
    Chunk = 8
    Handles = {h1}
    h1 = h1
    MaxBlocks = 1
    MaxLen = 2
    MaxRecords = 2
    Plain <- MCPlain
    Memories <- MCMemories
    Registries <- MCRegistries
    Foreign <- MCForeign
INVARIANT SurplusBitsCutOff
CHECK_DEADLOCK FALSE
