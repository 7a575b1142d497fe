SPECIFICATION Spec
CONSTANTS
    Sources <- MCSources
    Ids = {1, 2}
    MaxNodes = 4
    MaxChildren = 3
    MaxHandles = 2
INVARIANTS
    FindAllVisitsMatches
    FindMostShallowVisitsShallow
    CopyIsComplete
    SourceIsUntouched
    ToTreeInStep
    DefinedWhenBalanced
    NestedSinkInStep
PROPERTIES
    KeepsProtocol
CHECK_DEADLOCK FALSE
