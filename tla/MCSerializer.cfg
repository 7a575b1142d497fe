SPECIFICATION SerializerSpec
CONSTANTS
    Decls <- MCDecls
    Decl <- MCDecl
    Roots <- MCRoots
    Nodes <- MCNodes
    Null = "deserializer_null"
    MaxEvents = 14
    MaxOpen = 5
    Objects <- MCObjects
    MaxItems = 2
    RecordIds <- MCRecordIds
INVARIANTS
    TypeOK
    ContainerHandlesItsOwn
    ItemsInStep
    OnlyStoresOne
    KnownRequirementsReported
    WrittenIsRecognised
    WrittenIsAccepted
