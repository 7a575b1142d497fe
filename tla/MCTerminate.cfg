SPECIFICATION Spec
CONSTANTS
    Decls <- MCDecls
    Decl <- MCDecl
    Roots <- MCExample
    Nodes <- MCNodes
    Null = "deserializer_null"
    MaxEvents = 12
    MaxOpen = 5
INVARIANTS
    ErrorsReachTheCaller
