SPECIFICATION Spec
CONSTANTS
    Value = {v1, v2, v3, v4}
    Name = {11, 12}
    NoValue = NoValue
    NoHandle = NoHandle
    MaxHandles = 3
    MaxItems = 2
    SharedRoots = FALSE
SYMMETRY Interchangeable
INVARIANTS
    TypeOK
    FreeListExact
    Forest
    ParsonFreesChildren
    OwnedOnce
PROPERTY MapChangeFreesAll
