SPECIFICATION Spec
CONSTANTS
    Value = {v1, v2, v3}
    Name = {11, 12}
    NoValue = NoValue
    NoHandle = NoHandle
    MaxHandles = 3
    MaxItems = 2
    SharedRoots = TRUE
SYMMETRY Interchangeable
INVARIANT ParsonFreesChildren
