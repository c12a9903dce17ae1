SPECIFICATION Spec
CONSTANTS
    Value = {v1, v2}
    MaxValues = 4
INVARIANTS
    TypeOK
    FreeHandlesUnused
PROPERTY NoOverwrite
