SPECIFICATION Spec
CONSTANT
    MaxDownloads = 3
INVARIANTS
    TypeOK
    BinarySurvives
    NoRebootLoop
