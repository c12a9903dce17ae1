SPECIFICATION Spec
CONSTANTS
    Request = {1, 2}
    Path = {p1, p2}
    Handle = {h1, h2}
    Host = {web, up}
    Job <- SeparateHosts
    Chunks = 2
    Linux = TRUE
    Skipped = Skipped
    None = None
    p1 = p1
    p2 = p2
    web = web
    ftp = ftp
    up = up
SYMMETRY Symmetry
INVARIANTS
    TypeOK
    SuccessMeansComplete
    FailureLeavesNothing
    OwnOptions
