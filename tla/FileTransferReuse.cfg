SPECIFICATION Spec
CONSTANTS
    Request = {1, 2}
    Path = {p1, p2}
    Handle = {h1, h2}
    Host = {ftp}
    Job <- OneHost
    Chunks = 2
    Linux = TRUE
    Skipped = Skipped
    None = None
    p1 = p1
    p2 = p2
    web = web
    ftp = ftp
    up = up
INVARIANT
    OwnOptions
