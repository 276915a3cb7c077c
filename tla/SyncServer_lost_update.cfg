\* Two requests at a time, any interleaving of their steps.
SPECIFICATION Spec
CONSTANTS
    r1 = r1
    r2 = r2
    u1 = u1
    u2 = u2
    p1 = p1
    p2 = p2
    i1 = i1
    i2 = i2
    b1 = b1
    b2 = b2
    None = None
    Users = {u1, u2}
    Repos = {p1, p2}
    Ids = {i1}
    Blobs = {b1, b2}
    Stamps = {1}
    Owner <- MCOwner
    DefaultRepos = {p1}
    Requests = {r1, r2}
    Batches <- MCBatches
    Edits <- MCEdits
    MaxVersion = 2
PROPERTIES
    VersionsGuardContent
