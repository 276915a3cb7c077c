\* One device that adds two accounts, with a sync after each.
SPECIFICATION Spec
CONSTANTS
    d1 = d1
    d2 = d2
    p1 = p1
    p2 = p2
    i1 = i1
    i2 = i2
    u1 = u1
    None = None
    Users = {u1}
    Owner <- MCOwner
    Devices = {d1}
    Runs = {1}
    Repos = {p1}
    DefaultRepos = {p1}
    Ids = {i1, i2}
    Blobs <- MCOps
    Stamps <- MCStamps
    Offset <- Behind
    MaxOps = 2
    MaxLate = 0
PROPERTIES
    CursorCoversRecords
