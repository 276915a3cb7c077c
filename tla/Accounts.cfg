\* Two requests at a time.
SPECIFICATION Spec
CONSTANTS
    Requests = {r1, r2}
    Users = {u1, u2}
    Names = {n1, n2}
    Repos = {p1, p2, p3, p4}
    Tokens = {t1, t2, t3, t4}
    MaxRepos = 1
    Mixes <- MCMixes
    None = None
SYMMETRY Symmetry
INVARIANTS
    TypeOK
    AccountsAreWhole
    MembershipsAreSound
    LimitUnlessOverlap
    RotationUnlessOverlap
    FailuresHaveACause
    MembersHaveMetadata
