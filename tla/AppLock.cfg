\* Two salts, two checks at a time.
SPECIFICATION Spec
CONSTANTS
    Pins = {n1, n2}
    Salts = {s1, s2}
    Checks = {c1, c2}
    FreeAttempts = 2
    MaxAccounts = 1
    None = None
SYMMETRY Symmetry
INVARIANTS
    TypeOK
    NobodyIsLockedOut
    ShownAfterCheck
PROPERTIES
    RightPinOpens
