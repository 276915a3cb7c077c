\* A PIN is set, and the app started again.
SPECIFICATION Spec
CONSTANTS
    Pins = {n1, n2}
    Salts = {s1, s2}
    Checks = {c1}
    FreeAttempts = 2
    MaxAccounts = 1
    None = None
SYMMETRY Symmetry
INVARIANTS
    AccountsAreReadable
