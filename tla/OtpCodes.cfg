\* Two accounts, two loads at a time, with fairness; a prompt app turns the clock longer.
SPECIFICATION TimedFairSpec
CONSTANTS
    N = 2
    Period <- MCPeriod
    Broken = {}
    Loads = {l1, l2}
    MaxTime = 8
    SlowTime = 4
    MaxChanges = 1
    None = None
INVARIANTS
    TypeOK
    RefreshEnds
    CodesAreFresh
PROPERTIES
    ListCatchesUp
