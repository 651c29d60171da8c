SPECIFICATION MCSpec
CONSTANTS
    NumNames = 5
    Dirs <- MCDirs
    Wants = 2
    s1 = s1
    s2 = s2
    u1 = u1
    u2 = u2
    Sets = {s1, s2}
    Units = {u1, u2}
    UnitsOf <- MCUnitsOf
    FirstSet = s1
    None = None
    Partial = Partial
    MaxFaults = 1
    MaxRequests = 1
CHECK_DEADLOCK FALSE
INVARIANT RecoveryContinues
