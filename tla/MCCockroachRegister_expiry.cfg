SPECIFICATION Spec
CONSTANTS
    n1 = n1
    n2 = n2
    n3 = n3
    Nodes = {n1, n2}
    None = None
    MaxCrashes = 0
    MaxExpiries = 1
CHECK_DEADLOCK FALSE
INVARIANT OneBootstrap
