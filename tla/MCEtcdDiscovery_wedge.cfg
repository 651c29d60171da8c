SPECIFICATION FairSpec
CONSTANTS
    n1 = n1
    n2 = n2
    n3 = n3
    Nodes = {n1, n2}
    None = None
    MaxEvents = 1
CHECK_DEADLOCK FALSE
PROPERTY RegisteredStarts
