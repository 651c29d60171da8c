SPECIFICATION FairSpec
CONSTANTS
    n1 = n1
    n2 = n2
    n3 = n3
    Nodes = {n1, n2, n3}
    None = None
    MaxEvents = 2
CHECK_DEADLOCK FALSE
INVARIANTS
    OneCluster
    ReplacedIsReadded
    ListIsQuorum
PROPERTY Converges
