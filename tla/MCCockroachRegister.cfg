SPECIFICATION FairSpec
CONSTANTS
    n1 = n1
    n2 = n2
    n3 = n3
    Nodes = {n1, n2, n3}
    None = None
    MaxCrashes = 2
    MaxExpiries = 0
CHECK_DEADLOCK FALSE
INVARIANTS
    TypeOK
    OneBootstrap
    JoinListUsable
    OneCluster
PROPERTIES
    MembersNeverLost
    ImplementsMembership
    Converges
