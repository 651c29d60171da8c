SPECIFICATION MCSpec
CONSTANTS
    c1 = c1
    c2 = c2
    p1 = p1
    p2 = p2
    Clients = {c1, c2}
    Ids = {p1, p2}
    Files = {"pkginfo", "bin"}
    PkgInfo = "pkginfo"
    None = None
    MaxOps = 4
    MaxFaults = 2
    Starts <- MCStarts
    MaxVersion = 2
    Remote = "first"
    Builds <- MCBuilds
    Providers <- MCProviders
    Preferred = "aws"
    InPlace = {"local"}
    Channels = {"dev"}
    Workers = {1, 2}
    MaxJobs = 2
    Versions = {"v1", "v2"}
    Nodes = {"m1", "m2", "a"}
    MasterSets = {{"m1"}, {"m1", "m2"}}
    Users = {"u", "v"}
    MaxLost = 2
SYMMETRY Symmetry
INVARIANTS
    PresentIsComplete
    ActiveIsPresent
    AddIsAllOrNothing
    TreeBuildsInOrder
    CompleteIsCurrent
    WhatIsPublishedWorks
    RestoresDoWhatTheySay
    NodesAreSetUp
\* Operations, edits and releases are bounded.
CHECK_DEADLOCK FALSE
