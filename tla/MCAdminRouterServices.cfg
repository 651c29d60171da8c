SPECIFICATION Spec
CONSTANTS
    Sep <- Slash
    Apps <- MCApps
    Frameworks <- MCFrameworks
    Paths <- MCPaths
    LeaderNames <- MCLeaderNames
    ResolveLimit = 2
    DnsAddress = "d1"
    Empty = Empty
    None = None
INVARIANTS
    ShortestNameRouted
    NotFoundIsCertain
