SPECIFICATION Spec
CONSTANTS
    Sep <- Slash
    Apps <- MCAppsStaging
    Frameworks <- MCFrameworks
    Paths <- MCPaths
    LeaderNames <- MCLeaderNames
    ResolveLimit = 2
    DnsAddress = "d1"
    Empty = Empty
    None = None
INVARIANTS
    EntriesAreRunning
