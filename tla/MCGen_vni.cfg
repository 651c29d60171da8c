SPECIFICATION AnySpec
CONSTANTS
    Texts <- MCTexts
    Arguments <- MCArguments
    Filters <- MCFilters
    Names = {"a", "b", "c"}
    Configs <- MCConfigs
    Targets <- MCTargets
    Given <- MCGiven
    SpartanResolvers = {198}
    LongNames = {"dcos-long-name"}
    ReservedIps <- MCReservedIps
    Sources <- MCSources
    Templates <- MCTemplates
    MaxRuns = 2
    Generations <- MCGenerations
    RoleArguments <- MCRoleArguments
    MaxJobs = 2
    Tries = 1
INVARIANT VniIsFree
CHECK_DEADLOCK FALSE
