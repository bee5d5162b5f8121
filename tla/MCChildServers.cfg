SPECIFICATION FairSpec
CONSTANTS
    NumServers = 3
    Tools <- MCTools
    AllTools = 0
    Policies <- MCPolicies
    Listings <- MCListings
    BaseName <- MCBaseName
    MaxTools = 3
    MaxName = 2
INVARIANTS
    TypeOK
    RoutesLeadHome
    EveryToolHasAName
    EveryChildIsClosed
PROPERTIES
    ServersEnd
