SPECIFICATION Spec
CONSTANTS
    ProviderIds = {1, 2}
    ChannelIds = {1, 2, 3}
    AccountIds = {1}
    Protocols = {"openai", "anthropic"}
    Upstreams = {"up"}
    Bases = {"x"}
    Surfaces <- MCSurfaces
    Admins = {a1, a2}
    RouteOrder <- MCRouteOrder
    Chains <- MCChains
    RowNames <- MCRowNames
    NameLists <- MCNameLists
    ProviderLists <- MCProviderLists
    Windows = {0, 2}
    Databases <- MCDatabases
    MaxRequests = 3
SYMMETRY Symmetry
INVARIANTS
    CandidatesHaveURL
CHECK_DEADLOCK FALSE
