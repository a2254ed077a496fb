SPECIFICATION Spec
CONSTANTS
    Sites = {home, away}
    Databases <- MCDatabases
    Selections <- MCSelections
    Handmade <- MCHandmade
    ProviderNames = {1, 2}
    Labels = {"", "main", "spare", "new"}
    Secrets = {"k1", "k2", "k3"}
    Digests = {"d1", "d2"}
    SettingKeys = {"days", "seeded"}
    AdminSettings = {"days"}
    SettingValues = {"seven", "many", "yes", "no"}
    BadValues = {"many"}
    MaxRequests = 3
    ProviderIds = {1, 2}
    ChannelIds = {1, 2, 3, 4, 5}
    AccountIds = {1, 2, 3, 4, 5, 6, 7, 8, 9, 10}
    Protocols = {"openai", "anthropic"}
    Upstreams = {"up"}
    Bases = {"x"}
    Surfaces <- MCSurfaces
SYMMETRY Symmetry
INVARIANTS
    TypeOK
    ReimportChangesNothing
    ExportsAreAccepted
    RestoreServesTheSame
    RestoreInPlaceChangesNothing
    AccountsMerge
CHECK_DEADLOCK FALSE
