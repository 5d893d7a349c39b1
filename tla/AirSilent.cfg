SPECIFICATION MCSpec
CONSTANTS
    Parts = {"uci"}
    None = None
    Ip = {"a", "b"}
    Mac = {"m1", "m2"}
    Names = {"g", "x"}
    BadNames = {"x"}
    Idles = {0, 10}
    Ifaces = {"b1"}
    Capacity = 2
    Unit = 2
    MaxKeys = 1
    StoreId <- MCStoreId
    Reserved <- MCReserved
    MaxTime = 3
    MaxRequests = 4
    MaxChurn = 1
    Tables <- MCTables
    MaxFlows = 2
    Quota = 1
    MaxBytes = 2
    Slug = {"s1", "s2"}
    MaxTransfers = 1
    Lists <- MCLists
    Pairs <- MCPairs
    Foreign <- MCForeign
    Protected = {"radio2"}
    MaxVifs = 4
    MaxRadios = 4
    Grants <- MCGrants
    Policies <- MCPolicies
    Messages <- MCMessages
    Rates = {0, 1, 2}
    Hashes <- MCHashes
    AccessPoints = {"ap1", "ap2"}
    Objects = {"hostapd", "ap1", "network", "ap2"}
    MaxGrants = 2
    MaxMoves = 1
    MaxErrors = 1
    Meant <- MCMeant
    Broken <- MCBroken
    Ours = {"pc_a", "pc_b"}
    SavedSections <- MCSections
    Versions <- MCVersions
    Scopes <- MCScopes
    Watched = {"m1"}
    Ring = 2
    Reasons = {"admin"}
    MaxSessions = 3
    MaxLooks = 1
    PushedGardens <- MCGardens
    Requests <- MCRequests
    SettingsFiles <- MCFiles
    MaxTurns = 3
    MaxPushes = 2
    MaxFaults = 2
CHECK_DEADLOCK FALSE
PROPERTY AirReported
