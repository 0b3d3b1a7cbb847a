SPECIFICATION Spec
CONSTANTS
    None = None
    Listener = "l1"
    Slow = {"b1"}
    Bucket <- MCBucket
    InTable <- MCInTable
    Queries <- MCQueries
    Configs <- MCConfigs
    Replies <- MCReplies
    Loads <- MCLoads
    Keys <- MCKeys
    Addresses <- MCAddresses
    Bytes <- MCBytes
    Defaults <- MCDefaults
    MaxQueries = 2
    RrPeriod = 2
    MaxInbox = 1
    MaxEvents = 1
INVARIANTS
    ForwardsAreBounded
    
    CheckMatchesIngress
    RouteSharesAreExact
    TruncationIsHonest
    ScriptedActionsAgree
    TablesAreTheFiles

    
CHECK_DEADLOCK FALSE
