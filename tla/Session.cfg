SPECIFICATION SafeSpec
CONSTANTS
    Clients = {anna, bert}
    Names = {anna, bert}
    Usernames <- OneIsNameless
    NoName = none
    AllocatedPeers = 2
    MaxId = 2
    MaxPeers = 3
    OwnerStops = TRUE
    ProtoVer = v0
    Versions = {v0, v1}
    MaxAttempts <- OneReturns
    MaxChats <- OneChats
CHECK_DEADLOCK FALSE
INVARIANTS PeerDataMatchesPlayers PlayerIdsUnique RosterConverges IdentityAgrees ChatAttribution CallbackProtocol
