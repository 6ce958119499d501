SPECIFICATION SafeSpec
CONSTANTS
    Clients = {anna, bert}
    Names = {anna, bert}
    Usernames <- OwnName
    NoName = none
    AllocatedPeers = 2
    MaxId = 2
    MaxPeers = 2
    OwnerStops = FALSE
    ProtoVer = v0
    Versions = {v0, v1}
    MaxAttempts <- Once
    MaxChats <- Never
CHECK_DEADLOCK FALSE
PROPERTIES ServerFullOnlyWhenFull
