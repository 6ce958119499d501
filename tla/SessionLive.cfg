SPECIFICATION Spec
CONSTANTS
    Clients = {anna, bert}
    Names = {anna, bert}
    Usernames <- OwnNameOrNone
    NoName = none
    AllocatedPeers = 2
    MaxId = 2
    MaxPeers = 3
    OwnerStops = TRUE
    ProtoVer = v0
    Versions = {v0, v1}
    MaxAttempts <- Once
    MaxChats <- Never
CHECK_DEADLOCK FALSE
PROPERTIES ImplementsLobby HandshakeAnswered LeaversForgotten StopEmptiesServer
