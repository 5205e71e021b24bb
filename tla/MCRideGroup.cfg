CONSTANTS
    None = None
    Peers = {p1}
    RedisCap = 2
    ProbeRate = 3
    MaxIssued = 4
    EventCap = 1
    Fences = {1, 2}
    Grants <- MCGrants
    PeerMessages <- MCPeerMessages
    Loads <- MCLoads
SPECIFICATION Spec
INVARIANTS
    TypeOK
    NoLostWakeup
    NothingRestoresAGrant
    BlockNotMissed
PROPERTIES
    ApplyIsConfirmed
    NoPositionAfterNoFix
    PeerNeverGoesBack
CHECK_DEADLOCK FALSE
