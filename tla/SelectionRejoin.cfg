SPECIFICATION FairSpec
CONSTANTS
    Panels = {1, 2}
    Clock <- SkewedClocks
    MaxEdits = 1
    MaxTurns = 1
    MaxDrops = 1
    MaxLost = 1
CHECK_DEADLOCK FALSE
INVARIANTS
    SameClaimSameChoice
    EchoNeverLeads
    QuietRoomAgrees
PROPERTIES
    StampsClimb
    ClaimsFollowActs
    RoomSettles
