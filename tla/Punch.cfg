SPECIFICATION PunchSpec
CONSTANTS
    a = a
    b = b
    Small = a
    Large = b
    Lives <- MCLives
    MAX_BACKOFF = 2
    None = None
INVARIANTS PunchTypeOK OnlyAskingIsHeldBack
CHECK_DEADLOCK FALSE
PROPERTIES PeersAreReached LonelyRouteEnds
