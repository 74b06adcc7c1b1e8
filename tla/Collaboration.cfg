CONSTANTS
    a1 = a1
    a2 = a2
    b1 = b1
    w1 = w1
    ann = ann
    bob = bob
    room = room
    Sessions = {a1, a2, b1}
    Works = {w1}
    AgentOf <- MCAgentOf
    RoomOf <- MCRoomOf
    Assignee <- MCAssignee
    WorkRoom <- MCWorkRoom
    MaxAttempts = 2
    PresenceTimeout = 2
    Lifetime = 3
    WorkLife = 3
    LeaseTime = 2
    Grace = 0
    MaxClock = 3
    LastWork = 0
    MaxPromotions = 2
SPECIFICATION MCSpec
VIEW Seen
ACTION_CONSTRAINT PeerOnlyReviews
INVARIANT LeaseMatchesWork
INVARIANT OwnerIsPresent
INVARIANT ResultIsOfLastLease
INVARIANT AcceptedIsProven
CHECK_DEADLOCK FALSE
PROPERTY PresentOwnerKeepsLease
PROPERTY LeasesEnd
PROPERTY PromotionsEnd
