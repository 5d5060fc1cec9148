CONSTANTS
    Sessions = {s1, s2}
    Posts = {p1, p2, p3}
    Direct = Direct
    MaxSessions = 1
    QueueSize = 1
    MaxSlots = 1
SPECIFICATION FairSpec
INVARIANTS
    RoomIsReserved
    SlotsAccounted
PROPERTY PostsAnswered
