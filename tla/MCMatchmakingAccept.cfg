SPECIFICATION Spec
CONSTANTS
    u1 = u1 u2 = u2 u3 = u3
    s1 = s1 s2 = s2 s3 = s3 s4 = s4
    t1 = t1 t2 = t2 t3 = t3
    None = None
    Users = {u1, u2, u3}
    Sockets = {s1, s2, s3, s4}
    Tickets = {}
    Owner <- ThreeUsers
    Formats = {"tcg"}
    BotEnabled = FALSE
    BotMin = 1
    BotMax = 2
    BotDelays <- NoBot
    AcceptSteps = {TRUE}
    AcceptTimeout = 1
    QueueTtl = 0
    MatchedGrace = 1
    JoinGrace = 0
    MaxNow = 2
    TcpSockets = {s1, s3}
    Watchers = {s1, s3}
    RoomIds = {1}
SYMMETRY SameUser
CONSTRAINT FirstRoom
CHECK_DEADLOCK FALSE
INVARIANTS TypeOK UserQueuedOnce IndexAgrees ConsentBeforeRoom RoomOfTwo
PROPERTIES KeepsPlace NoOvertaking
