SPECIFICATION Spec
CONSTANTS
    u1 = u1 u2 = u2 u3 = u3
    s1 = s1 s2 = s2 s3 = s3 s4 = s4
    t1 = t1 t2 = t2 t3 = t3
    None = None
    Users = {u1, u2}
    Sockets = {s1}
    Tickets = {t1, t2, t3}
    Owner <- PollOwners
    Formats = {"tcg"}
    BotEnabled = TRUE
    BotMin = 1
    BotMax = 2
    BotDelays <- SomeBot
    AcceptSteps = {TRUE}
    AcceptTimeout = 1
    QueueTtl = 0
    MatchedGrace = 1
    JoinGrace = 1
    MaxNow = 2
    TcpSockets = {}
    Watchers = {}
    RoomIds = {1, 2}
SYMMETRY SameUserTickets
CHECK_DEADLOCK FALSE
INVARIANTS TicketsHold
PROPERTIES PollersAreServed
