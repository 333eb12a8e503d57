SPECIFICATION Spec
CONSTANTS
    a = a b = b d = d e = e
    None = None
    Conn = {a, b, d, e}
    Parties <- AllParties
    MaxRooms = 2
    MaxAsked = 1
CHECK_DEADLOCK FALSE
INVARIANTS LeagueHolds RoomsSound
PROPERTIES RequestsAreHonoured
