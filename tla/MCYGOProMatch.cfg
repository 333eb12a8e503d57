SPECIFICATION FairSpec
CONSTANTS
    p1 = p1 p2 = p2
    None = None
    Players = {p1, p2}
    Joiners = {p1}
    NeedWins = 2
    TimeLimit = TRUE
    MaxRounds = 2
    MaxMatches = 2
    MaxGames = 3
CONSTRAINT NotSilent
CHECK_DEADLOCK FALSE
PROPERTIES KeepsScore PresentNeverForfeits MatchSettles
