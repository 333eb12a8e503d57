SPECIFICATION LedgerSpec
CONSTANTS
    None = None
    Users = {1, 2, 3}
    BanList = 2
    Global = 3
    Group = 1
    WinsGoal = 2
    StreakGoal = 2
    InitialRating = 3
    RatingFloor = 1
    ProvisionalGames = 1
    HighRated = 6
    MaxGap = 4
    KProvisional = 2
    KHighRated = 1
    KDefault = 1
    Curve <- MCCurve
    Cases <- AllCases
    Aliases <- MCAliases
    DateOf <- MCDates
    GroupDefs <- MCGroups
    Accounts = {1, 2}
    Played = {"tcg1", "old", "N/A"}
    Labels = {"Global", "tcg1"}
    Goal = 2
    Pasts <- AllPasts
    DeckCodes <- CodesSent
    CardOf <- MCCards
    DeckRooms <- MCDeckRooms
    DecksSent <- MCSent
    NoDeck = NoDeck
CHECK_DEADLOCK FALSE
INVARIANTS RatingIsItsHistory NoLockCycle DecksAreLegal
PROPERTIES BooksAgree
