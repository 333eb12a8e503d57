SPECIFICATION Spec
CONSTANTS
  NeedWins = 2
  MaxDuels = 2
  MaxGames <- TwoGames
  MaxReturns <- OneReturn
  MaxDecks = 1
  Hands <- TwoHands
CHECK_DEADLOCK FALSE
INVARIANTS ResultsCountOnce MatchSound
PROPERTIES KeepsScore
