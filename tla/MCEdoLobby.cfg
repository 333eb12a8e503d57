SPECIFICATION Spec
CONSTANTS
  ann = ann
  bob = bob
  ann2 = ann2
  Client <- MCClient
  NameOf <- MCName
  AddressOf <- MCAddress
  Admits <- MCAdmits
  Team0 = 1
  Team1 = 1
  NoClient = NoClient
  MaxBuilds <- MCMaxBuilds
  MaxAsked = 2
CHECK_DEADLOCK FALSE
INVARIANTS LobbySound
PROPERTIES StartsWithThePresent LobbyAnswers
