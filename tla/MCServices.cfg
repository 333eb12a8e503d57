SPECIFICATION Spec
CONSTANTS
  stats = stats
  log = log
  damage = damage
  turn = turn
  response = response
  refresh = refresh
  nil = nil
  Plugins <- MCPlugins
  Kinds <- MCKinds
  Subscriptions <- MCSubscriptions
  MaxQueue = 2
  MaxViolations = 2
  MaxAttachments = 2
  MaxEvents = 2
  Catalogs <- MCCatalogs
  Ticks = {1, 2}
  BanRooms = {1}
  MaxVersion = 2
  MaxFailures = 1
  BootPools = {"standard"}
  NamedPools = {"rush"}
  Askers = {1, 2}
  Runs = {1, 2}
  MaxCards = 3
  MaxCrashes = 1
  Absent = nil
  Manifests <- MCManifests
  Disks <- MCDisks
  RoomPools = {"standard", "extended", "rush", "typo"}
  CardCodes = {0, 1, 2, 3, 4, 5, 7, 9, 13, 14, 20}
  MaxCode = 15
  MinCapacity = 2
  Multiplier = 5
  CoreCommands <- MCCommandsToCore
  MaxCores = 2
  MaxCommands = 3
  Commands <- MCCommands
CHECK_DEADLOCK FALSE
INVARIANTS RoomIsAsAsked LoadsHold
PROPERTIES ChannelHolds HubIsOrderedFeed ListsNeverLost CardsNeverGoBack ServicesCatchUp
