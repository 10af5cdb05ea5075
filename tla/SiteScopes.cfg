SPECIFICATION ScopedSpec
CONSTANTS
  None = None
  ada = ada  bob = bob
  Hosts = {h1}
  ShareIds = {}
  Projects = {}
  Names = {}
  Hashes = {1, 2}
  People = {ada, bob}
  TokenIds = {1, 2}
  StateIds = {3, 4}
  SessionSeconds = 6
  PanelSeconds = 1
  TokenSeconds = 1
  CacheSeconds = 3
  Ways = {}
  MaxInFlight = 2
  Restarts = TRUE
  MaxEpoch = 2
  MaxNow = 5
  Containers = {1, 2, 3}
  Layouts <- SomeLayouts
  Graphs <- SomeGraphs
  MaxDisturbed = 1
  Targets = {"db"}
  BridgeIds = {1, 2}
  Requests = {1, 2, 3}
  NoTarget = NoTarget
CHECK_DEADLOCK FALSE
INVARIANTS TypeOK SessionsEndWithTheirCredential TokensOpenOnce TokensStayInTheirBrowser LostRightEnds
INVARIANTS BridgesTypeOK EveryServiceIsAnsweredFor DependenciesKeepTheirOrder SuccessIsTrue
INVARIANTS PanelLeavesOneOffs AloneOneRuns
PROPERTIES RemovalOfRunningIsConfirmed PorttaOpensForReal
