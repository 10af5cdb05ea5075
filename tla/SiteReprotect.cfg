SPECIFICATION Spec
CONSTANTS
  None = None
  ada = ada  bob = bob
  Hosts = {h1}
  ShareIds = {}
  Projects = {}
  Names = {}
  Hashes = {1, 2}
  People = {ada}
  TokenIds = {1}
  StateIds = {2}
  SessionSeconds = 2
  PanelSeconds = 2
  TokenSeconds = 1
  CacheSeconds = 1
  Ways = {"password"}
  MaxInFlight = 2
  Restarts = FALSE
  MaxEpoch = 2
  MaxNow = 1
CHECK_DEADLOCK FALSE
INVARIANTS ChangingOrRemovingEndsSessions
