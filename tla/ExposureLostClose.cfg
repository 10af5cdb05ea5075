SPECIFICATION BothSpec
CONSTANTS
  None = None
  pA = pA  pB = pB  web = web  api = api
  hWeb = hWeb  hApi = hApi  hS1 = hS1  hS2 = hS2  hNick = hNick
  id1 = id1  id2 = id2
  Hosts = {hWeb, hApi, hS1, hNick}
  ShareIds = {id1}
  Projects = {pA, pB}
  Names = {web, api}
  Hashes = {1, 2}
  Containers <- Siblings
  AliasHosts = {hWeb}
  ShareHost <- HostOfShare
  RemotePublic = TRUE
  Requests = {q1}
  Kinds = {"open", "close"}
  Callers = {FALSE, TRUE}
  Faults = FALSE
  Ttls = {1}
  MaxEpoch = 2
  MaxNow = 1
  CliHosts = {hWeb}
  CliKinds = {"protect"}
CHECK_DEADLOCK FALSE
PROPERTIES CloseStaysEffective
