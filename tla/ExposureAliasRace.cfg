SPECIFICATION Spec
CONSTANTS
  None = None
  pA = pA  pB = pB  web = web  api = api
  hWeb = hWeb  hApi = hApi  hS1 = hS1  hS2 = hS2  hNick = hNick
  id1 = id1  id2 = id2
  Hosts = {hWeb, hApi, hS1, hS2, hNick}
  ShareIds = {id1, id2}
  Projects = {pA, pB}
  Names = {web, api}
  Hashes = {1}
  Containers <- Neighbours
  AliasHosts = {hNick}
  ShareHost <- HostOfShare
  RemotePublic = TRUE
  Requests = {q1, q2}
  Kinds = {"alias"}
  Callers = {FALSE}
  Faults = FALSE
  Ttls = {1}
  MaxEpoch = 2
  MaxNow = 0
CHECK_DEADLOCK FALSE
INVARIANTS RowsAndFileAgree

