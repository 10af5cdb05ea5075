SPECIFICATION ScopedSpec
CONSTANTS
  None = None
  pA = pA  pB = pB  web = web  api = api
  hWeb = hWeb  hApi = hApi  hS1 = hS1  hS2 = hS2  hNick = hNick
  id1 = id1  id2 = id2
  Hosts = {hWeb, hApi, hS1, hS2, hNick}
  ShareIds = {id1, id2}
  Projects = {pA, pB}
  Names = {web, api}
  Hashes = {1, 2}
  Containers <- Everything
  AliasHosts = {hWeb, hApi}
  ShareHost <- HostOfShare
  RemotePublic = TRUE
  Requests = {q1, q2}
  Kinds = {}
  Callers = {FALSE}
  Faults = TRUE
  Ttls = {1, 2}
  MaxEpoch = 2
  MaxNow = 2
CHECK_DEADLOCK FALSE
INVARIANTS TypeOK NoAliasInheritsADecision RoutedSharesAskForACredential OneSharePerContainer
PROPERTIES ImplementsRegistry OnlyOwnRecords NoCredentialForARevokedShare
SYMMETRY Slots
