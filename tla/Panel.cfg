SPECIFICATION ScopedSpec
CONSTANTS
  None = None
  b1 = b1  b2 = b2
  MaxChanges = 2
  BuildIds = {b1, b2}
  Polled = TRUE
  Breaks = 1
  Forced = TRUE
  pA = pA  pB = pB  web = web  api = api
  hWeb = hWeb  hApi = hApi  hS1 = hS1  hS2 = hS2  hNick = hNick
  id1 = id1  id2 = id2
  Hosts = {hWeb, hApi, hS1, hNick}
  ShareIds = {id1}
  Projects = {pA, pB}
  Names = {web, api}
  Hashes = {1}
  Containers <- WebOnly
  AliasHosts = {hWeb}
  ShareHost <- HostOfShare
  RemotePublic = TRUE
  Requests = {q1}
  Kinds = {"create", "open"}
  Callers = {FALSE, TRUE}
  Faults = TRUE
  Ttls = {1}
  MaxEpoch = 2
  MaxNow = 1
  CliHosts = {hWeb}
  CliKinds = {"protect", "open", "remove", "revoke", "gc"}
CHECK_DEADLOCK FALSE
INVARIANTS BothTypeOK RegistryAlwaysParses
INVARIANTS ShellTypeOK LimitsWhileOpen ConfirmedIsTrue ForcedReadsAreCurrent
PROPERTIES ImplementsRecord BothSidesEnd NoPageGoesBack PageCatchesUp
