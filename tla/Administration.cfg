SPECIFICATION ScopedSpec
CONSTANTS
  ana = ana  bia = bia  caio = caio
  shop = shop  blog = blog
  Projects = {shop, blog}
  People = {ana, bia, caio}
  Requests = {r1, r2}
  Slots = {r1, r2}
  None = None
  Grantable = {1, 2}
  Changes = {1, 2}
  MaxRuns = 2
SYMMETRY Everybody
INVARIANTS TypeOK OneAnswerPerRun AloneItDoesWhatWasAsked AccountsTypeOK OneOwner
INVARIANTS MembershipsTypeOK AloneAdministratorsHoldNone
PROPERTIES OwnershipMovesByItsHolder AloneListIsWhole KeptThroughout
\* The runner stops with MaxRuns, the panel with its owner banned and nobody else.
CHECK_DEADLOCK FALSE
