SPECIFICATION Spec
CONSTANTS
  Projects = {shop, blog}
  Requests = {r1, r2}
  None = None
  MaxRuns = 2
SYMMETRY Alike
INVARIANT VolumesGoOnlyByName
CHECK_DEADLOCK FALSE
