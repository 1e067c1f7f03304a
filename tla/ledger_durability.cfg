\* Power failures between the steps of two processes.
SPECIFICATION Spec
CONSTANTS
  create = create  reopen = reopen  clash = clash  other = other  None = None
  Processes = {p1, p2}
  Requests = {create, reopen, clash, other}
  Key <- Keys
  Body <- Bodies
  Creates = {create}
  Late = {}
  Splits = {}
  ViewCount = 2
  CrashOutcomes = {}
  ProcessCrash = FALSE
  PowerLoss = TRUE
SYMMETRY AnyProcess
INVARIANTS
  AckedDurable
