\* A request whose text holds a Unicode line separator.
SPECIFICATION Spec
CONSTANTS
  create = create  reopen = reopen  clash = clash  other = other  None = None
  Processes = {p1, p2}
  Requests = {create, reopen, clash, other}
  Key <- Keys
  Body <- Bodies
  Creates = {create}
  Late = {}
  Splits = {other}
  ViewCount = 2
  CrashOutcomes = {}
  ProcessCrash = FALSE
  PowerLoss = FALSE
SYMMETRY AnyProcess
INVARIANTS
  LedgerReadable
