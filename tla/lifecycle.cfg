\* Leases, retries, dependencies and completion of a Task without tier.
SPECIFICATION Spec
CONSTANTS
  w1 = w1  w2 = w2  g1 = g1  None = None
  WorkItems = {w1, w2, w3}
  Attempts = {a1, a2}
  Versions = {}
  Gates = {}
  Jobs = {}
  Instructions = {}
  Feedback = {}
  Callers = {}
  Workers = {k1}
  Records = {}
  TaskKind = "legacy"
  Tier <- TierL3
  RecordContract <- PlanAndQuality
  ContractRoles = {"worker"}
  BatchRoles = {None}
  Nodes = {w1}
  Graph <- NoGraph
  Types = {"draft"}
  ArtifactType <- Drafts
  Quotes <- QuotesAll
  TaskRequests = {"ready", "running"}
SYMMETRY Interchangeable
INVARIANTS
  TypeOK
  LeaseIntegrity
  SettledHoldsNoLease
  NoLostWakeup
  DependencyOrder
  CompletedIsQuiet
CHECK_DEADLOCK FALSE
