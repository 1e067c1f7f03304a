\* Generic WorkItems, binding the protocol and materializing it.
SPECIFICATION Spec
CONSTANTS
  w1 = w1  w2 = w2  g1 = g1  None = None
  WorkItems = {w1, w2}
  Attempts = {a1}
  Versions = {}
  Gates = {g1}
  Jobs = {j1}
  Instructions = {i1}
  Feedback = {}
  Callers = {}
  Workers = {k1}
  Records = {}
  TaskKind = "protocol"
  Tier <- TierL3
  RecordContract <- PlanAndQuality
  ContractRoles = {"worker", "reviewer"}
  BatchRoles = {None, "worker"}
  Nodes = {w1, w2}
  Graph <- ReviewGraph
  Types = {"draft"}
  ArtifactType <- Drafts
  Quotes <- QuotesAll
  TaskRequests = {"ready", "running", "waiting", "blocked", "paused", "cancelled", "failed"}
SYMMETRY Interchangeable
PROPERTIES
  CompiledGraphFixed
CHECK_DEADLOCK FALSE
