\* Retiring the selected version while the Task completes.
SPECIFICATION Spec
CONSTANTS
  w1 = w1  w2 = w2  g1 = g1  None = None
  WorkItems = {w1}
  Attempts = {a1}
  Versions = {v1, v2}
  Gates = {}
  Jobs = {}
  Instructions = {}
  Feedback = {f1}
  Callers = {c1}
  Workers = {k1}
  Records = {}
  TaskKind = "legacy"
  Tier <- TierL3
  RecordContract <- PlanAndQuality
  ContractRoles = {"worker"}
  BatchRoles = {None}
  Nodes = {w1}
  Graph <- NoGraph
  Types = {"draft"}
  ArtifactType <- Drafts
  Quotes <- QuotesAll
  TaskRequests = {"ready", "running", "waiting", "blocked", "paused", "cancelled", "failed"}
SYMMETRY Interchangeable
PROPERTIES
  CompletedKeepsResult
CHECK_DEADLOCK FALSE
