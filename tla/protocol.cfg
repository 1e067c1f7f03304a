\* A compiled graph of an author node and a gated review node.
SPECIFICATION MaterializedSpec
CONSTANTS
  w1 = w1  w2 = w2  g1 = g1  None = None
  WorkItems = {w1, w2}
  Attempts = {a1, a2}
  Versions = {v1, v2}
  Gates = {g1}
  Jobs = {}
  Instructions = {}
  Feedback = {f1}
  Callers = {c1}
  Workers = {k1, k2}
  Records = {}
  TaskKind = "protocol"
  Tier <- TierL3
  RecordContract <- PlanAndQuality
  ContractRoles = {"worker", "reviewer"}
  BatchRoles = {None}
  Nodes = {w1, w2}
  Graph <- ReviewGraph
  Types = {"draft"}
  ArtifactType <- Drafts
  Quotes <- QuotesAll
  TaskRequests = {"ready", "running"}
SYMMETRY Interchangeable
PROPERTIES
  ReviewedAfresh
  IndependentlyReviewed
CHECK_DEADLOCK FALSE
