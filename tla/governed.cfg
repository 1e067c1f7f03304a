\* The governed tier, with two processes that retire its result.
SPECIFICATION Spec
CONSTANTS
  w1 = w1  w2 = w2  g1 = g1  None = None
  WorkItems = {w1}
  Attempts = {a1, a2}
  Versions = {v1}
  Gates = {}
  Jobs = {}
  Instructions = {}
  Feedback = {f1}
  Callers = {c1, c2}
  Workers = {k1}
  Records = {"execution_plan", "quality_receipt"}
  TaskKind = "tiered"
  Tier <- TierL3
  RecordContract <- PlanAndQuality
  ContractRoles = {"intake", "reviewer"}
  BatchRoles = {None}
  Nodes = {w1}
  Graph <- NoGraph
  Types = {"draft"}
  ArtifactType <- Drafts
  Quotes <- QuotesAll
  TaskRequests = {"ready", "running", "paused"}
SYMMETRY CallersToo
INVARIANTS
  SelectionSound
  LedgerReplays
  WorkersFollowPlan
  CompletedHasEvidence
CHECK_DEADLOCK FALSE
