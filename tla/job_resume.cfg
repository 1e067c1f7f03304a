\* Operators pause, resume and retry a generation job.
SPECIFICATION Spec
CONSTANTS
  None = None
  Pids = {p1, p2}
  JobKinds = {"narrative_generation"}
  StartChapter = 1
  EndChapter = 2
  BatchSize = 1
  HeavyCadence = 2
  KnowledgeRequired = TRUE
  MaxRetries <- Retries
  MaxAttempts <- Attempts
  MaxCrashes <- Deaths
  CrashPoints = {"orphaned", "completion", "feedback", "dispatch", "mark", "supersede"}
  LeasesExpire = TRUE
INVARIANTS
  NeverStranded
CHECK_DEADLOCK FALSE
