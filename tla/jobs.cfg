\* Two batches, one retry, deaths of controllers and workers.
SPECIFICATION FairSpec
CONSTANTS
  None = None
  Pids = {p1, p2}
  JobKinds = {"narrative_generation", "narrative_audit"}
  StartChapter = 1
  EndChapter = 2
  BatchSize = 1
  HeavyCadence = 2
  KnowledgeRequired = TRUE
  MaxRetries <- Retries
  MaxAttempts <- Attempts
  MaxCrashes <- Deaths
  CrashPoints = {"orphaned", "completion", "feedback", "dispatch", "mark", "supersede"}
  LeasesExpire = TRUE
INVARIANTS
  TypeOK
  ReceiptsAppliedOnce
  BatchesInOrder
  RewritesEnd
  OneWorker
PROPERTIES
  SealedOnFreshEvidence
  AttemptsResolved
  TerminalReported
CHECK_DEADLOCK FALSE
