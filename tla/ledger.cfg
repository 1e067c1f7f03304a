\* Retries of four requests by processes that die at any step.
SPECIFICATION FairSpec
CONSTANTS
  create = create  reopen = reopen  clash = clash  other = other  None = None
  Processes = {p1, p2}
  Requests = {create, reopen, clash, other}
  Key <- Keys
  Body <- Bodies
  Creates = {create}
  Late = {}
  Splits = {}
  ViewCount = 2
  CrashOutcomes = {"none", "partial", "whole"}
  ProcessCrash = TRUE
  PowerLoss = FALSE
INVARIANTS
  TypeOK
  AtMostOncePerKey
  AckedVisible
  ConflictIsReal
PROPERTIES
  ViewsMoveForward
  FailsClosed
  ImplementsCommandLog
  EveryCommandEnds
