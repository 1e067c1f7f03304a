SPECIFICATION FairSpec
CONSTANTS
  f1 = f1
  v1 = v1
  v2 = v2
  Processes = {p1, p2}
  None = None
  Facts = {f1}
  Values = {v1, v2}
  Requests <- MCRequests
  RequestKey <- MCRequestKey
  RequestBody <- MCRequestBody
  RollbackNames = {"n"}
  GivenStatuses = {"active"}
  MaxSnapshots = 4
  MaxRevision = 2
  MaxDeaths = 1
INVARIANTS TypeOK HistoryComplete RollbackRestores AgentGoverned BindingsHold
PROPERTIES ImplementsRegister EveryCallEnds
