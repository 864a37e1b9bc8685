SPECIFICATION Spec
CONSTANTS
  Agents = {a1}
  TaskIds = {1, 2, 3}
  NoTaskId = 0
  Inputs = {"probe", "upgrade"}
  Kinds = {"k1", "k2"}
  KindOf <- MCKindOf
  ArgBytes <- MCArgBytes
  Keys = {"k"}
  NoKey = "nokey"
  Bodies = {"b"}
  MaxActive = 2
  MaxArgBytes = 3
  MaxEvidence = 2
  MaxOffer = 1
  Requests <- MCRequests
  Reports <- MCReports
  Budgets = {1, 3}
  MaxBatch = 2
  MaxTime = 2
CHECK_DEADLOCK FALSE
INVARIANTS
  TypeOK
  EvidenceFencesTask
  WithinQuotas
  OneTaskPerKey
  CreationReplays
  AcceptedReplays
PROPERTIES
  ResultsKept
  KeepsLedger
