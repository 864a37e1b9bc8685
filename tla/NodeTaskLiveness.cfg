SPECIFICATION FairDSpec
CONSTANTS
  Agents = {a1}
  TaskIds = {1, 2}
  NoTaskId = 0
  Inputs = {"probe"}
  Kinds = {"k1"}
  KindOf <- MCKindOf
  ArgBytes <- MCArgBytes
  Keys = {"k"}
  NoKey = "nokey"
  Bodies = {"b"}
  MaxActive = 2
  MaxArgBytes = 2
  MaxEvidence = 2
  MaxOffer = 1
  Requests <- MCLasting
  Reports = {}
  Budgets = {2}
  MaxBatch = 2
  MaxTime = 2
  Slots = {1}
  MaxRestores = 2
  MaxCrashes = 0
CHECK_DEADLOCK FALSE
PROPERTIES
  EveryTaskSettles
  OutboxDrains
