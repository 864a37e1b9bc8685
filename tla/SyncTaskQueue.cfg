SPECIFICATION FairQSpec
CONSTANTS
  MaxId = 2
  Types = {"node", "mail"}
  Targets = {1}
  NodeTypes = {"node"}
  FreshTypes = {}
  Workers = {"sync", "mailer"}
  TypesOf <- MCTypesOf
  GatedWorkers = {"sync"}
  Callers = {1}
  MaxAttempts = 2
  Page = 1
  Backoff = 1
  MaxTime = 2
  MaxRetries = 1
  MaxBlips = 1
  MaxRestarts = 1
CHECK_DEADLOCK FALSE
INVARIANTS
  QTypeOK
  RunningIsAttended
  AttemptsCapped
PROPERTIES
  StoppedStaysStopped
  EveryTaskEnds
