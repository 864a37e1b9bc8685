CONSTANTS
  Workers = {w1}
  Ops = {"delete", "profile", "emergency"}
  Loops = {"healer", "runner"}
  Starts = {"traffic_exceeded"}
  MaxUses = 1
  HoldTime = 0
  MaxTime = 0
  MaxOps = 3
  MaxFaults = 1
  MaxCrashes = 1
SPECIFICATION FairSpec
PROPERTIES Converges QueuedDeletionFinishes
CHECK_DEADLOCK FALSE
