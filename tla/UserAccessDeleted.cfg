CONSTANTS
  Workers = {w1, w2}
  Ops = {"delete"}
  Loops = {"healer"}
  Starts = {"none"}
  MaxUses = 1
  HoldTime = 0
  MaxTime = 0
  MaxOps = 1
  MaxFaults = 0
  MaxCrashes = 0
SPECIFICATION Spec
PROPERTY DeletedIsCutOff
CHECK_DEADLOCK FALSE
