CONSTANTS
  Workers = {w1, w2}
  Ops = {"suspend", "quota", "resume", "rollover", "detect", "lift", "resumeif", "enable", "disable", "profile", "emergency", "reset", "delete"}
  Loops = {}
  Starts = {"none", "traffic_exceeded", "geo_auto"}
  MaxUses = 1
  HoldTime = 1
  MaxTime = 1
  MaxOps = 3
  MaxFaults = 0
  MaxCrashes = 0
SPECIFICATION Spec
INVARIANT TypeOK
PROPERTIES LiftIsDue GrantKeepsHold GrantSpendsOneUse
CHECK_DEADLOCK FALSE
