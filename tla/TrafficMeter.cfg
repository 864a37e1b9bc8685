CONSTANTS
  Workers = {w1, w2}
  Pushers = {p1}
  Limit = 2
  BandDivisor = 2
  Starts = {1}
  Kinds = {0, 1}
  Amounts = {0, 2}
  Chunks = {2}
  MaxCarried = 3
  MaxPeriods = 1
  MaxOps = 2
  MaxResets = 1
  MaxFaults = 1
SPECIFICATION Spec
INVARIANTS MTypeOK ClientNeverOvercharged ChargedOnce CutOnlyWhenSpent
SYMMETRY MCSymmetry
CHECK_DEADLOCK FALSE
