SPECIFICATION SLiveSpec
CONSTANTS
  Intents = {"A", "B"}
  First = "A"
  MaxCred = 2
  MaxEdits = 1
  MaxFaults = 1
  Slots = {1, 2}
  Starts = {"fresh"}
CHECK_DEADLOCK FALSE
INVARIANTS
  STypeOK
  ReportsAccepted
  NeverAhead
PROPERTIES
  ConfirmedWasRun
  Converges
