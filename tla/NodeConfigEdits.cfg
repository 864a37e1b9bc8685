CONSTANTS
  Ports = {1, 2, 9}
  Drifts <- MCDrifts
  Bodies <- MCBodies
  PanelForm <- MCPanelForm
  Modern <- MCModern
  Forms <- MCForms
  FirstStamps = {0, 1}
  Handlers = {h1, h2}
  Togglers = {}
  Parts = {}
  MaxEdits = 2
  MaxToggles = 0
  MaxCerts = 0
  MaxFaults = 1
  MaxDrifts = 0
SPECIFICATION NSpec
INVARIANT NoEditReverted
CHECK_DEADLOCK FALSE
