CONSTANTS
  Ports = {1, 2, 9}
  Bodies <- MCBodies
  PanelForm <- MCPanelForm
  Modern <- MCModern
  Forms <- MCForms
  Drifts <- MCDrifts
  FirstStamps = {0, 1}
  Handlers = {h1}
  Togglers = {}
  Parts = {"normaliser", "cert"}
  MaxEdits = 2
  MaxToggles = 0
  MaxCerts = 1
  MaxFaults = 1
  MaxDrifts = 0
SPECIFICATION NSpec
PROPERTY NormaliserKeepsTheRest
CHECK_DEADLOCK FALSE
