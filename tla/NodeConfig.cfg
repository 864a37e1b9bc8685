CONSTANTS
  Ports = {1, 2, 9}
  Bodies <- MCBodies
  PanelForm <- MCPanelForm
  Modern <- MCModern
  Forms <- MCLoose
  Drifts <- MCDrifts
  FirstStamps = {0, 1}
  Handlers = {h1}
  Togglers = {t1}
  Parts = {"reconcile", "operator", "remover", "switch", "ownerships"}
  MaxEdits = 1
  MaxToggles = 1
  MaxCerts = 0
  MaxFaults = 1
  MaxDrifts = 2
SPECIFICATION NLiveSpec
INVARIANTS NTypeOK PortIsIntended
PROPERTIES DesiredReachesPanel MissingIsDisabled
CHECK_DEADLOCK FALSE
