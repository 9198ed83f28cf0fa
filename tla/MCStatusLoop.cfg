SPECIFICATION StatusSpec
CONSTANTS
  Screen <- MCScreen
  Config <- MCConfig
  Width <- MCWidth
  QUEUE = 1
  MaxLate = 1
  Disk = {"sda"}
  Array = {}
  Celsius = {40, 60, 80}
  Url = {u1, u2}
  Task = {t1, t2}
  None = None
INVARIANTS
  StatusTypeOK
  PreviewIsReal
  ShownIsDrawn
PROPERTIES
  OneAttemptEach
  MonitorGoesOn
  PanelGoesDark
  BrowserCatchesUp
