SPECIFICATION ProvisioningSpec
CONSTANTS
  Domain = {d1, d2}
  Admin = {a1, a2}
  MaxSerial = 3
  Order <- MCOrder
  FileKey = {"oled_config"}
  Edit = {"edit"}
  Legacy <- MCLegacy
  Default <- MCDefault
  Line <- MCLine
  MaxLines = 3
  Code = {c1, c2}
  Operator = {o1, o2}
  SENTINEL = SENTINEL
  Listed <- MCListed
  MaxListed = 3
  Interface = {eth0, wlan0}
  Counter = 1
  Jiffy = 2
  None = None
INVARIANTS
  ProvisioningTypeOK
  ServedIsOwn
  StatusIsServed
  LastWriteCounts
  SameLinesCount
  RemoteIsStored
  MdstatAsListed
  RatesAreTraffic
PROPERTIES
  ImportKeepsLoad
CHECK_DEADLOCK FALSE
