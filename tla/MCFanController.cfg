SPECIFICATION FairSpec
CONSTANTS
  POLL_INTERVAL = 2
  DECREASE_HYSTERESIS = 2
  MaxLag = 1
  CpuCurves <- MCCpuCurves
  HddCurves <- MCHddCurves
  CpuTemps <- MCCpuTemps
  DiskTemps <- MCDiskTemps
  NoTemp = NoTemp
  NoPending = NoPending
INVARIANTS
  TypeOK
  WindowFollowsDemand
  NeverBelowDemand
  BelievedSpeedIsReal
PROPERTIES
  NoEarlyDecrease
  DemandIsMet
