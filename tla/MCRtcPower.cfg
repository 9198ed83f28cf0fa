SPECIFICATION Spec
CONSTANTS
  DAYS = 2
  HOURS = 2
  MINUTES = 2
  NoTime = NoTime
  Schedules <- MCSchedules
  AnyDay = AnyDay
  NoTrigger = NoTrigger
INVARIANTS
  TypeOK
  AlarmFollowsSchedule
PROPERTIES
  DarkWakesOnTime
  SleepNotRepeated
