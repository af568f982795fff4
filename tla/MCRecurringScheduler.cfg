SPECIFICATION Spec
CONSTANTS
  old = old
  new = new
  Workers = {old, new}
  Formats = {"cron", "interval"}
  Schedules <- MCSchedules
  Declared <- MCDeclared
  CatchUp <- MCCatchUp
  SkipsOverlap = {1}
  MaxStaleness = 0
  Start = 1
  Horizon = 2
  MaxFaults = 2
PROPERTIES EveryScheduleAdvances
INVARIANTS NoneInSilence NeverPilesUp
CHECK_DEADLOCK FALSE
