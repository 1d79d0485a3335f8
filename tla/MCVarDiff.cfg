SPECIFICATION Spec
CONSTANTS
  Windows <- MCWindows
  Tolerances <- MCTolerances
  ExpectedRate = 2
  TicksPerMinute = 2
  Interval = 1
  MaxClock = 10
  MaxShares = 12
  MaxRetargets = 3
INVARIANTS
  TypeOK
  MinDiffPositive
  StoppedTrackerHasDiffToSend
PROPERTIES
  RetargetFollowsRate
CHECK_DEADLOCK FALSE
