SPECIFICATION MCSpec
CONSTANTS
  Callers = {a, b}
  Intervals = {hourly, daily}
  Requests <- Asked
  MaxOps = 4
  MaxFaults = 2
SYMMETRY Symmetry
INVARIANTS
  CommandsTakeEffect
  PairsLeaveAnHonestStatus
  RegisteredIntervalIsReadable
CHECK_DEADLOCK FALSE
