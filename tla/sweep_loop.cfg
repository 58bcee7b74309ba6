SPECIFICATION Spec
INVARIANT TypeOK
INVARIANT EndsInTime
INVARIANT AwakeInTime
PROPERTY NeverTooEarly
CHECK_DEADLOCK FALSE
CONSTANTS
  Absent = Absent
  Sessions = 2
  Cycle = 8
  Fetch = 1
  Poll = 1
  Interval = 3
  IdleTimeout = 2
  WakeAfter = {1}
  Asked <- Lifetimes
  Default = 1
  Half = 8
  Second = 3
  MaxClaims = 2
  MaxTime = 10
