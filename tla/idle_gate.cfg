SPECIFICATION Spec
INVARIANT TypeOK
INVARIANT SuspendedInTime
INVARIANT CronServed
PROPERTY SuspendsOnlyQuiet
PROPERTY CutsOnlyNewTurns
CONSTANTS
  Absent = Absent
  IdleTimeout = 4
  Interval = 1
  Horizon = 3
  Margin = 2
  StatusEnabled = TRUE
  CronConfigured = TRUE
  Recency = 3
  Boot = 1
  FireAfter = {11}
  Outages = {"instances", "status", "restart", "activity"}
  MaxGap = 2
  MaxTime = 12
