SPECIFICATION Spec
PROPERTY SuspendsOnlyQuiet
CONSTANTS
  Absent = Absent
  IdleTimeout = 4
  Interval = 1
  Horizon = 3
  Margin = 2
  StatusEnabled = TRUE
  CronConfigured = TRUE
  Recency = 3
  Boot = 1
  FireAfter = {}
  Outages = {"instances"}
  MaxGap = 10
  MaxTime = 12
