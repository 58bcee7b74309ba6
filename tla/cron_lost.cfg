SPECIFICATION Spec
INVARIANT CronCovered
CONSTANTS
  Absent = Absent
  Handlers = {h1}
  Sweepers = {s}
  FaultKinds = {}
  MaxFaults = 0
