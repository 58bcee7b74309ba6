SPECIFICATION Spec
INVARIANT RestartRestarts
CONSTANTS
  Absent = Absent
  Handlers = {h1}
  Sweepers = {s}
  FaultKinds = {"k8s"}
  MaxFaults = 1
