SPECIFICATION FairSpec
INVARIANT TypeOK
INVARIANT CronCoveredAlone
INVARIANT UndoneOnlyHalfWay
INVARIANT RestartEndsAwake
PROPERTY KeepsSleepContract
PROPERTY CronSuspensionEnds
CONSTANTS
  Absent = Absent
  Handlers = {h1}
  Sweepers = {s1, s2}
  FaultKinds = {"k8s", "k8sLost", "crash", "node"}
  MaxFaults = 2
