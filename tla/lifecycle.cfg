SPECIFICATION FairSpec
INVARIANT TypeOK
INVARIANT AckedDeleteIsFinal
INVARIANT AckedSessionServed
INVARIANT AckedDeleteLeavesNothing
PROPERTY EndsOnlyWhenDue
PROPERTY KeepsContract
PROPERTY ExpiredSessionEnds
CONSTANTS
  Ids = {a}
  Chats = {c}
  Handlers = {h1, h2}
  Sweepers = {s}
  NoId = NoId
  Configs = {TRUE, FALSE}
  SelfProvision = TRUE
  ReuseIds = FALSE
  FaultKinds = {"k8s", "k8sLost", "connector", "connectorLost", "throttle", "crash"}
  MaxFaults = 2
  MaxUid = 1
