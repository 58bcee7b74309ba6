SPECIFICATION FairSpec
PROPERTY AskedSessionEnds
CONSTANTS
  Ids = {a}
  Chats = {c}
  Handlers = {h1}
  Sweepers = {s}
  NoId = NoId
  Configs = {TRUE}
  SelfProvision = FALSE
  ReuseIds = FALSE
  FaultKinds = {"connector"}
  MaxFaults = 1
  MaxUid = 1
