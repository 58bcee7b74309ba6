SPECIFICATION Spec
INVARIANT NoHalfSession
CONSTANTS
  Ids = {a}
  Chats = {c}
  Handlers = {h1}
  Sweepers = {}
  NoId = NoId
  Configs = {TRUE}
  SelfProvision = FALSE
  ReuseIds = FALSE
  FaultKinds = {"throttle"}
  MaxFaults = 1
  MaxUid = 1
