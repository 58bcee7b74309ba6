SPECIFICATION Spec
PROPERTY ZeroTTLIsImmortal
CONSTANTS
  Ids = {a}
  Chats = {c}
  Handlers = {h1}
  Sweepers = {s}
  NoId = NoId
  Configs = {TRUE}
  SelfProvision = FALSE
  ReuseIds = TRUE
  FaultKinds = {}
  MaxFaults = 0
  MaxUid = 2
