SPECIFICATION PanelFairSpec
CONSTANTS
  Hosts = {dns}
  Kind <- MCKind
  Ports = {53}
  Workers = {w1}
  WorkerCnt = 1
  Replies = {NoReply}
  NoReply = NoReply
  TimedPorts = {}
  CtlMsgs = {"Spawn", "Stop"}
  Faults = {"crash"}
  Nil = Nil
  Clients = {c1, c2}
  MaxCnt = 1
CHECK_DEADLOCK FALSE
PROPERTIES RequestsAnswered
