SPECIFICATION PanelSpec
CONSTANTS
  Hosts = {dns}
  Kind <- MCKind
  Ports = {53}
  Workers = {w1, w2}
  WorkerCnt = 1
  Replies = {NoReply}
  NoReply = NoReply
  TimedPorts = {53}
  CtlMsgs = {"Spawn", "Stop"}
  Faults = {}
  Nil = Nil
  Clients = {c1, c2}
  MaxCnt = 2
CHECK_DEADLOCK FALSE
INVARIANTS PanelTypeOK CountExact Held
PROPERTIES BalanceKept LoopStaysStuck
