SPECIFICATION Spec
CONSTANTS
  dns = dns
  web = web
  Hosts = {dns}
  Kind <- MCKind
  Ports = {53, 80}
  Workers = {w1}
  WorkerCnt = 1
  Replies = {NoReply, banner}
  NoReply = NoReply
  TimedPorts = {53, 80}
  CtlMsgs = {"Stop", "Spawn", "Status", "Bye"}
  Faults = {"db", "crash"}
  Nil = Nil
CHECK_DEADLOCK FALSE
INVARIANTS TypeOK SnapshotsSound
PROPERTIES ImplementsLedger
