SPECIFICATION FairSpec
CONSTANTS
  dns = dns
  web = web
  Hosts = {dns}
  Kind <- MCKind
  Ports = {53, 80}
  Workers = {w1}
  WorkerCnt = 1
  Replies = {NoReply}
  NoReply = NoReply
  TimedPorts = {53}
  CtlMsgs = {"Stop", "Spawn", "Shutdown"}
  Faults = {}
  Nil = Nil
CHECK_DEADLOCK FALSE
PROPERTIES ImplementsLedger ScansRecorded ShutdownEndsWorkers
