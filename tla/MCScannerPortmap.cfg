SPECIFICATION Spec
CONSTANTS
  dns = dns
  web = web
  Hosts = {dns, web}
  Kind <- MCKind
  Ports = {53, 80}
  Workers = {w1}
  WorkerCnt = 1
  Replies = {NoReply}
  NoReply = NoReply
  TimedPorts = {53, 80}
  CtlMsgs = {}
  Faults = {}
  Nil = Nil
INVARIANTS LeftOutPortsScanned
