SPECIFICATION Spec
CONSTANTS
  a1 = a1
  a2 = a2
  z1 = z1
  z2 = z2
  Addrs = {a1, a2}
  ZoneNames = {z1, z2}
  ZoneOf <- MCTwoZones
  GenWorkers = {g1, g2}
  GenCnt = 1
  XfrWorkers = {x1, x2}
  XfrCnt = 2
  CtlMsgs = {"Spawn", "Stop", "Shutdown", "Status"}
  MaxMsgs = 1
  Faults = {"zone", "host", "commit", "crash"}
  Nil = Nil
SYMMETRY Symmetry
CHECK_DEADLOCK FALSE
INVARIANTS TypeOK NamesPassedOnce
PROPERTIES ImplementsZones
