SPECIFICATION FairSpec
CONSTANTS
  a1 = a1
  a2 = a2
  z1 = z1
  z2 = z2
  Addrs = {a1, a2}
  ZoneNames = {z1}
  ZoneOf <- MCSingle
  GenWorkers = {g1}
  GenCnt = 1
  XfrWorkers = {x1}
  XfrCnt = 1
  CtlMsgs = {"Stop"}
  MaxMsgs = 1
  Faults = {"key", "host", "zone", "crash"}
  Nil = Nil
CHECK_DEADLOCK FALSE
PROPERTIES GeneratorListens FoundIsStored ZonesFinish DeadEndsStay
