\* An old row and two new ones on two ports, two seconds, two requests under way at a time.
CONSTANTS
  r0 = r0
  r1 = r1
  r2 = r2
  i1 = i1
  i2 = i2
  Rows = {r0, r1, r2}
  Old = {r0}
  Slots = {i1, i2}
  PortOf <- MCPortOf
  MaxTime = 1
  MaxShown = 2
  MaxWorkers = 1
  workerCnt = 1
  Nil = Nil
SPECIFICATION FairSpec
CHECK_DEADLOCK FALSE
INVARIANTS TypeOK OnceEach TotalAddsUp
PROPERTIES NewRowsAppear CounterSettles
