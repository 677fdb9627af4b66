SPECIFICATION FairSpec
CONSTANTS
  Callers = {c1, c2, c3}
  Grouping = {c1}
  Addrs = {a1, a2}
  Faults = {"db", "commit", "crash"}
  Nil = Nil
CHECK_DEADLOCK FALSE
INVARIANTS TypeOK Truthful InsertedOnce TablesThere
PROPERTIES CallsEnd TableKept
