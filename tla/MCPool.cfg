SPECIFICATION FairSpec
CONSTANTS
  Users = {u1, u2, u3}
  Conns = {c1, c2, c3}
  PoolSize = 2
  TxFails = TRUE
  Nil = Nil
CHECK_DEADLOCK FALSE
INVARIANTS TypeOK OneOwner CountMatches NoLostWakeup NoForeignTransaction
PROPERTIES NoIdleWhileWaiting
