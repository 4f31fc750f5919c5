SPECIFICATION ServicesSpec
CONSTANTS
  Upload = {u1}
  Client = {c1}
  TokenLife = 1
  Retention = 2
  Grace = 2
  MaxStorageFaults = 1
  Tab = {t1, t2}
  WebLocks = TRUE
  MaxToken = 3
  MaxSession = 2
  MaxTime = 1
  ReuseGrace = 0
  MaxRefreshFaults = 1
  Runner = {p1, p2}
  JobRow = {1, 2, 3}
  Payer = {m1}
  StaleJob = 2
  StalePending = 1
  MaxBatchFaults = 1
INVARIANTS
  ServicesTypeOK
  OneSuccessor NoFalseAlarm
  AloneUnlessRaced
PROPERTIES
  UploadsSettle
  EndedSessionGetsNoToken RefreshSettles
  PendingSettles
CHECK_DEADLOCK FALSE
