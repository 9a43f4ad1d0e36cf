SPECIFICATION FairSpec
CONSTANTS
  t1 = t1
  t2 = t2
  t3 = t3
  Threads = {t1, t2, t3}
  NoThread = NoThread
  CreateMayFail = TRUE
PROPERTY DeviceReturns
CHECK_DEADLOCK FALSE
