SPECIFICATION FairSpec
CONSTANTS
  p1 = p1  p2 = p2
  t1 = t1  t2 = t2
  e1 = e1  e2 = e2  e3 = e3
  NoEvent = NoEvent
  Procs <- TwoProcs
  Ticks <- OneTick
  Events <- OneEvent
  RequeueCap = 2
  MaxAttempts = 2
  FetchLimit = 2
  BatchSize = 1
  MultiTenant = FALSE
  MaxThrows = 1
  MaxFaults = 2
  MaxDbLosses = 1
CHECK_DEADLOCK FALSE
PROPERTY StoredIsSettled
