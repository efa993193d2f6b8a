SPECIFICATION FairSpec
CONSTANTS
  p1 = p1  p2 = p2
  t1 = t1  t2 = t2
  e1 = e1  e2 = e2  e3 = e3
  NoEvent = NoEvent
  Procs <- OneProc
  Ticks <- TwoTicks
  Events <- ThreeEvents
  RequeueCap = 2
  MaxAttempts = 2
  FetchLimit = 2
  BatchSize = 1
  MultiTenant = FALSE
  MaxThrows = 2
  MaxFaults = 0
  MaxDbLosses = 0
CHECK_DEADLOCK FALSE
INVARIANTS TypeOK NoEventLost OneTickAtATime AttemptsCounted
PROPERTIES SettledIsFinal EmittedIsSettled
