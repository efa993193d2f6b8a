SPECIFICATION ServerSpec
CONSTANTS
  Requests = {r1, r2, r3}
  NoRequest = NoRequest
  MaxWrites = 2
  MaxTxCrashes = 1
  Procs = {p1, p2, p3}
  NoProc = NoProc
  MaxMigCrashes = 2
  MaxFailures = 1
  MaxLockErrors = 1
  MaxBoots = 3
  MaxReinits = 1
  MaxTroubles = 3
  MaxSchedules = 3
CHECK_DEADLOCK FALSE
INVARIANTS ServerTypeOK AllOrNothing AcknowledgedStays OneMigrator
INVARIANTS SingleBoot LossIsPending LoopsAccounted
PROPERTIES SchemaArrives CallersReturn
