SPECIFICATION Spec
CONSTANTS
  p1 = p1  p2 = p2
  q1 = q1  q2 = q2  q3 = q3
  s1 = s1  s2 = s2
  j1 = j1  j2 = j2  j3 = j3
  NoJob = NoJob
  Procs <- OneProc
  QueueSlots <- OneSlot
  SchedSlots <- OneSched
  Jobs <- OneJob
  SchedulerJobs <- None
  UnhandledJobs <- None
  ConcurrentMax = 1
  MaxAttempts = 3
  Adapter = "sql"
  AdminOps = {}
  MaxAdmin = 0
  MaxFaults = 0
CHECK_DEADLOCK FALSE
INVARIANT RunningHasOwner
