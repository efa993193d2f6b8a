SPECIFICATION Spec
CONSTANTS
  p1 = p1  p2 = p2
  q1 = q1  q2 = q2  q3 = q3
  s1 = s1  s2 = s2
  j1 = j1  j2 = j2  j3 = j3
  NoJob = NoJob
  Procs <- TwoProcs
  QueueSlots <- TwoSlots
  SchedSlots <- OneSched
  Jobs <- TwoJobs
  SchedulerJobs <- JustJ2
  UnhandledJobs <- None
  ConcurrentMax = 1
  MaxAttempts = 2
  Adapter = "sql"
  AdminOps = {"retry", "delete", "clear"}
  MaxAdmin = 2
  MaxFaults = 1
CHECK_DEADLOCK FALSE
SYMMETRY ProcSymmetry
INVARIANTS StartsOnlyAfterRetry
