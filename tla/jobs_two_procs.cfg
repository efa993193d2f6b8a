SPECIFICATION FairSpec
CONSTANTS
  p1 = p1  p2 = p2
  q1 = q1  q2 = q2  q3 = q3
  s1 = s1  s2 = s2
  j1 = j1  j2 = j2  j3 = j3
  NoJob = NoJob
  Procs <- TwoProcs
  QueueSlots <- OneSlot
  SchedSlots <- OneSched
  Jobs <- ThreeJobs
  SchedulerJobs <- JustJ2
  UnhandledJobs <- JustJ3
  ConcurrentMax = 1
  MaxAttempts = 2
  Adapter = "contract"
  AdminOps = {}
  MaxAdmin = 0
  MaxFaults = 0
CHECK_DEADLOCK FALSE
INVARIANTS TypeOK ExclusiveExecution RunningHasOwner AttemptsBounded
PROPERTIES TerminalIsFinal JobsSettle
