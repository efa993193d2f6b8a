SPECIFICATION FairSpec
CONSTANTS
  c1 = c1  c2 = c2  c3 = c3
  Calls <- ThreeCalls
  FailureThreshold = 2
  HalfOpenMaxRequests = 2
  MaxAttempts = 2
  MaxFailures = 5
INVARIANTS TypeOK TripsAtThreshold ProbeUnderWay
PROPERTY Recovers
