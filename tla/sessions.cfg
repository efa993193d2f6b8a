SPECIFICATION Spec
CONSTANTS
  s1 = s1  s2 = s2
  q1 = q1  q2 = q2
  Requests <- TwoRequests
  Sessions <- TwoSessions
  NoSession = NoSession
  MaxFailures = 1
  MaxLapses = 1
CHECK_DEADLOCK FALSE
INVARIANTS TypeOK InvalidIsOver EndedIsForgotten StaysSignedIn
PROPERTY LiveIsRecognised
