----------------------------- MODULE MCSessions -----------------------------
EXTENDS Sessions

CONSTANTS s1, s2, q1, q2

TwoSessions == {s1, s2}
TwoRequests == {q1, q2}
=============================================================================
