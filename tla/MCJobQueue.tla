----------------------------- MODULE MCJobQueue -----------------------------
(* Small instances of JobQueue for TLC.                                    *)
EXTENDS JobQueue, TLC

CONSTANTS p1, p2, q1, q2, q3, s1, s2, j1, j2, j3

OneProc  == {p1}
TwoProcs == {p1, p2}
OneSlot  == {q1}
TwoSlots == {q1, q2}
ThreeSlots == {q1, q2, q3}
OneSched == {s1}
TwoSched == {s1, s2}
OneJob    == {j1}
TwoJobs   == {j1, j2}
ThreeJobs == {j1, j2, j3}
None == {}
JustJ1 == {j1}
JustJ2 == {j2}
JustJ3 == {j3}

ProcSymmetry == Permutations(TwoProcs)
SlotSymmetry == Permutations(ThreeSlots) \cup Permutations(TwoSched)
=============================================================================
