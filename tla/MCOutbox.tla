------------------------------ MODULE MCOutbox ------------------------------
(* Small instances of Outbox for TLC.                                      *)
EXTENDS Outbox

CONSTANTS p1, p2, t1, t2, e1, e2, e3

OneProc  == {p1}
TwoProcs == {p1, p2}
OneTick  == {t1}
TwoTicks == {t1, t2}
OneEvent    == {e1}
TwoEvents   == {e1, e2}
ThreeEvents == {e1, e2, e3}
=============================================================================
