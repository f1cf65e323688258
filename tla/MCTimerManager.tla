--------------------------- MODULE MCTimerManager ---------------------------
(* Instances of TimerManager for TLC.                                      *)
EXTENDS TimerManager

CONSTANTS e1, e2

TwoEvents    == {e1, e2}
FewDelays    == {2}
FewMoments   == {3}
FewIntervals == {1}
=============================================================================
