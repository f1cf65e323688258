--------------------------- MODULE MCRtspSession ----------------------------
(* Instances of RtspSession for TLC.                                       *)
EXTENDS RtspSession

CONSTANTS c1, c2, t0, f1, f2, f3

TwoConns == {c1, c2}
OneTrack == {t0}
OneFd    == {f1}
ThreeFds == {f1, f2, f3}
=============================================================================
