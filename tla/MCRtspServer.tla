---------------------------- MODULE MCRtspServer ----------------------------
(* Instances of RtspServer for TLC: the listening socket lies between the  *)
(* descriptors of the clients, so that it is dispatched before and after   *)
(* them.                                                                   *)
EXTENDS RtspServer

ThreeFds == {1, 2, 3}
=============================================================================
