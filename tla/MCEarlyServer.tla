---------------------------- MODULE MCEarlyServer ----------------------------
(* Instances of EarlyServer for TLC.                                       *)
EXTENDS EarlyServer

AllPrograms == {"main_h264", "main_aac", "main_av"}
=============================================================================
