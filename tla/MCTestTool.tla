----------------------------- MODULE MCTestTool -----------------------------
(* An instance of TestTool for TLC.                                        *)
EXTENDS TestTool

CONSTANTS c1, c2

TwoThreads == {c1, c2}
=============================================================================
