------------------------------ MODULE MCPlayer ------------------------------
(* An instance of Player for TLC.                                          *)
EXTENDS Player

(* Sound between the pictures, nothing to show, and a damaged packet.      *)
SomeFiles == {<<"video", "other", "video", "video", "other">>,
              <<"other">>,
              <<"video", "video", "damaged", "video">>}
=============================================================================
