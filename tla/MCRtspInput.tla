---------------------------- MODULE MCRtspInput -----------------------------
(* An instance of RtspInput for TLC.                                       *)
EXTENDS RtspInput

Request(method) == [method |-> method, size |-> 0]
Packet(size)    == [method |-> "packet", size |-> size]

(* Packets between and behind the requests, in runs, and of two sizes.     *)
SomeScripts == {
  <<Request("OPTIONS"), Request("SETUP"), Packet(2), Request("PLAY"), Packet(1)>>,
  <<Request("SETUP"), Packet(1), Packet(2), Packet(1), Request("TEARDOWN")>>,
  <<Request("SETUP"), Request("DESCRIBE"), Packet(2), Request("PLAY"), Packet(1), Packet(2)>>}

Nothing == [kind |-> "junk", msg |-> 0]
=============================================================================
