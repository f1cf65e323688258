-------------------------- MODULE MCFramePipeline --------------------------
(* Instances of FramePipeline for TLC.                                     *)
EXTENDS FramePipeline

CONSTANTS w1, w2

TwoWorkers == {w1, w2}
OneWorker  == {w1}
AacFirst   == {2}
H264Only   == {1}

(* An .aac file, and a .h264 file with an access unit delimiter and a NAL  *)
(* unit that exceeds FRAME_MAX_SIZE.                                       *)
MixedFiles == <<(<<"nal", "nal">>), <<"aud", "nal", "bad", "nal">>>>
OneBadFile == <<(<<"nal", "bad", "nal">>)>>
=============================================================================
