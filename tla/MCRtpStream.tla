----------------------------- MODULE MCRtpStream -----------------------------
(* Instances of RtpStream for TLC: every file of up to three of the units  *)
(* below, whose lengths lie around PktMax, 2 * PktMax and FrameMax.        *)
EXTENDS RtpStream

Unit(code, header, len) ==
  [code |-> code,
   nalu |-> [i \in 1..len |-> IF i = 1 THEN header
                              ELSE IF i \in {3, 4} /\ len > 4 THEN 0 ELSE 40 + i]]

Units == {Unit(Code4, 103, 2),   \* SPS
          Unit(Code3, 101, 1),   \* IDR slices
          Unit(Code3, 101, 4),
          Unit(Code4, 101, 6),
          Unit(Code3, 65, 7),    \* other slices
          Unit(Code3, 65, 10),
          Unit(Code4, 9, 2)}     \* AUD
SmallFiles == {s \in UNION {[1..n -> Units] : n \in 1..3} :
                 \E k \in DOMAIN s : s[k].nalu[1] # 9}
=============================================================================
