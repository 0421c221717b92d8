------------------------------- MODULE MCChat -------------------------------
(* Chat on a small instance: two servers that open up to three connections *)
(* to a hub whose buffers hold one packet and a half.                      *)
EXTENDS Chat, TLC

CONSTANTS A, B, m1, m2, junk
=============================================================================
