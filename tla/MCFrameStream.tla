--------------------------- MODULE MCFrameStream ---------------------------
(* Instances of FrameStream for TLC.  A header has two flags and, instead  *)
(* of six bits of length, a digit below Small.                             *)
EXTENDS FrameStream, TLC

Filled(n, first, byte) == [i \in 1..n |-> IF i = 1 THEN first ELSE byte]

(* Short bodies that are all ones, or not.                                 *)
RawShort == {Filled(n, b, b) : n \in 0..MinZip, b \in {1, AllOnes}}

(* The length with header 255 and one that needs two bytes; the largest    *)
(* frame the ring has room for, the smallest it has not, and one whose     *)
(* length does not fit into the header.                                    *)
ZipMixed ==
    {Filled(n, 0, AllOnes) : n \in {Small - 1, Small, Size - 3, Size - 2, Size}}
=============================================================================
