----------------------------- MODULE MCStorage -----------------------------
(* Instances of Storage for TLC.  Server "A" and, where there is a second  *)
(* server of area 3, its mirror "B" write the clan table; server "C" reads *)
(* it.                                                                     *)
EXTENDS Storage

OwnServer == [c \in Users |-> IF c \in {"clanA", "k1"} THEN "A"
                              ELSE IF c = "clanB" THEN "B" ELSE "C"]

OwnBlob == [c \in Users |-> IF c \in Clans THEN "clan" ELSE c]
=============================================================================
