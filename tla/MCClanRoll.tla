----------------------------- MODULE MCClanRoll -----------------------------
(* An instance of ClanRoll for TLC: the server of area 3 and another one.  *)
EXTENDS ClanRoll
=============================================================================
