-------------------------- MODULE MCClanRelations --------------------------
(* An instance of ClanRelations for TLC: two clans, a day is the time in   *)
(* which the clock moves twice.                                            *)
EXTENDS ClanRelations
=============================================================================
