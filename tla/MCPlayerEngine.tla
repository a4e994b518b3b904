--------------------------- MODULE MCPlayerEngine ---------------------------
(* A small instance of PlayerEngine for TLC. *)
EXTENDS PlayerEngine, TLC

CONSTANTS song1, song2, song3

McPages == {<<song1, song2, song3>>, <<song2>>}
=============================================================================
