---------------------------- MODULE MCWebPlayer ----------------------------
(* A small instance of WebPlayer for TLC: a station of two songs and one of *)
(* one song.                                                                *)
EXTENDS WebPlayer, TLC

CONSTANTS song1, song2, rock, jazz

McSongs == (rock :> {song1, song2}) @@ (jazz :> {song2})
McPages == {}
=============================================================================
