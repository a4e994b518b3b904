------------------------------ MODULE PlayOrder ------------------------------
(***************************************************************************)
(* What the player engine promises its owner: which tracks wait, which one *)
(* is current and which sound.  A track begins to sound only as the        *)
(* current one; the position moves one track at a time; tracks come in at  *)
(* the end, none that still waits, and only tracks not yet played go.      *)
(* PlayerEngine implements it.                                             *)
(***************************************************************************)
EXTENDS Integers, Sequences

CONSTANT Tracks

VARIABLES
    list,   \* the queue
    at,     \* the position in it, from 0; Len(list): it ran out
    heard   \* the tracks that sound

vars == <<list, at, heard>>

Current == IF at \in 0 .. Len(list) - 1 THEN {list[at + 1]} ELSE {}
Waiting == {list[k] : k \in {j \in 1 .. Len(list) : j > at}}
OnlyCurrentBegins == heard' \ heard \subseteq Current'

Init ==
    /\ list = <<>>
    /\ at = -1
    /\ heard = {}

\* Another queue: nothing of the one before goes on.
Replace ==
    /\ list' \in Seq(Tracks)
    /\ at' = 0
    /\ heard' \subseteq Current'

\* Tracks are added at the end, none that waits already.
Extend ==
    /\ \E more \in [1 .. Len(list') - Len(list) -> Tracks \ Waiting] : list' = list \o more
    /\ at' = at
    /\ OnlyCurrentBegins

\* A track that has not been played goes; the current one makes room for the next.
Drop ==
    /\ \E k \in 1 .. Len(list) :
         /\ k > at
         /\ list' = SubSeq(list, 1, k - 1) \o SubSeq(list, k + 1, Len(list))
    /\ at' = at
    /\ OnlyCurrentBegins

\* The next track, the one before, or the same one begins or goes on.
Move ==
    /\ list' = list
    /\ at' \in {at - 1, at, at + 1}
    /\ at' <= Len(list)
    /\ OnlyCurrentBegins

Next == Replace \/ Extend \/ Drop \/ Move

Spec == Init /\ [][Next]_vars
=============================================================================
