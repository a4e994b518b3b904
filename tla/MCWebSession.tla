------------------------------ MODULE MCWebSession ------------------------------
(* WebSession for TLC: two users, three sessions.                               *)
EXTENDS WebSession
=============================================================================
