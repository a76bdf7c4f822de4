--------------------------- MODULE MCWebSessions ---------------------------
(* WebSessions with two sessions of one user.                              *)
EXTENDS WebSessions, TLC

CONSTANTS u1, s1, s2

MCOwner == (s1 :> u1) @@ (s2 :> u1)
=============================================================================
