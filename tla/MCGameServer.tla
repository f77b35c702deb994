---------------------------- MODULE MCGameServer ----------------------------
(* Small instances of GameServer for TLC: the configurations name two or three *)
(* peers and the limits of the game. *)
EXTENDS GameServer

CONSTANTS c1, c2, v1   \* peers, as model values

OneClient == {c1}
TwoClients == {c1, c2}
NoViewer == {}
OneViewer == {v1}
Nobody == {}
=============================================================================
