---------------------------- MODULE MCGameServer ---------------------------
(* GameServer on two players and a stranger.                                *)
EXTENDS GameServer
CONSTANTS p1, p2, p3, none

MCPlayer == {p1, p2}
MCStranger == {p3}
=============================================================================
