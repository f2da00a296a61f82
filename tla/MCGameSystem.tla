---------------------------- MODULE MCGameSystem ---------------------------
(* GameSystem with one modelled client and one other player.                *)
EXTENDS GameSystem
CONSTANTS p1, p2, none

MCPlayer == {p1, p2}
MCClient == {p1}
=============================================================================
