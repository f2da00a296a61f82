---------------------------- MODULE MCGameSession ---------------------------
(* GameSession with one modelled client, one other player, and one item.    *)
EXTENDS GameSession
CONSTANTS p1, p2, none

MCPlayer == {p1, p2}
MCClient == {p1}
=============================================================================
