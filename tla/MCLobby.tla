------------------------------- MODULE MCLobby ------------------------------
EXTENDS Lobby, TLC
MCFd == 1..2
Symmetry == Permutations(Conn)
=============================================================================
