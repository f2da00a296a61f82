--------------------------- MODULE MCPortManager ---------------------------
(* PortManager on two ports and three pids.                                 *)
EXTENDS PortManager, TLC
CONSTANTS a, b, k1, k2, k3, none

MCPort == {a, b}
MCPid == {k1, k2, k3}
MCTwoPids == {k1, k2}
MCInitial == <<a, b>>
MCSymmetry == Permutations(MCPid)
=============================================================================
