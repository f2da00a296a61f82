--------------------------- MODULE MCQueueClients ---------------------------
EXTENDS QueueClients, TLC
Symmetry == Permutations(Conn) \union Permutations(Fd)
=============================================================================
