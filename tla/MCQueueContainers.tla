-------------------------- MODULE MCQueueContainers -------------------------
(* QueueContainers on a queue that fills up to ten, on four descriptors that *)
(* wait at most once and meet in the table, which is doubled twice, and on   *)
(* two descriptors that may wait twice, in a table with room for all.  What  *)
(* is said of the shape of the tree is recursive, and only TLC's.            *)
EXTENDS QueueContainers

MCMix == <<2, 4, 6, 5, 3>>

Fill == [capacity |-> 10, table_size |-> 16, callers |-> {1}, adds |-> 10,
         removals |-> FALSE, waits_twice |-> TRUE]
Distinct(n) == [capacity |-> n, table_size |-> 2, callers |-> 1 .. n, adds |-> 9,
                removals |-> TRUE, waits_twice |-> FALSE]
Again == [capacity |-> 3, table_size |-> 16, callers |-> 1 .. 2, adds |-> 6,
          removals |-> TRUE, waits_twice |-> TRUE]

MCSetups == {Fill, Distinct(4), Again}
MCFive == {Distinct(5)}

-----------------------------------------------------------------------------
LeftOf(n) == Tree!Left(players, n)
RightOf(n) == Tree!Right(players, n)

RECURSIVE Depth(_)
Depth(n) == IF n = NULL THEN 0 ELSE 1 + Max({Depth(LeftOf(n)), Depth(RightOf(n))})

RECURSIVE Flat(_)
Flat(n) == n = NULL \/ /\ Depth(LeftOf(n)) - Depth(RightOf(n)) \in -2..2
                       /\ Flat(LeftOf(n)) /\ Flat(RightOf(n))

RECURSIVE Inorder(_)
Inorder(n) ==
  IF n = NULL THEN <<>>
  ELSE Inorder(LeftOf(n)) \o <<Tree!Data(players, n).seq_num>> \o Inorder(RightOf(n))

\* The tree hands out players in the order of arrival and stays balanced between
\* calls, within the one level more that the height 0 of a leaf allows: a walk to
\* the first player is no walk along the whole queue.
StaysFlat ==
  /\ Up
  /\ pc = "idle" =>
       LET seq == Inorder(players.root)
       IN /\ Flat(players.root) /\ Len(seq) = Cardinality(DOMAIN players.node)
          /\ \A i, j \in DOMAIN seq : i < j => seq[i] < seq[j]
=============================================================================
