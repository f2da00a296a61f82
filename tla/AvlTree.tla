------------------------------- MODULE AvlTree ------------------------------
(***************************************************************************)
(* The AVL tree of src/server/common/src/ds/tree.c: nodes and the pointers *)
(* between them, the rotations, and the heights as the code keeps them: a  *)
(* new leaf has height 0, like no node at all, until a later operation     *)
(* passes through it.  The recursion and the loops that use these are in   *)
(* QueueContainers, a step for each call or iteration.                     *)
(***************************************************************************)
EXTENDS Integers

CONSTANT compare(_, _)   \* negative, 0 or positive, as the code's function

NULL == 0

avl_create == [root |-> NULL, node |-> [n \in {} |-> NULL]]

Left(t, n) == t.node[n].left
Right(t, n) == t.node[n].right
Data(t, n) == t.node[n].data

Allocate(t, n, key) ==
  [t EXCEPT !.node = [m \in DOMAIN t.node \union {n} |->
     IF m = n THEN [left |-> NULL, right |-> NULL, data |-> key, height |-> 0]
     ELSE t.node[m]]]

Free(t, n) == [t EXCEPT !.node = [m \in DOMAIN t.node \ {n} |-> t.node[m]]]

get_height(t, n) == IF n = NULL THEN 0 ELSE t.node[n].height
get_balance(t, n) == get_height(t, Left(t, n)) - get_height(t, Right(t, n))

Measure(t, n) ==
  LET l == get_height(t, Left(t, n))
      r == get_height(t, Right(t, n))
  IN [t EXCEPT !.node[n].height = 1 + (IF l > r THEN l ELSE r)]

\* The call on n was made for n's parent, which stores what the call returns
\* where n was; nothing is read in between.
Parent(t, n) == CHOOSE p \in DOMAIN t.node : n \in {Left(t, p), Right(t, p)}

Store(t, n, returned) ==
  IF n = t.root THEN [t EXCEPT !.root = returned]
  ELSE IF Left(t, Parent(t, n)) = n
  THEN [t EXCEPT !.node[Parent(t, n)].left = returned]
  ELSE [t EXCEPT !.node[Parent(t, n)].right = returned]

right_rotate(t, n) ==
  LET root == Left(t, n)
  IN Measure(Measure([Store(t, n, root) EXCEPT !.node[n].left = Right(t, root),
                                               !.node[root].right = n], n), root)

left_rotate(t, n) ==
  LET root == Right(t, n)
  IN Measure(Measure([Store(t, n, root) EXCEPT !.node[n].right = Left(t, root),
                                               !.node[root].left = n], n), root)

RightHeavy(t, n) == get_balance(t, n) < -1
LeftHeavy(t, n) == get_balance(t, n) > 1

\* The rotation is chosen by where the key would stand among the children.
OnTheRight(t, n, key) == compare(key, Data(t, Right(t, n))) > 0
OnTheLeft(t, n, key) == compare(key, Data(t, Left(t, n))) < 0

(* A rotation that comes one level late.                                   *)
RebalanceLate(t, n, key) ==
  IF get_balance(t, n) < -2 THEN left_rotate(t, n)
  ELSE IF get_balance(t, n) > 2 THEN right_rotate(t, n) ELSE t

rebalance(t, n, key) ==
  IF RightHeavy(t, n)
  THEN left_rotate(IF OnTheRight(t, n, key) THEN t ELSE right_rotate(t, Right(t, n)), n)
  ELSE IF LeftHeavy(t, n)
  THEN right_rotate(IF OnTheLeft(t, n, key) THEN t ELSE left_rotate(t, Left(t, n)), n)
  ELSE t

\* A double rotation reads the child of a child, whether or not there is one.
Faults(t, n, key) ==
  \/ RightHeavy(t, n) /\ ~OnTheRight(t, n, key) /\ Left(t, Right(t, n)) = NULL
  \/ LeftHeavy(t, n) /\ ~OnTheLeft(t, n, key) /\ Right(t, Left(t, n)) = NULL

\* Where the search for a key goes on, and a new leaf where it ends.
Next(t, n, key) == IF compare(key, Data(t, n)) >= 0 THEN Right(t, n) ELSE Left(t, n)

Attach(t, n, key, leaf) ==
  LET u == Allocate(t, leaf, key)
  IN IF compare(key, Data(t, n)) >= 0 THEN [u EXCEPT !.node[n].right = leaf]
     ELSE [u EXCEPT !.node[n].left = leaf]

\* A node with one child or none leaves the tree.
OneChild(t, n) == Left(t, n) = NULL \/ Right(t, n) = NULL
Unlink(t, n) ==
  Free(Store(t, n, IF Left(t, n) # NULL THEN Left(t, n) ELSE Right(t, n)), n)
=============================================================================
