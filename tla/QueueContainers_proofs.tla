----------------------- MODULE QueueContainers_proofs -----------------------
(***************************************************************************)
(* That the players queue over tree.c and hashmap.c is the players queue   *)
(* the lobby is built on, for queues and tables of every size and any      *)
(* number of calls, as long as no descriptor waits twice.                  *)
(*                                                                         *)
(* The tree is in order when every node has an interval in which its own   *)
(* number and all numbers below it lie: the numbers left of it in the      *)
(* lower half, those right of it in the upper one.  The intervals are not  *)
(* kept by the program; the invariant says that there are some.  A         *)
(* rotation turns them as it turns the nodes, a leaf gets half of the      *)
(* interval of the node it hangs from, and the child of a node that leaves *)
(* gets that node's.  A call on its way down is at a node whose interval   *)
(* holds the number it looks for, so it misses nothing; on its way up it   *)
(* rotates, and that keeps the order whatever key it reads.  Nothing is    *)
(* said about heights: the code's are not the depths of the tree.          *)
(*                                                                         *)
(* The table is in order when every entry lies in the chain of its key, as *)
(* the only one of it there, and in one array only while rechain moves     *)
(* them.                                                                   *)
(*                                                                         *)
(* First the pointers of the tree, then its order, then the chains of the  *)
(* table; then the invariant of the queue, kept by each action, and at     *)
(* each action the step of the abstract queue that it is.                  *)
(***************************************************************************)
EXTENDS QueueContainers, FiniteSetTheorems, WellFoundedInduction, TLAPS

-----------------------------------------------------------------------------
(* The pointers of the tree, operation by operation.                         *)

TreeNode == [left : Nat, right : Nat, data : Player, height : Nat]
TreeOver(L) == [root : Nat, node : [L -> TreeNode]]

\* What the fields of a node are.
LEMMA FieldsOfNode ==
  ASSUME NEW L, NEW t \in TreeOver(L), NEW n \in L
  PROVE  /\ t.node[n] \in TreeNode
         /\ Tree!Left(t, n) \in Nat /\ Tree!Right(t, n) \in Nat /\ Tree!Data(t, n) \in Player
         /\ t.node[n].height \in Nat /\ t.root \in Nat /\ DOMAIN t.node = L
BY DEF TreeOver, TreeNode, Tree!Left, Tree!Right, Tree!Data

\* No height is negative.
LEMMA HeightIsNat ==
  ASSUME NEW L, NEW t \in TreeOver(L), NEW n \in L \union {NULL}
  PROVE  Tree!get_height(t, n) \in Nat
BY FieldsOfNode DEF Tree!get_height, NULL, Tree!NULL

\* Pointers that lead to nodes or nowhere.
Closed(t, L) ==
  /\ t \in TreeOver(L) /\ \A n \in L : n \in Nat /\ n # 0
  /\ \A n \in L : Tree!Left(t, n) \in L \union {0} /\ Tree!Right(t, n) \in L \union {0}

SamePointers(t, u, L) ==
  /\ u.root = t.root
  /\ \A n \in L : /\ Tree!Left(u, n) = Tree!Left(t, n) /\ Tree!Right(u, n) = Tree!Right(t, n)
                  /\ Tree!Data(u, n) = Tree!Data(t, n)

\* Taking the height anew leaves the pointers as they are.
LEMMA MeasureView ==
  ASSUME NEW L, NEW t, Closed(t, L), NEW n \in L
  PROVE  /\ Tree!Measure(t, n) \in TreeOver(L)
         /\ SamePointers(t, Tree!Measure(t, n), L)
<1> DEFINE l == Tree!get_height(t, Tree!Left(t, n))
           r == Tree!get_height(t, Tree!Right(t, n))
           h == 1 + (IF l > r THEN l ELSE r)
<1>1. l \in Nat /\ r \in Nat
  BY HeightIsNat DEF Closed, NULL, Tree!NULL
<1>2. h \in Nat
  BY <1>1
<1>3. Tree!Measure(t, n) = [t EXCEPT !.node[n].height = h]
  BY DEF Tree!Measure
<1> HIDE DEF h
<1>4. t \in TreeOver(L)
  BY DEF Closed
<1> QED
  BY <1>2, <1>3, <1>4 DEF TreeOver, TreeNode, SamePointers, Tree!Left, Tree!Right, Tree!Data

\* What a call on n that returns r leaves behind, p being n's parent.
Stores(t, s, L, n, p, r) ==
  /\ s.root = IF n = t.root THEN r ELSE t.root
  /\ \A m \in L :
       /\ Tree!Left(s, m) = IF n # t.root /\ m = p /\ Tree!Left(t, m) = n
                            THEN r ELSE Tree!Left(t, m)
       /\ Tree!Right(s, m) = IF n # t.root /\ m = p /\ Tree!Left(t, m) # n
                             THEN r ELSE Tree!Right(t, m)
       /\ Tree!Data(s, m) = Tree!Data(t, m)

\* The parent is the only node that is written when a call returns.
LEMMA StoreView ==
  ASSUME NEW L, NEW t \in TreeOver(L), NEW n \in L, NEW r \in Nat,
         n # t.root => Tree!Parent(t, n) \in L
  PROVE  /\ Tree!Store(t, n, r) \in TreeOver(L)
         /\ Stores(t, Tree!Store(t, n, r), L, n, Tree!Parent(t, n), r)
<1> DEFINE p == Tree!Parent(t, n)
<1> HIDE DEF p
<1>1. CASE n = t.root
  BY <1>1 DEF Stores, Tree!Store, TreeOver, TreeNode, Tree!Left, Tree!Right, Tree!Data
<1>2. CASE n # t.root /\ Tree!Left(t, p) = n
  <2>1. Tree!Store(t, n, r) = [t EXCEPT !.node[p].left = r]
    BY <1>2 DEF Tree!Store, p
  <2> QED
    BY <1>2, <2>1 DEF p, Stores, TreeOver, TreeNode, Tree!Left, Tree!Right, Tree!Data
<1>3. CASE n # t.root /\ Tree!Left(t, p) # n
  <2>1. Tree!Store(t, n, r) = [t EXCEPT !.node[p].right = r]
    BY <1>3 DEF Tree!Store, p
  <2> QED
    BY <1>3, <2>1 DEF p, Stores, TreeOver, TreeNode, Tree!Left, Tree!Right, Tree!Data
<1> QED
  BY <1>1, <1>2, <1>3 DEF p

\* What a right rotation at n does to the pointers, p being n's parent.
RotatedRight(t, u, L, n, root, p) ==
  /\ u.root = IF n = t.root THEN root ELSE t.root
  /\ \A m \in L :
       /\ Tree!Left(u, m) = IF m = n THEN Tree!Right(t, root)
                            ELSE IF n # t.root /\ m = p /\ Tree!Left(t, m) = n THEN root
                            ELSE Tree!Left(t, m)
       /\ Tree!Right(u, m) = IF m = root THEN n
                             ELSE IF n # t.root /\ m = p /\ Tree!Left(t, m) # n THEN root
                             ELSE Tree!Right(t, m)
       /\ Tree!Data(u, m) = Tree!Data(t, m)

\* right_rotate changes the pointers as RotatedRight says.
LEMMA RotateRightView ==
  ASSUME NEW L, NEW t, Closed(t, L), NEW n \in L,
         NEW p, n # t.root => p \in L /\ p = Tree!Parent(t, n) /\ p # n /\ p # Tree!Left(t, n),
         Tree!Left(t, n) \in L, Tree!Left(t, n) # n
  PROVE  /\ Closed(Tree!right_rotate(t, n), L)
         /\ RotatedRight(t, Tree!right_rotate(t, n), L, n, Tree!Left(t, n), p)
<1> DEFINE root == Tree!Left(t, n)
           s == Tree!Store(t, n, root)
           u == [s EXCEPT !.node[n].left = Tree!Right(t, root), !.node[root].right = n]
           w == Tree!Measure(u, n)
<1>1. t \in TreeOver(L) /\ root \in L /\ Tree!Right(t, root) \in L \union {0}
  BY DEF Closed
<1>2. root \in Nat /\ n \in Nat /\ Tree!Right(t, root) \in Nat /\ root # n
  BY <1>1 DEF Closed
<1>3. s \in TreeOver(L) /\ Stores(t, s, L, n, p, root)
  <2>1. n # t.root => Tree!Parent(t, n) \in L
    OBVIOUS
  <2>2. /\ s \in TreeOver(L)
        /\ Stores(t, s, L, n, Tree!Parent(t, n), root)
    BY <1>1, <1>2, <2>1, StoreView
  <2> QED
    BY <2>2 DEF Stores
<1> HIDE DEF s
<1>4. /\ u \in TreeOver(L) /\ u.root = s.root
      /\ \A m \in L :
           /\ Tree!Left(u, m) = IF m = n THEN Tree!Right(t, root) ELSE Tree!Left(s, m)
           /\ Tree!Right(u, m) = IF m = root THEN n ELSE Tree!Right(s, m)
           /\ Tree!Data(u, m) = Tree!Data(s, m)
  <2> DEFINE b == Tree!Right(t, root)
  <2> HIDE DEF b, root
  <2>1. s.node \in [L -> TreeNode] /\ s.root \in Nat /\ b \in Nat
    BY <1>2, <1>3 DEF TreeOver, b
  <2>2. u = [s EXCEPT !.node[n].left = b, !.node[root].right = n]
    BY DEF b
  <2> HIDE DEF u
  <2>3. u.root = s.root /\ u \in TreeOver(L)
    <3>1. DOMAIN s.node = L /\ root \in L /\ s \in [root : Nat, node : [L -> TreeNode]]
      BY <1>1, <1>3 DEF TreeOver
    <3>2. /\ [s.node[n] EXCEPT !.left = b] \in TreeNode
          /\ [s.node[root] EXCEPT !.right = n] \in TreeNode
      BY <1>1, <1>2, <2>1 DEF TreeNode
    <3> QED
      BY <1>2, <2>1, <2>2, <3>1, <3>2 DEF TreeOver
  <2>4. u.node = [[s.node EXCEPT ![n].left = b] EXCEPT ![root].right = n]
    BY <1>1, <1>2, <1>3, <2>1, <2>2 DEF TreeOver, TreeNode
  <2>5. \A m \in L :
           /\ u.node[m].left = IF m = n THEN b ELSE s.node[m].left
           /\ u.node[m].right = IF m = root THEN n ELSE s.node[m].right
           /\ u.node[m].data = s.node[m].data
    BY <1>1, <1>2, <2>1, <2>4 DEF TreeNode
  <2> QED
    BY <2>3, <2>5 DEF b, Tree!Left, Tree!Right, Tree!Data
<1> HIDE DEF u
<1>5. RotatedRight(t, u, L, n, root, p)
  BY <1>1, <1>2, <1>3, <1>4 DEF RotatedRight, Stores
<1>6. Closed(u, L)
  BY <1>1, <1>4, <1>5 DEF Closed, RotatedRight
<1>7. w \in TreeOver(L) /\ SamePointers(u, w, L)
  BY <1>6, MeasureView
<1> HIDE DEF w
<1>8. Closed(w, L)
  BY <1>6, <1>7 DEF Closed, SamePointers
<1>9. /\ Tree!Measure(w, root) \in TreeOver(L)
      /\ SamePointers(w, Tree!Measure(w, root), L)
  BY <1>1, <1>8, MeasureView
<1>10. Tree!right_rotate(t, n) = Tree!Measure(w, root)
  BY DEF Tree!right_rotate, w, u, s
<1> DEFINE z == Tree!Measure(w, root)
<1> HIDE DEF z
<1>11. z \in TreeOver(L) /\ SamePointers(u, z, L)
  BY <1>7, <1>9 DEF SamePointers, z
<1>12. Closed(z, L)
  BY <1>6, <1>11 DEF Closed, SamePointers
<1>13. RotatedRight(t, z, L, n, root, p)
  BY <1>5, <1>11 DEF RotatedRight, SamePointers
<1> QED
  BY <1>10, <1>12, <1>13 DEF z

\* What a left rotation at n does to the pointers, p being n's parent.
RotatedLeft(t, u, L, n, root, p) ==
  /\ u.root = IF n = t.root THEN root ELSE t.root
  /\ \A m \in L :
       /\ Tree!Right(u, m) = IF m = n THEN Tree!Left(t, root)
                            ELSE IF n # t.root /\ m = p /\ Tree!Left(t, m) # n THEN root
                            ELSE Tree!Right(t, m)
       /\ Tree!Left(u, m) = IF m = root THEN n
                             ELSE IF n # t.root /\ m = p /\ Tree!Left(t, m) = n THEN root
                             ELSE Tree!Left(t, m)
       /\ Tree!Data(u, m) = Tree!Data(t, m)

\* left_rotate changes the pointers as RotatedLeft says.
LEMMA RotateLeftView ==
  ASSUME NEW L, NEW t, Closed(t, L), NEW n \in L,
         NEW p, n # t.root => p \in L /\ p = Tree!Parent(t, n) /\ p # n /\ p # Tree!Right(t, n),
         Tree!Right(t, n) \in L, Tree!Right(t, n) # n
  PROVE  /\ Closed(Tree!left_rotate(t, n), L)
         /\ RotatedLeft(t, Tree!left_rotate(t, n), L, n, Tree!Right(t, n), p)
<1> DEFINE root == Tree!Right(t, n)
           s == Tree!Store(t, n, root)
           u == [s EXCEPT !.node[n].right = Tree!Left(t, root), !.node[root].left = n]
           w == Tree!Measure(u, n)
<1>1. t \in TreeOver(L) /\ root \in L /\ Tree!Left(t, root) \in L \union {0}
  BY DEF Closed
<1>2. root \in Nat /\ n \in Nat /\ Tree!Left(t, root) \in Nat /\ root # n
  BY <1>1 DEF Closed
<1>3. s \in TreeOver(L) /\ Stores(t, s, L, n, p, root)
  <2>1. n # t.root => Tree!Parent(t, n) \in L
    OBVIOUS
  <2>2. /\ s \in TreeOver(L)
        /\ Stores(t, s, L, n, Tree!Parent(t, n), root)
    BY <1>1, <1>2, <2>1, StoreView
  <2> QED
    BY <2>2 DEF Stores
<1> HIDE DEF s
<1>4. /\ u \in TreeOver(L) /\ u.root = s.root
      /\ \A m \in L :
           /\ Tree!Right(u, m) = IF m = n THEN Tree!Left(t, root) ELSE Tree!Right(s, m)
           /\ Tree!Left(u, m) = IF m = root THEN n ELSE Tree!Left(s, m)
           /\ Tree!Data(u, m) = Tree!Data(s, m)
  <2> DEFINE b == Tree!Left(t, root)
  <2> HIDE DEF b, root
  <2>1. s.node \in [L -> TreeNode] /\ s.root \in Nat /\ b \in Nat
    BY <1>2, <1>3 DEF TreeOver, b
  <2>2. u = [s EXCEPT !.node[n].right = b, !.node[root].left = n]
    BY DEF b
  <2> HIDE DEF u
  <2>3. u.root = s.root /\ u \in TreeOver(L)
    <3>1. DOMAIN s.node = L /\ root \in L /\ s \in [root : Nat, node : [L -> TreeNode]]
      BY <1>1, <1>3 DEF TreeOver
    <3>2. /\ [s.node[n] EXCEPT !.right = b] \in TreeNode
          /\ [s.node[root] EXCEPT !.left = n] \in TreeNode
      BY <1>1, <1>2, <2>1 DEF TreeNode
    <3> QED
      BY <1>2, <2>1, <2>2, <3>1, <3>2 DEF TreeOver
  <2>4. u.node = [[s.node EXCEPT ![n].right = b] EXCEPT ![root].left = n]
    BY <1>1, <1>2, <1>3, <2>1, <2>2 DEF TreeOver, TreeNode
  <2>5. \A m \in L :
           /\ u.node[m].right = IF m = n THEN b ELSE s.node[m].right
           /\ u.node[m].left = IF m = root THEN n ELSE s.node[m].left
           /\ u.node[m].data = s.node[m].data
    BY <1>1, <1>2, <2>1, <2>4 DEF TreeNode
  <2> QED
    BY <2>3, <2>5 DEF b, Tree!Right, Tree!Left, Tree!Data
<1> HIDE DEF u
<1>5. RotatedLeft(t, u, L, n, root, p)
  BY <1>1, <1>2, <1>3, <1>4 DEF RotatedLeft, Stores
<1>6. Closed(u, L)
  BY <1>1, <1>4, <1>5 DEF Closed, RotatedLeft
<1>7. w \in TreeOver(L) /\ SamePointers(u, w, L)
  BY <1>6, MeasureView
<1> HIDE DEF w
<1>8. Closed(w, L)
  BY <1>6, <1>7 DEF Closed, SamePointers
<1>9. /\ Tree!Measure(w, root) \in TreeOver(L)
      /\ SamePointers(w, Tree!Measure(w, root), L)
  BY <1>1, <1>8, MeasureView
<1>10. Tree!left_rotate(t, n) = Tree!Measure(w, root)
  BY DEF Tree!left_rotate, w, u, s
<1> DEFINE z == Tree!Measure(w, root)
<1> HIDE DEF z
<1>11. z \in TreeOver(L) /\ SamePointers(u, z, L)
  BY <1>7, <1>9 DEF SamePointers, z
<1>12. Closed(z, L)
  BY <1>6, <1>11 DEF Closed, SamePointers
<1>13. RotatedLeft(t, z, L, n, root, p)
  BY <1>5, <1>11 DEF RotatedLeft, SamePointers
<1> QED
  BY <1>10, <1>12, <1>13 DEF z

-----------------------------------------------------------------------------
(* The order of the tree.  Every node n has a number v[n] and an interval      *)
(* between lo[n] and hi[n] in which the numbers below it lie; up[n] is its     *)
(* parent.  The whole tree lies between 0 and top.                             *)

Intervals(L, v, lo, hi, top) ==
  /\ top \in Nat
  /\ \A n \in L : /\ v[n] \in Int /\ lo[n] \in Int /\ hi[n] \in Int
                  /\ lo[n] < v[n] /\ v[n] < hi[n]
                  /\ 0 < v[n] /\ v[n] < top
                  /\ lo[n] = 0 \/ \E m \in L : v[m] = lo[n]
                  /\ hi[n] = top \/ \E m \in L : v[m] = hi[n]

\* A missing child leaves a gap that no number lies in.
LeftSide(t, L, v, lo, hi, up) ==
  \A n \in L :
    IF Tree!Left(t, n) = 0 THEN \A m \in L : v[m] <= lo[n] \/ v[n] <= v[m]
    ELSE /\ lo[Tree!Left(t, n)] = lo[n] /\ hi[Tree!Left(t, n)] = v[n]
         /\ up[Tree!Left(t, n)] = n

RightSide(t, L, v, lo, hi, up) ==
  \A n \in L :
    IF Tree!Right(t, n) = 0 THEN \A m \in L : v[m] <= v[n] \/ hi[n] <= v[m]
    ELSE /\ lo[Tree!Right(t, n)] = v[n] /\ hi[Tree!Right(t, n)] = hi[n]
         /\ up[Tree!Right(t, n)] = n

Rooted(t, L, lo, hi, up, top) ==
  IF t.root = 0 THEN L = {}
  ELSE t.root \in L /\ lo[t.root] = 0 /\ hi[t.root] = top /\ up[t.root] = 0

Hanging(t, L, up) ==
  \A n \in L : n # t.root => /\ up[n] \in L
                             /\ Tree!Left(t, up[n]) = n \/ Tree!Right(t, up[n]) = n

\* Two subtrees are apart, or one is below the other on one of its sides.
Below(m, n, v, lo, hi) ==
  (lo[n] <= lo[m] /\ hi[m] <= v[n]) \/ (v[n] <= lo[m] /\ hi[m] <= hi[n])
Apart(m, n, lo, hi) == hi[m] <= lo[n] \/ hi[n] <= lo[m]

Nested(L, v, lo, hi) ==
  \A m, n \in L : m = n \/ Apart(m, n, lo, hi) \/ Below(m, n, v, lo, hi) \/ Below(n, m, v, lo, hi)

Ordered(t, L, v, lo, hi, up, top) ==
  /\ Closed(t, L)
  /\ Intervals(L, v, lo, hi, top)
  /\ LeftSide(t, L, v, lo, hi, up) /\ RightSide(t, L, v, lo, hi, up)
  /\ Rooted(t, L, lo, hi, up, top) /\ Hanging(t, L, up)
  /\ Nested(L, v, lo, hi)

\* A child lies in the half of its parent's interval that is on its side.
LEMMA ChildrenOf ==
  ASSUME NEW L, NEW t, NEW v, NEW lo, NEW hi, NEW up, NEW top,
         Ordered(t, L, v, lo, hi, up, top), NEW n \in L
  PROVE  /\ Tree!Left(t, n) # n /\ Tree!Right(t, n) # n
         /\ Tree!Left(t, n) # 0 => Tree!Left(t, n) # Tree!Right(t, n)
         /\ t.root # 0 => Tree!Left(t, n) # t.root /\ Tree!Right(t, n) # t.root
BY DEF Ordered, Closed, Intervals, LeftSide, RightSide, Rooted, Hanging

\* The parent that Store finds is the one the order speaks of.
LEMMA ParentIs ==
  ASSUME NEW L, NEW t, NEW v, NEW lo, NEW hi, NEW up, NEW top,
         Ordered(t, L, v, lo, hi, up, top), NEW n \in L, n # t.root
  PROVE  Tree!Parent(t, n) = up[n] /\ up[n] \in L /\ up[n] # n
<1>1. up[n] \in L /\ n \in {Tree!Left(t, up[n]), Tree!Right(t, up[n])}
  BY DEF Ordered, Hanging
<1>2. \A p \in L : n \in {Tree!Left(t, p), Tree!Right(t, p)} => p = up[n]
  BY DEF Ordered, Closed, LeftSide, RightSide
<1>3. DOMAIN t.node = L
  BY FieldsOfNode DEF Ordered, Closed, TreeOver
<1>4. up[n] # n
  BY <1>1, ChildrenOf
<1> QED
  BY <1>1, <1>2, <1>3, <1>4 DEF Tree!Parent

\* No two nodes are each other's children.
LEMMA HigherThanChild ==
  ASSUME NEW L, NEW t, NEW v, NEW lo, NEW hi, NEW up, NEW top,
         Ordered(t, L, v, lo, hi, up, top), NEW n \in L, NEW c \in L,
         c \in {Tree!Left(t, n), Tree!Right(t, n)}
  PROVE  n \notin {Tree!Left(t, c), Tree!Right(t, c)}
<1>1. /\ lo[n] < v[n] /\ v[n] < hi[n] /\ lo[c] < v[c] /\ v[c] < hi[c]
      /\ {v[n], lo[n], hi[n], v[c], lo[c], hi[c]} \subseteq Int
  BY DEF Ordered, Intervals
<1>2. n # 0 /\ c # 0
  BY DEF Ordered, Closed
<1>3. \/ lo[c] = lo[n] /\ hi[c] = v[n]
      \/ lo[c] = v[n] /\ hi[c] = hi[n]
  BY <1>2 DEF Ordered, LeftSide, RightSide
<1>4. n = Tree!Left(t, c) => lo[n] = lo[c] /\ hi[n] = v[c]
  BY <1>2 DEF Ordered, LeftSide
<1>5. n = Tree!Right(t, c) => lo[n] = v[c] /\ hi[n] = hi[c]
  BY <1>2 DEF Ordered, RightSide
<1> QED
  BY <1>1, <1>3, <1>4, <1>5

\* With the intervals of the two nodes turned as well, the order stays.
LEMMA RotatedRightOrdered ==
  ASSUME NEW L, NEW t, NEW v, NEW lo, NEW hi, NEW up, NEW top,
         Ordered(t, L, v, lo, hi, up, top), NEW n \in L, NEW root \in L,
         root = Tree!Left(t, n),
         NEW u, Closed(u, L), RotatedRight(t, u, L, n, root, up[n])
  PROVE  \E lo2, hi2, up2 : Ordered(u, L, v, lo2, hi2, up2, top)
<1> DEFINE b == Tree!Right(t, root)
           lo2 == [m \in L |-> IF m = n THEN v[root] ELSE lo[m]]
           hi2 == [m \in L |-> IF m = root THEN hi[n] ELSE hi[m]]
           up2 == [m \in L |-> IF m = root THEN up[n] ELSE IF m = n THEN root
                               ELSE IF m = b THEN n ELSE up[m]]
<1>1. /\ root # n /\ root # 0 /\ root # t.root
      /\ lo[root] = lo[n] /\ hi[root] = v[n] /\ up[root] = n
  BY ChildrenOf DEF Ordered, Closed, LeftSide, Rooted
<1>2. /\ b \in L \union {0} /\ b # root /\ b # n
      /\ b # 0 => lo[b] = v[root] /\ hi[b] = v[n] /\ up[b] = root
      /\ b = 0 => \A m \in L : v[m] <= v[root] \/ v[n] <= v[m]
  <2>1. b \in L \union {0} /\ b # root
    BY ChildrenOf DEF Ordered, Closed
  <2>2. /\ b # 0 => lo[b] = v[root] /\ hi[b] = v[n] /\ up[b] = root
        /\ b = 0 => \A m \in L : v[m] <= v[root] \/ v[n] <= v[m]
    BY <1>1 DEF Ordered, RightSide
  <2>3. b # n
    BY <1>1, <2>2 DEF Ordered, Intervals, Closed
  <2> QED
    BY <2>1, <2>2, <2>3
<1>3. n # t.root => up[n] \in L /\ up[n] # n /\ up[n] # root
  <2>1. SUFFICES ASSUME n # t.root PROVE up[n] # root
    BY ParentIs
  <2>2. Tree!Left(t, root) # n
    BY <1>1, HigherThanChild
  <2>3. Tree!Right(t, root) # n
    BY <1>2
  <2> QED
    BY <2>1, <2>2, <2>3 DEF Ordered, Hanging
<1>4. Intervals(L, v, lo2, hi2, top)
  BY <1>1 DEF Ordered, Intervals
<1>5. \A m \in L : Tree!Left(t, m) # 0 => up[Tree!Left(t, m)] = m
  BY DEF Ordered, LeftSide
<1>6. \A m \in L : Tree!Right(t, m) # 0 => up[Tree!Right(t, m)] = m
  BY DEF Ordered, RightSide
<1>7. /\ lo2[n] = v[root] /\ hi2[n] = hi[n] /\ lo2[root] = lo[n] /\ hi2[root] = hi[n]
      /\ up2[root] = up[n] /\ up2[n] = root /\ (b # 0 => up2[b] = n)
      /\ \A m \in L : m # n => lo2[m] = lo[m]
      /\ \A m \in L : m # root => hi2[m] = hi[m]
      /\ \A m \in L : m # root /\ m # n /\ m # b => up2[m] = up[m]
  BY <1>1, <1>2
<1> HIDE DEF lo2, hi2, up2
<1>8. Closed(t, L) /\ \A m \in L : Tree!Left(t, m) \in L \union {0} /\ Tree!Right(t, m) \in L \union {0}
  BY DEF Ordered, Closed
<1>9. Tree!Right(t, n) # root
  BY <1>1, ChildrenOf
<1>10. LeftSide(u, L, v, lo2, hi2, up2)
  <2> SUFFICES ASSUME NEW m \in L
               PROVE  IF Tree!Left(u, m) = 0 THEN \A k \in L : v[k] <= lo2[m] \/ v[m] <= v[k]
                      ELSE /\ lo2[Tree!Left(u, m)] = lo2[m] /\ hi2[Tree!Left(u, m)] = v[m]
                           /\ up2[Tree!Left(u, m)] = m
    BY DEF LeftSide
  <2>1. CASE m = n
    <3>1. Tree!Left(u, m) = b
      BY <2>1 DEF RotatedRight
    <3> QED
      BY <1>2, <1>7, <2>1, <3>1
  <2>2. CASE m # n /\ n # t.root /\ m = up[n] /\ Tree!Left(t, m) = n
    <3>1. Tree!Left(u, m) = root
      BY <2>2 DEF RotatedRight
    <3>2. lo[n] = lo[m] /\ hi[n] = v[m] /\ m # root
      BY <1>1, <1>3, <2>2 DEF Ordered, LeftSide, Closed
    <3> QED
      BY <1>1, <1>7, <2>2, <3>1, <3>2
  <2>3. CASE m # n /\ ~(n # t.root /\ m = up[n] /\ Tree!Left(t, m) = n)
    <3>1. Tree!Left(u, m) = Tree!Left(t, m)
      BY <2>3 DEF RotatedRight
    <3>2. lo2[m] = lo[m]
      BY <1>7, <2>3
    <3>3. CASE Tree!Left(t, m) = 0
      BY <3>1, <3>2, <3>3 DEF Ordered, LeftSide
    <3>4. CASE Tree!Left(t, m) # 0
      <4> DEFINE c == Tree!Left(t, m)
      <4>1. c \in L /\ up[c] = m /\ lo[c] = lo[m] /\ hi[c] = v[m]
        BY <1>8, <3>4 DEF Ordered, LeftSide
      <4>2. c # n
        BY <2>3, <4>1 DEF Ordered, Rooted, Closed
      <4>3. c # root
        BY <1>1, <2>3, <4>1
      <4>4. c # b
        BY <1>2, <3>4, <4>1, ChildrenOf
      <4> QED
        BY <1>7, <3>1, <3>2, <3>4, <4>1, <4>2, <4>3, <4>4
    <3> QED
      BY <3>3, <3>4
  <2> QED
    BY <2>1, <2>2, <2>3
<1>11. RightSide(u, L, v, lo2, hi2, up2)
  <2> SUFFICES ASSUME NEW m \in L
               PROVE  IF Tree!Right(u, m) = 0 THEN \A k \in L : v[k] <= v[m] \/ hi2[m] <= v[k]
                      ELSE /\ lo2[Tree!Right(u, m)] = v[m] /\ hi2[Tree!Right(u, m)] = hi2[m]
                           /\ up2[Tree!Right(u, m)] = m
    BY DEF RightSide
  <2>1. CASE m = root
    <3>1. Tree!Right(u, m) = n
      BY <2>1 DEF RotatedRight
    <3> QED
      BY <1>1, <1>7, <1>8, <2>1, <3>1 DEF Closed
  <2>2. CASE m # root /\ n # t.root /\ m = up[n] /\ Tree!Left(t, m) # n
    <3>1. Tree!Right(u, m) = root
      BY <2>2 DEF RotatedRight
    <3>2. Tree!Right(t, m) = n /\ m # n
      BY <1>3, <2>2 DEF Ordered, Hanging
    <3>3. lo[n] = v[m] /\ hi[n] = hi[m]
      BY <1>8, <3>2 DEF Ordered, RightSide, Closed
    <3> QED
      BY <1>1, <1>7, <2>2, <3>1, <3>3
  <2>3. CASE m # root /\ ~(n # t.root /\ m = up[n] /\ Tree!Left(t, m) # n)
    <3>1. Tree!Right(u, m) = Tree!Right(t, m)
      BY <2>3 DEF RotatedRight
    <3>2. hi2[m] = hi[m]
      BY <1>7, <2>3
    <3>3. CASE Tree!Right(t, m) = 0
      BY <3>1, <3>2, <3>3 DEF Ordered, RightSide
    <3>4. CASE Tree!Right(t, m) # 0
      <4> DEFINE c == Tree!Right(t, m)
      <4>1. c \in L /\ up[c] = m /\ lo[c] = v[m] /\ hi[c] = hi[m]
        BY <1>8, <3>4 DEF Ordered, RightSide
      <4>2. c # n
        BY <2>3, <3>4, <4>1, ChildrenOf DEF Ordered, Rooted, Closed
      <4>3. c # root
        BY <1>1, <1>9, <4>1
      <4>4. c # b
        BY <1>2, <2>3, <3>4, <4>1
      <4> QED
        BY <1>7, <3>1, <3>2, <3>4, <4>1, <4>2, <4>3, <4>4
    <3> QED
      BY <3>3, <3>4
  <2> QED
    BY <2>1, <2>2, <2>3
<1>12. Rooted(u, L, lo2, hi2, up2, top)
  <2>1. t.root # 0
    BY DEF Ordered, Rooted
  <2>2. CASE n = t.root
    BY <1>1, <1>7, <2>1, <2>2 DEF Ordered, Rooted, RotatedRight
  <2>3. CASE n # t.root
    <3>1. u.root = t.root /\ t.root # root /\ t.root \in L
      BY <1>1, <2>1, <2>3 DEF RotatedRight, Ordered, Rooted
    <3>2. t.root # b
      BY <1>2, <2>1, ChildrenOf DEF Ordered, Rooted
    <3> QED
      BY <1>7, <2>1, <2>3, <3>1, <3>2 DEF Ordered, Rooted
  <2> QED
    BY <2>2, <2>3
<1>13. Hanging(u, L, up2)
  <2> SUFFICES ASSUME NEW m \in L, m # u.root
               PROVE  /\ up2[m] \in L
                      /\ Tree!Left(u, up2[m]) = m \/ Tree!Right(u, up2[m]) = m
    BY DEF Hanging
  <2>1. CASE m = n
    BY <1>7, <2>1 DEF RotatedRight
  <2>2. CASE m = b
    BY <1>2, <1>7, <1>8, <2>2 DEF RotatedRight, Closed
  <2>3. CASE m = root
    <3>1. n # t.root
      BY <2>3 DEF RotatedRight
    <3>2. up[n] \in L /\ up[n] # n /\ up[n] # root
      BY <1>3, <3>1
    <3> QED
      BY <1>7, <2>3, <3>1, <3>2 DEF RotatedRight
  <2>4. CASE m # n /\ m # b /\ m # root
    <3>1. m # t.root
      BY <2>4 DEF RotatedRight
    <3>2. up2[m] = up[m] /\ up[m] \in L
      BY <1>7, <2>4, <3>1 DEF Ordered, Hanging
    <3>3. Tree!Left(t, up[m]) = m \/ Tree!Right(t, up[m]) = m
      BY <3>1 DEF Ordered, Hanging
    <3>4. CASE Tree!Left(t, up[m]) = m
      BY <2>4, <3>2, <3>4 DEF RotatedRight
    <3>5. CASE Tree!Right(t, up[m]) = m
      <4>1. up[m] # root
        BY <2>4, <3>5
      <4>2. n # t.root => Tree!Left(t, up[n]) = n \/ Tree!Right(t, up[n]) = n
        BY DEF Ordered, Hanging
      <4> QED
        BY <2>4, <3>2, <3>5, <4>1, <4>2 DEF RotatedRight
    <3> QED
      BY <3>3, <3>4, <3>5
  <2> QED
    BY <2>1, <2>2, <2>3, <2>4
<1>14. Nested(L, v, lo2, hi2)
  <2> SUFFICES ASSUME NEW m \in L, NEW k \in L, m # k
               PROVE  \/ Apart(m, k, lo2, hi2)
                      \/ Below(m, k, v, lo2, hi2) \/ Below(k, m, v, lo2, hi2)
    BY DEF Nested
  <2>1. \A x \in L : /\ v[x] \in Int /\ lo[x] \in Int /\ hi[x] \in Int
                     /\ lo[x] < v[x] /\ v[x] < hi[x]
    BY DEF Ordered, Intervals
  <2>2. \A x, y \in L : \/ x = y \/ Apart(x, y, lo, hi)
                        \/ Below(x, y, v, lo, hi) \/ Below(y, x, v, lo, hi)
    BY DEF Ordered, Nested
  <2>3. CASE m \notin {n, root} /\ k \notin {n, root}
    BY <1>7, <2>2, <2>3 DEF Apart, Below
  <2>4. CASE m \in {n, root} /\ k \in {n, root}
    BY <1>1, <1>7, <2>1, <2>4 DEF Apart, Below
  <2>5. ASSUME NEW x \in L, x \notin {n, root}
        PROVE  /\ Apart(x, n, lo2, hi2) \/ Below(x, n, v, lo2, hi2) \/ Below(n, x, v, lo2, hi2)
               /\ Apart(x, root, lo2, hi2) \/ Below(x, root, v, lo2, hi2) \/ Below(root, x, v, lo2, hi2)
    <3>1. lo2[x] = lo[x] /\ hi2[x] = hi[x]
      BY <1>7, <2>5
    <3>2. Apart(x, n, lo, hi) \/ Below(x, n, v, lo, hi) \/ Below(n, x, v, lo, hi)
      BY <2>2, <2>5
    <3>3. Apart(x, root, lo, hi) \/ Below(x, root, v, lo, hi) \/ Below(root, x, v, lo, hi)
      BY <2>2, <2>5
    <3> QED
      BY <1>1, <1>7, <2>1, <2>5, <3>1, <3>2, <3>3 DEF Apart, Below
  <2> QED
    BY <2>3, <2>4, <2>5 DEF Apart
<1> QED
  BY <1>4, <1>10, <1>11, <1>12, <1>13, <1>14 DEF Ordered

\* The same on the other side.
LEMMA RotatedLeftOrdered ==
  ASSUME NEW L, NEW t, NEW v, NEW hi, NEW lo, NEW up, NEW top,
         Ordered(t, L, v, lo, hi, up, top), NEW n \in L, NEW root \in L,
         root = Tree!Right(t, n),
         NEW u, Closed(u, L), RotatedLeft(t, u, L, n, root, up[n])
  PROVE  \E lo2, hi2, up2 : Ordered(u, L, v, lo2, hi2, up2, top)
<1> DEFINE b == Tree!Left(t, root)
           hi2 == [m \in L |-> IF m = n THEN v[root] ELSE hi[m]]
           lo2 == [m \in L |-> IF m = root THEN lo[n] ELSE lo[m]]
           up2 == [m \in L |-> IF m = root THEN up[n] ELSE IF m = n THEN root
                               ELSE IF m = b THEN n ELSE up[m]]
<1>1. /\ root # n /\ root # 0 /\ root # t.root
      /\ hi[root] = hi[n] /\ lo[root] = v[n] /\ up[root] = n
  BY ChildrenOf DEF Ordered, Closed, RightSide, Rooted
<1>2. /\ b \in L \union {0} /\ b # root /\ b # n
      /\ b # 0 => hi[b] = v[root] /\ lo[b] = v[n] /\ up[b] = root
      /\ b = 0 => \A m \in L : v[m] <= v[n] \/ v[root] <= v[m]
  <2>1. b \in L \union {0} /\ b # root
    BY ChildrenOf DEF Ordered, Closed
  <2>2. /\ b # 0 => hi[b] = v[root] /\ lo[b] = v[n] /\ up[b] = root
        /\ b = 0 => \A m \in L : v[m] <= v[n] \/ v[root] <= v[m]
    BY <1>1 DEF Ordered, LeftSide
  <2>3. b # n
    BY <1>1, <2>2 DEF Ordered, Intervals, Closed
  <2> QED
    BY <2>1, <2>2, <2>3
<1>3. n # t.root => up[n] \in L /\ up[n] # n /\ up[n] # root
  <2>1. SUFFICES ASSUME n # t.root PROVE up[n] # root
    BY ParentIs
  <2>2. Tree!Right(t, root) # n
    BY <1>1, HigherThanChild
  <2>3. Tree!Left(t, root) # n
    BY <1>2
  <2> QED
    BY <2>1, <2>2, <2>3 DEF Ordered, Hanging
<1>4. Intervals(L, v, lo2, hi2, top)
  BY <1>1 DEF Ordered, Intervals
<1>5. \A m \in L : Tree!Right(t, m) # 0 => up[Tree!Right(t, m)] = m
  BY DEF Ordered, RightSide
<1>6. \A m \in L : Tree!Left(t, m) # 0 => up[Tree!Left(t, m)] = m
  BY DEF Ordered, LeftSide
<1>7. /\ hi2[n] = v[root] /\ lo2[n] = lo[n] /\ hi2[root] = hi[n] /\ lo2[root] = lo[n]
      /\ up2[root] = up[n] /\ up2[n] = root /\ (b # 0 => up2[b] = n)
      /\ \A m \in L : m # n => hi2[m] = hi[m]
      /\ \A m \in L : m # root => lo2[m] = lo[m]
      /\ \A m \in L : m # root /\ m # n /\ m # b => up2[m] = up[m]
  BY <1>1, <1>2
<1> HIDE DEF lo2, hi2, up2
<1>8. Closed(t, L) /\ \A m \in L : Tree!Right(t, m) \in L \union {0} /\ Tree!Left(t, m) \in L \union {0}
  BY DEF Ordered, Closed
<1>9. Tree!Left(t, n) # root
  BY <1>1, ChildrenOf
<1>10. RightSide(u, L, v, lo2, hi2, up2)
  <2> SUFFICES ASSUME NEW m \in L
               PROVE  IF Tree!Right(u, m) = 0 THEN \A k \in L : v[k] <= v[m] \/ hi2[m] <= v[k]
                      ELSE /\ hi2[Tree!Right(u, m)] = hi2[m] /\ lo2[Tree!Right(u, m)] = v[m]
                           /\ up2[Tree!Right(u, m)] = m
    BY DEF RightSide
  <2>1. CASE m = n
    <3>1. Tree!Right(u, m) = b
      BY <2>1 DEF RotatedLeft
    <3> QED
      BY <1>2, <1>7, <2>1, <3>1
  <2>2. CASE m # n /\ n # t.root /\ m = up[n] /\ Tree!Left(t, m) # n
    <3>1. Tree!Right(u, m) = root
      BY <2>2 DEF RotatedLeft
    <3>2. hi[n] = hi[m] /\ lo[n] = v[m] /\ m # root
      BY <1>1, <1>3, <2>2 DEF Ordered, RightSide, Closed, Hanging
    <3> QED
      BY <1>1, <1>7, <2>2, <3>1, <3>2
  <2>3. CASE m # n /\ ~(n # t.root /\ m = up[n] /\ Tree!Left(t, m) # n)
    <3>1. Tree!Right(u, m) = Tree!Right(t, m)
      BY <2>3 DEF RotatedLeft
    <3>2. hi2[m] = hi[m]
      BY <1>7, <2>3
    <3>3. CASE Tree!Right(t, m) = 0
      BY <3>1, <3>2, <3>3 DEF Ordered, RightSide
    <3>4. CASE Tree!Right(t, m) # 0
      <4> DEFINE c == Tree!Right(t, m)
      <4>1. c \in L /\ up[c] = m /\ hi[c] = hi[m] /\ lo[c] = v[m]
        BY <1>8, <3>4 DEF Ordered, RightSide
      <4>2. c # n
        BY <2>3, <3>4, <4>1, ChildrenOf DEF Ordered, Rooted, Closed
      <4>3. c # root
        BY <1>1, <2>3, <4>1
      <4>4. c # b
        BY <1>2, <3>4, <4>1, ChildrenOf
      <4> QED
        BY <1>7, <3>1, <3>2, <3>4, <4>1, <4>2, <4>3, <4>4
    <3> QED
      BY <3>3, <3>4
  <2> QED
    BY <2>1, <2>2, <2>3
<1>11. LeftSide(u, L, v, lo2, hi2, up2)
  <2> SUFFICES ASSUME NEW m \in L
               PROVE  IF Tree!Left(u, m) = 0 THEN \A k \in L : v[k] <= lo2[m] \/ v[m] <= v[k]
                      ELSE /\ hi2[Tree!Left(u, m)] = v[m] /\ lo2[Tree!Left(u, m)] = lo2[m]
                           /\ up2[Tree!Left(u, m)] = m
    BY DEF LeftSide
  <2>1. CASE m = root
    <3>1. Tree!Left(u, m) = n
      BY <2>1 DEF RotatedLeft
    <3> QED
      BY <1>1, <1>7, <1>8, <2>1, <3>1 DEF Closed
  <2>2. CASE m # root /\ n # t.root /\ m = up[n] /\ Tree!Left(t, m) = n
    <3>1. Tree!Left(u, m) = root
      BY <2>2 DEF RotatedLeft
    <3>2. Tree!Left(t, m) = n /\ m # n
      BY <1>3, <2>2 DEF Ordered, Hanging
    <3>3. hi[n] = v[m] /\ lo[n] = lo[m]
      BY <1>8, <3>2 DEF Ordered, LeftSide, Closed
    <3> QED
      BY <1>1, <1>7, <2>2, <3>1, <3>3
  <2>3. CASE m # root /\ ~(n # t.root /\ m = up[n] /\ Tree!Left(t, m) = n)
    <3>1. Tree!Left(u, m) = Tree!Left(t, m)
      BY <2>3 DEF RotatedLeft
    <3>2. lo2[m] = lo[m]
      BY <1>7, <2>3
    <3>3. CASE Tree!Left(t, m) = 0
      BY <3>1, <3>2, <3>3 DEF Ordered, LeftSide
    <3>4. CASE Tree!Left(t, m) # 0
      <4> DEFINE c == Tree!Left(t, m)
      <4>1. c \in L /\ up[c] = m /\ hi[c] = v[m] /\ lo[c] = lo[m]
        BY <1>8, <3>4 DEF Ordered, LeftSide
      <4>2. c # n
        BY <2>3, <3>4, <4>1, ChildrenOf DEF Ordered, Rooted, Closed
      <4>3. c # root
        BY <1>1, <1>9, <4>1
      <4>4. c # b
        BY <1>2, <2>3, <3>4, <4>1
      <4> QED
        BY <1>7, <3>1, <3>2, <3>4, <4>1, <4>2, <4>3, <4>4
    <3> QED
      BY <3>3, <3>4
  <2> QED
    BY <2>1, <2>2, <2>3
<1>12. Rooted(u, L, lo2, hi2, up2, top)
  <2>1. t.root # 0
    BY DEF Ordered, Rooted
  <2>2. CASE n = t.root
    BY <1>1, <1>7, <2>1, <2>2 DEF Ordered, Rooted, RotatedLeft
  <2>3. CASE n # t.root
    <3>1. u.root = t.root /\ t.root # root /\ t.root \in L
      BY <1>1, <2>1, <2>3 DEF RotatedLeft, Ordered, Rooted
    <3>2. t.root # b
      BY <1>2, <2>1, ChildrenOf DEF Ordered, Rooted
    <3> QED
      BY <1>7, <2>1, <2>3, <3>1, <3>2 DEF Ordered, Rooted
  <2> QED
    BY <2>2, <2>3
<1>13. Hanging(u, L, up2)
  <2> SUFFICES ASSUME NEW m \in L, m # u.root
               PROVE  /\ up2[m] \in L
                      /\ Tree!Right(u, up2[m]) = m \/ Tree!Left(u, up2[m]) = m
    BY DEF Hanging
  <2>1. CASE m = n
    BY <1>7, <2>1 DEF RotatedLeft
  <2>2. CASE m = b
    BY <1>2, <1>7, <1>8, <2>2 DEF RotatedLeft, Closed
  <2>3. CASE m = root
    <3>1. n # t.root
      BY <2>3 DEF RotatedLeft
    <3>2. up[n] \in L /\ up[n] # n /\ up[n] # root
      BY <1>3, <3>1
    <3> QED
      BY <1>7, <2>3, <3>1, <3>2 DEF RotatedLeft
  <2>4. CASE m # n /\ m # b /\ m # root
    <3>1. m # t.root
      BY <2>4 DEF RotatedLeft
    <3>2. up2[m] = up[m] /\ up[m] \in L
      BY <1>7, <2>4, <3>1 DEF Ordered, Hanging
    <3>3. Tree!Right(t, up[m]) = m \/ Tree!Left(t, up[m]) = m
      BY <3>1 DEF Ordered, Hanging
    <3>4. CASE Tree!Right(t, up[m]) = m
      <4>1. n # t.root => Tree!Right(t, up[n]) = n \/ Tree!Left(t, up[n]) = n
        BY DEF Ordered, Hanging
      <4> QED
        BY <2>4, <3>2, <3>4, <4>1 DEF RotatedLeft
    <3>5. CASE Tree!Left(t, up[m]) = m
      BY <2>4, <3>2, <3>5 DEF RotatedLeft
    <3> QED
      BY <3>3, <3>4, <3>5
  <2> QED
    BY <2>1, <2>2, <2>3, <2>4
<1>14. Nested(L, v, lo2, hi2)
  <2> SUFFICES ASSUME NEW m \in L, NEW k \in L, m # k
               PROVE  \/ Apart(m, k, lo2, hi2)
                      \/ Below(m, k, v, lo2, hi2) \/ Below(k, m, v, lo2, hi2)
    BY DEF Nested
  <2>1. \A x \in L : /\ v[x] \in Int /\ hi[x] \in Int /\ lo[x] \in Int
                     /\ lo[x] < v[x] /\ v[x] < hi[x]
    BY DEF Ordered, Intervals
  <2>2. \A x, y \in L : \/ x = y \/ Apart(x, y, lo, hi)
                        \/ Below(x, y, v, lo, hi) \/ Below(y, x, v, lo, hi)
    BY DEF Ordered, Nested
  <2>3. CASE m \notin {n, root} /\ k \notin {n, root}
    BY <1>7, <2>2, <2>3 DEF Apart, Below
  <2>4. CASE m \in {n, root} /\ k \in {n, root}
    BY <1>1, <1>7, <2>1, <2>4 DEF Apart, Below
  <2>5. ASSUME NEW x \in L, x \notin {n, root}
        PROVE  /\ Apart(x, n, lo2, hi2) \/ Below(x, n, v, lo2, hi2) \/ Below(n, x, v, lo2, hi2)
               /\ Apart(x, root, lo2, hi2) \/ Below(x, root, v, lo2, hi2) \/ Below(root, x, v, lo2, hi2)
    <3>1. hi2[x] = hi[x] /\ lo2[x] = lo[x]
      BY <1>7, <2>5
    <3>2. Apart(x, n, lo, hi) \/ Below(x, n, v, lo, hi) \/ Below(n, x, v, lo, hi)
      BY <2>2, <2>5
    <3>3. Apart(x, root, lo, hi) \/ Below(x, root, v, lo, hi) \/ Below(root, x, v, lo, hi)
      BY <2>2, <2>5
    <3> QED
      BY <1>1, <1>7, <2>1, <2>5, <3>1, <3>2, <3>3 DEF Apart, Below
  <2> QED
    BY <2>3, <2>4, <2>5 DEF Apart
<1> QED
  BY <1>4, <1>10, <1>11, <1>12, <1>13, <1>14 DEF Ordered

SameData(t, u, L) == \A m \in L : Tree!Data(u, m) = Tree!Data(t, m)

\* The order of a tree, with some intervals and parents.
InOrder(t, L, v, top) == \E lo, hi, up : Ordered(t, L, v, lo, hi, up, top)

\* Heights are not part of the order.
LEMMA MeasureOrdered ==
  ASSUME NEW L, NEW t, NEW v, NEW lo, NEW hi, NEW up, NEW top,
         Ordered(t, L, v, lo, hi, up, top), NEW n \in L
  PROVE  /\ Ordered(Tree!Measure(t, n), L, v, lo, hi, up, top)
         /\ SamePointers(t, Tree!Measure(t, n), L)
<1> DEFINE u == Tree!Measure(t, n)
<1>1. Closed(t, L)
  BY DEF Ordered
<1>2. u \in TreeOver(L) /\ SamePointers(t, u, L)
  BY <1>1, MeasureView
<1> HIDE DEF u
<1>3. Closed(u, L)
  BY <1>1, <1>2 DEF Closed, SamePointers
<1>4. LeftSide(u, L, v, lo, hi, up) /\ RightSide(u, L, v, lo, hi, up)
  BY <1>2 DEF Ordered, LeftSide, RightSide, SamePointers
<1>5. Rooted(u, L, lo, hi, up, top) /\ Hanging(u, L, up)
  BY <1>2 DEF Ordered, Rooted, Hanging, SamePointers
<1> QED
  BY <1>2, <1>3, <1>4, <1>5 DEF Ordered, u

\* A right rotation at a node with a left child keeps the order.
LEMMA RightRotation ==
  ASSUME NEW L, NEW t, NEW v, NEW lo, NEW hi, NEW up, NEW top,
         Ordered(t, L, v, lo, hi, up, top), NEW n \in L, Tree!Left(t, n) # 0
  PROVE  /\ RotatedRight(t, Tree!right_rotate(t, n), L, n, Tree!Left(t, n), up[n])
         /\ InOrder(Tree!right_rotate(t, n), L, v, top)
<1>1. Closed(t, L) /\ Tree!Left(t, n) \in L /\ Tree!Left(t, n) # n
  BY ChildrenOf DEF Ordered, Closed
<1>2. n # t.root => /\ up[n] \in L /\ up[n] = Tree!Parent(t, n) /\ up[n] # n
                    /\ n \in {Tree!Left(t, up[n]), Tree!Right(t, up[n])}
  BY ParentIs DEF Ordered, Hanging
<1>3. n # t.root => up[n] # Tree!Left(t, n)
  BY <1>1, <1>2, HigherThanChild
<1>4. /\ Closed(Tree!right_rotate(t, n), L)
      /\ RotatedRight(t, Tree!right_rotate(t, n), L, n, Tree!Left(t, n), up[n])
  BY <1>1, <1>2, <1>3, RotateRightView
<1>5. \E lo2, hi2, up2 : Ordered(Tree!right_rotate(t, n), L, v, lo2, hi2, up2, top)
  BY <1>1, <1>4, RotatedRightOrdered
<1> QED
  BY <1>4, <1>5 DEF InOrder

\* A left rotation at a node with a right child keeps the order.
LEMMA LeftRotation ==
  ASSUME NEW L, NEW t, NEW v, NEW lo, NEW hi, NEW up, NEW top,
         Ordered(t, L, v, lo, hi, up, top), NEW n \in L, Tree!Right(t, n) # 0
  PROVE  /\ RotatedLeft(t, Tree!left_rotate(t, n), L, n, Tree!Right(t, n), up[n])
         /\ InOrder(Tree!left_rotate(t, n), L, v, top)
<1>1. Closed(t, L) /\ Tree!Right(t, n) \in L /\ Tree!Right(t, n) # n
  BY ChildrenOf DEF Ordered, Closed
<1>2. n # t.root => /\ up[n] \in L /\ up[n] = Tree!Parent(t, n) /\ up[n] # n
                    /\ n \in {Tree!Left(t, up[n]), Tree!Right(t, up[n])}
  BY ParentIs DEF Ordered, Hanging
<1>3. n # t.root => up[n] # Tree!Right(t, n)
  BY <1>1, <1>2, HigherThanChild
<1>4. /\ Closed(Tree!left_rotate(t, n), L)
      /\ RotatedLeft(t, Tree!left_rotate(t, n), L, n, Tree!Right(t, n), up[n])
  BY <1>1, <1>2, <1>3, RotateLeftView
<1>5. \E lo2, hi2, up2 : Ordered(Tree!left_rotate(t, n), L, v, lo2, hi2, up2, top)
  BY <1>1, <1>4, RotatedLeftOrdered
<1> QED
  BY <1>4, <1>5 DEF InOrder

\* Where a side is too heavy there is a child on it.
LEMMA HeavySide ==
  ASSUME NEW L, NEW t, Closed(t, L), NEW n \in L
  PROVE  /\ Tree!RightHeavy(t, n) => Tree!Right(t, n) # 0
         /\ Tree!LeftHeavy(t, n) => Tree!Left(t, n) # 0
<1>1. /\ Tree!get_height(t, Tree!Left(t, n)) \in Nat
      /\ Tree!get_height(t, Tree!Right(t, n)) \in Nat
  BY HeightIsNat DEF Closed, NULL, Tree!NULL
<1>2. Tree!get_height(t, 0) = 0
  BY DEF Tree!get_height, Tree!NULL
<1> QED
  BY <1>1, <1>2 DEF Tree!RightHeavy, Tree!LeftHeavy, Tree!get_balance

\* Whatever key chooses the rotations, they keep the order, unless they read the
\* child of a child that is not there.
LEMMA RebalanceKeepsOrder ==
  ASSUME NEW L, NEW t, NEW v, NEW lo, NEW hi, NEW up, NEW top,
         Ordered(t, L, v, lo, hi, up, top), NEW n \in L, NEW key,
         ~Tree!Faults(t, n, key)
  PROVE  /\ InOrder(Tree!rebalance(t, n, key), L, v, top)
         /\ SameData(t, Tree!rebalance(t, n, key), L)
<1> DEFINE right == Tree!Right(t, n)
           left == Tree!Left(t, n)
<1>0. Closed(t, L)
  BY DEF Ordered
<1>1. CASE Tree!RightHeavy(t, n) /\ Tree!OnTheRight(t, n, key)
  <2>1. Tree!rebalance(t, n, key) = Tree!left_rotate(t, n)
    BY <1>1 DEF Tree!rebalance
  <2> QED
    BY <1>0, <1>1, <2>1, HeavySide, LeftRotation DEF SameData, RotatedLeft
<1>2. CASE Tree!RightHeavy(t, n) /\ ~Tree!OnTheRight(t, n, key)
  <2> DEFINE u == Tree!right_rotate(t, right)
  <2>1. Tree!rebalance(t, n, key) = Tree!left_rotate(u, n)
    BY <1>2 DEF Tree!rebalance
  <2>2. right \in L /\ right # 0
    BY <1>0, <1>2, HeavySide DEF Closed
  <2>3. Tree!Left(t, right) \in L /\ Tree!Left(t, right) # 0
    BY <1>0, <1>2, <2>2 DEF Tree!Faults, Tree!NULL, Closed
  <2>4. RotatedRight(t, u, L, right, Tree!Left(t, right), up[right]) /\ InOrder(u, L, v, top)
    BY <2>2, <2>3, RightRotation
  <2> HIDE DEF u
  <2>5. up[right] = n /\ right # t.root /\ Tree!Left(t, n) # right
    BY <2>2, ChildrenOf DEF Ordered, RightSide, Rooted
  <2>6. Tree!Right(u, n) # 0
    BY <2>3, <2>4, <2>5, <1>0, <2>2 DEF RotatedRight, Closed
  <2>7. PICK lo2, hi2, up2 : Ordered(u, L, v, lo2, hi2, up2, top)
    BY <2>4 DEF InOrder
  <2>8. /\ InOrder(Tree!left_rotate(u, n), L, v, top)
        /\ SameData(u, Tree!left_rotate(u, n), L)
    BY <2>6, <2>7, LeftRotation DEF SameData, RotatedLeft
  <2> QED
    BY <2>1, <2>4, <2>8 DEF SameData, RotatedRight
<1>3. CASE ~Tree!RightHeavy(t, n) /\ Tree!LeftHeavy(t, n) /\ Tree!OnTheLeft(t, n, key)
  <2>1. Tree!rebalance(t, n, key) = Tree!right_rotate(t, n)
    BY <1>3 DEF Tree!rebalance
  <2> QED
    BY <1>0, <1>3, <2>1, HeavySide, RightRotation DEF SameData, RotatedRight
<1>4. CASE ~Tree!RightHeavy(t, n) /\ Tree!LeftHeavy(t, n) /\ ~Tree!OnTheLeft(t, n, key)
  <2> DEFINE u == Tree!left_rotate(t, left)
  <2>1. Tree!rebalance(t, n, key) = Tree!right_rotate(u, n)
    BY <1>4 DEF Tree!rebalance
  <2>2. left \in L /\ left # 0
    BY <1>0, <1>4, HeavySide DEF Closed
  <2>3. Tree!Right(t, left) \in L /\ Tree!Right(t, left) # 0
    BY <1>0, <1>4, <2>2 DEF Tree!Faults, Tree!NULL, Closed
  <2>4. RotatedLeft(t, u, L, left, Tree!Right(t, left), up[left]) /\ InOrder(u, L, v, top)
    BY <2>2, <2>3, LeftRotation
  <2> HIDE DEF u
  <2>5. up[left] = n /\ left # t.root
    BY <2>2, ChildrenOf DEF Ordered, LeftSide, Rooted
  <2>6. Tree!Left(u, n) # 0
    BY <2>3, <2>4, <2>5, <1>0, <2>2 DEF RotatedLeft, Closed
  <2>7. PICK lo2, hi2, up2 : Ordered(u, L, v, lo2, hi2, up2, top)
    BY <2>4 DEF InOrder
  <2>8. /\ InOrder(Tree!right_rotate(u, n), L, v, top)
        /\ SameData(u, Tree!right_rotate(u, n), L)
    BY <2>6, <2>7, RightRotation DEF SameData, RotatedRight
  <2> QED
    BY <2>1, <2>4, <2>8 DEF SameData, RotatedLeft
<1>5. CASE ~Tree!RightHeavy(t, n) /\ ~Tree!LeftHeavy(t, n)
  BY <1>5 DEF Tree!rebalance, InOrder, SameData
<1> QED
  BY <1>1, <1>2, <1>3, <1>4, <1>5

-----------------------------------------------------------------------------
(* A leaf is attached, a node leaves, a node takes another number.           *)

\* Two nodes have two numbers.
LEMMA Distinct ==
  ASSUME NEW L, NEW t, NEW v, NEW lo, NEW hi, NEW up, NEW top,
         Ordered(t, L, v, lo, hi, up, top), NEW m \in L, NEW n \in L, v[m] = v[n]
  PROVE  m = n
<1>1. /\ v[m] \in Int /\ lo[m] \in Int /\ hi[m] \in Int /\ lo[m] < v[m] /\ v[m] < hi[m]
      /\ v[n] \in Int /\ lo[n] \in Int /\ hi[n] \in Int /\ lo[n] < v[n] /\ v[n] < hi[n]
  BY DEF Ordered, Intervals
<1>2. m = n \/ Apart(m, n, lo, hi) \/ Below(m, n, v, lo, hi) \/ Below(n, m, v, lo, hi)
  BY DEF Ordered, Nested
<1> QED
  BY <1>1, <1>2 DEF Apart, Below

\* The leaf hangs below n, right of it or left.
Attached(t, u, L, n, right, leaf, key) ==
  /\ u.root = t.root
  /\ Tree!Left(u, leaf) = 0 /\ Tree!Right(u, leaf) = 0 /\ Tree!Data(u, leaf) = key
  /\ \A m \in L :
       /\ Tree!Left(u, m) = IF m = n /\ ~right THEN leaf ELSE Tree!Left(t, m)
       /\ Tree!Right(u, m) = IF m = n /\ right THEN leaf ELSE Tree!Right(t, m)
       /\ Tree!Data(u, m) = Tree!Data(t, m)

GoesRight(t, n, key) == compare_players(key, Tree!Data(t, n)) >= 0

\* A new node, and nothing else.
LEMMA AllocateView ==
  ASSUME NEW L, NEW t \in TreeOver(L), NEW leaf \in Nat, NEW key \in Player
  PROVE  /\ Tree!Allocate(t, leaf, key) \in TreeOver(L \union {leaf})
         /\ Tree!Allocate(t, leaf, key).root = t.root
         /\ Tree!Allocate(t, leaf, key).node =
              [m \in L \union {leaf} |->
                 IF m = leaf THEN [left |-> 0, right |-> 0, data |-> key, height |-> 0]
                 ELSE t.node[m]]
BY DEF Tree!Allocate, TreeOver, TreeNode, Tree!NULL

\* A new leaf is attached where Attached says.
LEMMA AttachView ==
  ASSUME NEW L, NEW t, Closed(t, L), NEW n \in L, NEW leaf \in Nat \ {0}, leaf \notin L,
         NEW key \in Player
  PROVE  /\ Closed(Tree!Attach(t, n, key, leaf), L \union {leaf})
         /\ Attached(t, Tree!Attach(t, n, key, leaf), L, n, GoesRight(t, n, key), leaf, key)
<1> DEFINE s == Tree!Allocate(t, leaf, key)
           K == L \union {leaf}
           right == GoesRight(t, n, key)
           u == IF right THEN [s EXCEPT !.node[n].right = leaf]
                ELSE [s EXCEPT !.node[n].left = leaf]
<1>1. t \in TreeOver(L) /\ n \in K /\ leaf \in Nat /\ leaf # n
  BY DEF Closed
<1>2. /\ s \in TreeOver(K) /\ s.root = t.root
      /\ s.node = [m \in K |->
                     IF m = leaf THEN [left |-> 0, right |-> 0, data |-> key, height |-> 0]
                     ELSE t.node[m]]
  BY <1>1, AllocateView
<1>3. Tree!Attach(t, n, key, leaf) = u
  BY DEF Tree!Attach, GoesRight
<1>4. right \in BOOLEAN
  BY DEF GoesRight
<1> HIDE DEF s, right
<1>5. u \in TreeOver(K) /\ u.root = t.root
  <2>1. s \in [root : Nat, node : [K -> TreeNode]]
    BY <1>2 DEF TreeOver
  <2>2. /\ [s.node[n] EXCEPT !.right = leaf] \in TreeNode
        /\ [s.node[n] EXCEPT !.left = leaf] \in TreeNode
    BY <1>1, <2>1 DEF TreeNode
  <2> QED
    BY <1>1, <1>2, <2>1, <2>2 DEF TreeOver
<1>6. \A m \in K :
        /\ u.node[m].left = IF m = n /\ ~right THEN leaf ELSE s.node[m].left
        /\ u.node[m].right = IF m = n /\ right THEN leaf ELSE s.node[m].right
        /\ u.node[m].data = s.node[m].data
  BY <1>1, <1>2, <1>4 DEF TreeOver, TreeNode
<1> HIDE DEF u
<1>7. Attached(t, u, L, n, right, leaf, key)
  BY <1>1, <1>2, <1>5, <1>6 DEF Attached, Tree!Left, Tree!Right, Tree!Data
<1>8. Closed(u, K)
  BY <1>1, <1>5, <1>7 DEF Closed, Attached
<1> QED
  BY <1>3, <1>7, <1>8 DEF right

\* A leaf is attached where its number belongs.
LEMMA AttachKeepsOrder ==
  ASSUME NEW L, NEW t, NEW v, NEW lo, NEW hi, NEW up, NEW top,
         Ordered(t, L, v, lo, hi, up, top), NEW n \in L, NEW x \in Int,
         lo[n] < x, x < hi[n], 0 < x, x < top, \A m \in L : v[m] # x,
         NEW right \in BOOLEAN, right <=> v[n] < x,
         right => Tree!Right(t, n) = 0, ~right => Tree!Left(t, n) = 0,
         NEW leaf, leaf \notin L, leaf # 0, NEW key, NEW u,
         Closed(u, L \union {leaf}), Attached(t, u, L, n, right, leaf, key)
  PROVE  InOrder(u, L \union {leaf},
                 [m \in L \union {leaf} |-> IF m = leaf THEN x ELSE v[m]], top)
<1> DEFINE K == L \union {leaf}
           v2 == [m \in K |-> IF m = leaf THEN x ELSE v[m]]
           lo2 == [m \in K |-> IF m # leaf THEN lo[m] ELSE IF right THEN v[n] ELSE lo[n]]
           hi2 == [m \in K |-> IF m # leaf THEN hi[m] ELSE IF right THEN hi[n] ELSE v[n]]
           up2 == [m \in K |-> IF m # leaf THEN up[m] ELSE n]
<1>1. /\ v2[leaf] = x /\ up2[leaf] = n
      /\ lo2[leaf] = IF right THEN v[n] ELSE lo[n]
      /\ hi2[leaf] = IF right THEN hi[n] ELSE v[n]
      /\ \A m \in L : v2[m] = v[m] /\ lo2[m] = lo[m] /\ hi2[m] = hi[m] /\ up2[m] = up[m]
  OBVIOUS
<1> HIDE DEF v2, lo2, hi2, up2
<1>2. \A m \in L : /\ v[m] \in Int /\ lo[m] \in Int /\ hi[m] \in Int
                   /\ lo[m] < v[m] /\ v[m] < hi[m] /\ m # leaf /\ m # 0
  BY DEF Ordered, Intervals, Closed
<1>3. IF right THEN \A m \in L : v[m] <= v[n] \/ hi[n] <= v[m]
      ELSE \A m \in L : v[m] <= lo[n] \/ v[n] <= v[m]
  BY DEF Ordered, LeftSide, RightSide
<1>4. \A m \in L : \/ m = n \/ Apart(m, n, lo, hi)
                   \/ Below(m, n, v, lo, hi) \/ Below(n, m, v, lo, hi)
  BY DEF Ordered, Nested
<1>5. x < v[n] \/ v[n] < x
  BY <1>2
<1>6. Intervals(K, v2, lo2, hi2, top)
  <2>1. top \in Nat
    BY DEF Ordered, Intervals
  <2> SUFFICES ASSUME NEW m \in K
               PROVE  /\ v2[m] \in Int /\ lo2[m] \in Int /\ hi2[m] \in Int
                      /\ lo2[m] < v2[m] /\ v2[m] < hi2[m]
                      /\ 0 < v2[m] /\ v2[m] < top
                      /\ lo2[m] = 0 \/ \E k \in K : v2[k] = lo2[m]
                      /\ hi2[m] = top \/ \E k \in K : v2[k] = hi2[m]
    BY <2>1 DEF Intervals
  <2>2. CASE m \in L
    BY <1>1, <2>2 DEF Ordered, Intervals
  <2>3. CASE m = leaf
    <3>1. /\ lo[n] = 0 \/ \E k \in L : v[k] = lo[n]
          /\ hi[n] = top \/ \E k \in L : v[k] = hi[n]
      BY DEF Ordered, Intervals
    <3> QED
      BY <1>1, <1>2, <1>5, <2>3, <3>1
  <2> QED
    BY <2>2, <2>3
<1>7. LeftSide(u, K, v2, lo2, hi2, up2)
  <2> SUFFICES ASSUME NEW m \in K
               PROVE  IF Tree!Left(u, m) = 0 THEN \A k \in K : v2[k] <= lo2[m] \/ v2[m] <= v2[k]
                      ELSE /\ lo2[Tree!Left(u, m)] = lo2[m] /\ hi2[Tree!Left(u, m)] = v2[m]
                           /\ up2[Tree!Left(u, m)] = m
    BY DEF LeftSide
  <2>1. CASE m = leaf
    BY <1>1, <1>2, <1>3, <1>5, <2>1 DEF Attached
  <2>2. CASE m = n /\ ~right
    BY <1>1, <2>2 DEF Attached
  <2>3. CASE m \in L /\ ~(m = n /\ ~right)
    <3>1. Tree!Left(u, m) = Tree!Left(t, m) /\ Tree!Left(t, m) \in L \union {0}
      BY <2>3 DEF Attached, Ordered, Closed
    <3>2. CASE Tree!Left(t, m) # 0
      <4>1. /\ lo[Tree!Left(t, m)] = lo[m] /\ hi[Tree!Left(t, m)] = v[m]
            /\ up[Tree!Left(t, m)] = m
        BY <2>3, <3>2 DEF Ordered, LeftSide
      <4> QED
        BY <1>1, <2>3, <3>1, <3>2, <4>1
    <3>3. CASE Tree!Left(t, m) = 0
      <4>1. \A k \in L : v[k] <= lo[m] \/ v[m] <= v[k]
        BY <2>3, <3>3 DEF Ordered, LeftSide
      <4>2. x <= lo[m] \/ v[m] <= x
        <5>1. CASE right
          BY <1>2, <1>3, <1>4, <2>3, <4>1, <5>1 DEF Apart, Below
        <5>2. CASE ~right
          <6>1. v[m] # v[n]
            BY <2>3, <5>2, Distinct
          <6> QED
            BY <1>2, <1>3, <1>5, <2>3, <4>1, <5>2, <6>1
        <5> QED
          BY <5>1, <5>2
      <4> QED
        BY <1>1, <2>3, <3>1, <3>3, <4>1, <4>2
    <3> QED
      BY <3>2, <3>3
  <2> QED
    BY <2>1, <2>2, <2>3
<1>8. RightSide(u, K, v2, lo2, hi2, up2)
  <2> SUFFICES ASSUME NEW m \in K
               PROVE  IF Tree!Right(u, m) = 0 THEN \A k \in K : v2[k] <= v2[m] \/ hi2[m] <= v2[k]
                      ELSE /\ lo2[Tree!Right(u, m)] = v2[m] /\ hi2[Tree!Right(u, m)] = hi2[m]
                           /\ up2[Tree!Right(u, m)] = m
    BY DEF RightSide
  <2>1. CASE m = leaf
    BY <1>1, <1>2, <1>3, <1>5, <2>1 DEF Attached
  <2>2. CASE m = n /\ right
    BY <1>1, <2>2 DEF Attached
  <2>3. CASE m \in L /\ ~(m = n /\ right)
    <3>1. Tree!Right(u, m) = Tree!Right(t, m) /\ Tree!Right(t, m) \in L \union {0}
      BY <2>3 DEF Attached, Ordered, Closed
    <3>2. CASE Tree!Right(t, m) # 0
      <4>1. /\ lo[Tree!Right(t, m)] = v[m] /\ hi[Tree!Right(t, m)] = hi[m]
            /\ up[Tree!Right(t, m)] = m
        BY <2>3, <3>2 DEF Ordered, RightSide
      <4> QED
        BY <1>1, <2>3, <3>1, <3>2, <4>1
    <3>3. CASE Tree!Right(t, m) = 0
      <4>1. \A k \in L : v[k] <= v[m] \/ hi[m] <= v[k]
        BY <2>3, <3>3 DEF Ordered, RightSide
      <4>2. x <= v[m] \/ hi[m] <= x
        <5>1. CASE ~right
          BY <1>2, <1>3, <1>4, <1>5, <2>3, <4>1, <5>1 DEF Apart, Below
        <5>2. CASE right
          <6>1. v[m] # v[n]
            BY <2>3, <5>2, Distinct
          <6> QED
            BY <1>2, <1>3, <2>3, <4>1, <5>2, <6>1
        <5> QED
          BY <5>1, <5>2
      <4> QED
        BY <1>1, <2>3, <3>1, <3>3, <4>1, <4>2
    <3> QED
      BY <3>2, <3>3
  <2> QED
    BY <2>1, <2>2, <2>3
<1>9. Rooted(u, K, lo2, hi2, up2, top)
  BY <1>1 DEF Ordered, Rooted, Attached
<1>10. Hanging(u, K, up2)
  <2> SUFFICES ASSUME NEW m \in K, m # u.root
               PROVE  /\ up2[m] \in K
                      /\ Tree!Left(u, up2[m]) = m \/ Tree!Right(u, up2[m]) = m
    BY DEF Hanging
  <2>1. CASE m = leaf
    BY <1>1, <2>1 DEF Attached
  <2>2. CASE m \in L
    <3>1. /\ up2[m] = up[m] /\ up[m] \in L
          /\ Tree!Left(t, up[m]) = m \/ Tree!Right(t, up[m]) = m
      BY <1>1, <2>2 DEF Attached, Ordered, Hanging
    <3> QED
      BY <1>2, <2>2, <3>1 DEF Attached
  <2> QED
    BY <2>1, <2>2
<1>11. Nested(K, v2, lo2, hi2)
  <2>1. \A m \in L : \/ Apart(m, leaf, lo2, hi2)
                     \/ Below(m, leaf, v2, lo2, hi2) \/ Below(leaf, m, v2, lo2, hi2)
    <3> TAKE m \in L
    <3>1. CASE m = n
      BY <1>1, <1>2, <3>1 DEF Apart, Below
    <3>2. CASE m # n
      <4>1. Apart(m, n, lo, hi) \/ Below(m, n, v, lo, hi) \/ Below(n, m, v, lo, hi)
        BY <1>4, <3>2
      <4> QED
        BY <1>1, <1>2, <1>3, <4>1 DEF Apart, Below
    <3> QED
      BY <3>1, <3>2
  <2>2. \A m, k \in L : \/ m = k \/ Apart(m, k, lo2, hi2)
                        \/ Below(m, k, v2, lo2, hi2) \/ Below(k, m, v2, lo2, hi2)
    BY <1>1 DEF Ordered, Nested, Apart, Below
  <2>3. \A m, k \in K : Apart(m, k, lo2, hi2) <=> Apart(k, m, lo2, hi2)
    BY DEF Apart
  <2> QED
    BY <2>1, <2>2, <2>3 DEF Nested
<1>12. Ordered(u, K, v2, lo2, hi2, up2, top)
  BY <1>6, <1>7, <1>8, <1>9, <1>10, <1>11 DEF Ordered
<1> QED
  BY <1>12 DEF InOrder, v2

\* A node leaves, and c, its only child or none, takes its place.
Unlinked(t, u, L, n, c, p) ==
  /\ u.root = IF n = t.root THEN c ELSE t.root
  /\ \A m \in L \ {n} :
       /\ Tree!Left(u, m) = IF n # t.root /\ m = p /\ Tree!Left(t, m) = n
                            THEN c ELSE Tree!Left(t, m)
       /\ Tree!Right(u, m) = IF n # t.root /\ m = p /\ Tree!Left(t, m) # n
                             THEN c ELSE Tree!Right(t, m)
       /\ Tree!Data(u, m) = Tree!Data(t, m)

OnlyChild(t, n) == IF Tree!Left(t, n) # 0 THEN Tree!Left(t, n) ELSE Tree!Right(t, n)

\* Unlink takes the node out as Unlinked says.
LEMMA UnlinkView ==
  ASSUME NEW L, NEW t, NEW v, NEW lo, NEW hi, NEW up, NEW top,
         Ordered(t, L, v, lo, hi, up, top), NEW n \in L
  PROVE  /\ Tree!Unlink(t, n) \in TreeOver(L \ {n})
         /\ Unlinked(t, Tree!Unlink(t, n), L, n, OnlyChild(t, n), up[n])
<1> DEFINE c == OnlyChild(t, n)
           s == Tree!Store(t, n, c)
           u == Tree!Free(s, n)
           K == L \ {n}
<1>1. Tree!Unlink(t, n) = u
  BY DEF Tree!Unlink, OnlyChild, Tree!NULL
<1>2. t \in TreeOver(L) /\ c \in Nat
  BY FieldsOfNode DEF Ordered, Closed, OnlyChild
<1>3. n # t.root => Tree!Parent(t, n) \in L /\ Tree!Parent(t, n) = up[n]
  BY ParentIs
<1>4. /\ s \in TreeOver(L)
      /\ Stores(t, s, L, n, Tree!Parent(t, n), c)
  BY <1>2, <1>3, StoreView
<1> HIDE DEF s, c
<1>5. /\ u.root = s.root /\ u \in TreeOver(K)
      /\ \A m \in K : u.node[m] = s.node[m]
  BY <1>4 DEF Tree!Free, TreeOver
<1> HIDE DEF u
<1>6. Unlinked(t, u, L, n, c, up[n])
  BY <1>3, <1>4, <1>5 DEF Unlinked, Stores, Tree!Left, Tree!Right, Tree!Data
<1> QED
  BY <1>1, <1>5, <1>6 DEF c

\* A node without a right child leaves, and its left child gets its interval.
LEMMA UnlinkLeftKeepsOrder ==
  ASSUME NEW L, NEW t, NEW v, NEW lo, NEW hi, NEW up, NEW top,
         Ordered(t, L, v, lo, hi, up, top), NEW n \in L, Tree!Right(t, n) = 0,
         NEW u \in TreeOver(L \ {n}), Unlinked(t, u, L, n, Tree!Left(t, n), up[n])
  PROVE  InOrder(u, L \ {n}, v, top)
<1> DEFINE K == L \ {n}
           c == Tree!Left(t, n)
           lo2 == lo
           hi2 == [m \in K |-> IF hi[m] = v[n] THEN hi[n] ELSE hi[m]]
           up2 == [m \in K |-> IF m = c THEN up[n] ELSE up[m]]
<1>1. \A m \in K : /\ lo2[m] = lo[m]
                   /\ hi2[m] = IF hi[m] = v[n] THEN hi[n] ELSE hi[m]
                   /\ up2[m] = IF m = c THEN up[n] ELSE up[m]
  OBVIOUS
<1> HIDE DEF lo2, hi2, up2
<1>2. \A m \in L : /\ v[m] \in Int /\ lo[m] \in Int /\ hi[m] \in Int
                   /\ lo[m] < v[m] /\ v[m] < hi[m] /\ m # 0
  BY DEF Ordered, Intervals, Closed
<1>3. \A m \in L : v[m] <= v[n] \/ hi[n] <= v[m]
  BY DEF Ordered, RightSide
<1>4. c = 0 => \A m \in L : v[m] <= lo[n] \/ v[n] <= v[m]
  BY DEF Ordered, LeftSide
<1>5. \A m \in K : Apart(m, n, lo, hi) \/ Below(m, n, v, lo, hi) \/ Below(n, m, v, lo, hi)
  BY DEF Ordered, Nested
<1>6. \A m \in K : v[m] # v[n]
  BY Distinct
<1>7. \A m \in K : /\ lo[m] < v[n] \/ hi[n] <= lo[m]
                   /\ v[m] < v[n] \/ hi[n] <= v[m]
                   /\ hi[m] <= v[n] \/ hi[n] <= hi[m]
  BY <1>2, <1>3, <1>5, <1>6 DEF Apart, Below
<1>8. c # 0 => c \in K /\ lo[c] = lo[n] /\ hi[c] = v[n] /\ up[c] = n /\ c # t.root
  BY ChildrenOf DEF Ordered, Closed, LeftSide, Rooted
<1>9. n # t.root => /\ up[n] \in K
                    /\ Tree!Left(t, up[n]) = n \/ Tree!Right(t, up[n]) = n
  BY ParentIs DEF Ordered, Hanging
<1>10. Closed(u, K)
  <2>1. \A m \in K : /\ Tree!Left(t, m) \in L \union {0} /\ Tree!Right(t, m) \in L \union {0}
                     /\ m \in Nat /\ m # 0
    BY DEF Ordered, Closed
  <2>2. ASSUME NEW m \in K, n \in {Tree!Left(t, m), Tree!Right(t, m)}
        PROVE  n # t.root /\ up[n] = m
    <3>1. up[n] = m
      BY <1>2, <2>2 DEF Ordered, LeftSide, RightSide
    <3>2. n # t.root
      BY <1>2, <2>2, <3>1, ChildrenOf
    <3> QED
      BY <3>1, <3>2
  <2>3. ASSUME NEW m \in K, Tree!Right(t, m) = n
        PROVE  Tree!Left(t, m) # n
    BY <1>2, <2>3, ChildrenOf
  <2>4. \A m \in K : Tree!Left(u, m) \in K \union {0}
    <3> TAKE m \in K
    <3>1. CASE Tree!Left(t, m) = n
      BY <1>8, <2>2, <3>1 DEF Unlinked
    <3>2. CASE Tree!Left(t, m) # n
      BY <2>1, <3>2 DEF Unlinked
    <3> QED
      BY <3>1, <3>2
  <2>5. \A m \in K : Tree!Right(u, m) \in K \union {0}
    <3> TAKE m \in K
    <3>1. CASE Tree!Right(t, m) = n
      BY <1>8, <2>2, <2>3, <3>1 DEF Unlinked
    <3>2. CASE Tree!Right(t, m) # n
      BY <1>8, <2>1, <3>2 DEF Unlinked
    <3> QED
      BY <3>1, <3>2
  <2> QED
    BY <2>1, <2>4, <2>5 DEF Closed
<1>11. Intervals(K, v, lo2, hi2, top)
  <2>1. top \in Nat /\ \A m \in L : 0 < v[m] /\ v[m] < top
    BY DEF Ordered, Intervals
  <2>2. \A m \in L : /\ lo[m] = 0 \/ \E k \in L : v[k] = lo[m]
                     /\ hi[m] = top \/ \E k \in L : v[k] = hi[m]
    BY DEF Ordered, Intervals
  <2>3. \A m \in K : /\ lo[m] = 0 \/ \E k \in K : v[k] = lo[m]
                     /\ hi[m] = top \/ hi[m] = v[n] \/ \E k \in K : v[k] = hi[m]
    BY <1>2, <1>7, <2>2
  <2>4. hi[n] = top \/ \E k \in K : v[k] = hi[n]
    BY <1>2, <2>2
  <2> SUFFICES ASSUME NEW m \in K
               PROVE  /\ v[m] \in Int /\ lo2[m] \in Int /\ hi2[m] \in Int
                      /\ lo2[m] < v[m] /\ v[m] < hi2[m]
                      /\ 0 < v[m] /\ v[m] < top
                      /\ lo2[m] = 0 \/ \E k \in K : v[k] = lo2[m]
                      /\ hi2[m] = top \/ \E k \in K : v[k] = hi2[m]
    BY <2>1 DEF Intervals
  <2>5. CASE hi[m] = v[n]
    BY <1>1, <1>2, <2>1, <2>3, <2>4, <2>5
  <2>6. CASE hi[m] # v[n]
    BY <1>1, <1>2, <2>1, <2>3, <2>6
  <2> QED
    BY <2>5, <2>6
<1>12. LeftSide(u, K, v, lo2, hi2, up2)
  <2> SUFFICES ASSUME NEW m \in K
               PROVE  IF Tree!Left(u, m) = 0 THEN \A k \in K : v[k] <= lo2[m] \/ v[m] <= v[k]
                      ELSE /\ lo2[Tree!Left(u, m)] = lo2[m] /\ hi2[Tree!Left(u, m)] = v[m]
                           /\ up2[Tree!Left(u, m)] = m
    BY DEF LeftSide
  <2>1. CASE n # t.root /\ m = up[n] /\ Tree!Left(t, m) = n
    <3>1. Tree!Left(u, m) = c
      BY <2>1 DEF Unlinked
    <3>2. lo[n] = lo[m] /\ hi[n] = v[m]
      BY <1>2, <1>9, <2>1, ChildrenOf DEF Ordered, LeftSide
    <3>3. CASE c = 0
      BY <1>1, <1>2, <1>4, <1>7, <3>1, <3>2, <3>3
    <3>4. CASE c # 0
      BY <1>1, <1>8, <2>1, <3>1, <3>2, <3>4
    <3> QED
      BY <3>3, <3>4
  <2>2. CASE ~(n # t.root /\ m = up[n] /\ Tree!Left(t, m) = n)
    <3> DEFINE d == Tree!Left(t, m)
    <3>1. Tree!Left(u, m) = d
      BY <2>2 DEF Unlinked
    <3>2. CASE d = 0
      BY <1>1, <3>1, <3>2 DEF Ordered, LeftSide
    <3>3. CASE d # 0
      <4>1. d \in L /\ lo[d] = lo[m] /\ hi[d] = v[m] /\ up[d] = m
        BY <3>3 DEF Ordered, LeftSide, Closed
      <4>2. d # n
        BY <2>2, <3>3, <4>1, ChildrenOf DEF Ordered, Rooted, Closed
      <4>3. d # c
        BY <1>8, <3>3, <4>1
      <4> QED
        BY <1>1, <1>6, <3>1, <3>3, <4>1, <4>2, <4>3
    <3> QED
      BY <3>2, <3>3
  <2> QED
    BY <2>1, <2>2
<1>13. RightSide(u, K, v, lo2, hi2, up2)
  <2> SUFFICES ASSUME NEW m \in K
               PROVE  IF Tree!Right(u, m) = 0 THEN \A k \in K : v[k] <= v[m] \/ hi2[m] <= v[k]
                      ELSE /\ lo2[Tree!Right(u, m)] = v[m] /\ hi2[Tree!Right(u, m)] = hi2[m]
                           /\ up2[Tree!Right(u, m)] = m
    BY DEF RightSide
  <2>1. CASE n # t.root /\ m = up[n] /\ Tree!Left(t, m) # n
    <3>1. Tree!Right(u, m) = c
      BY <2>1 DEF Unlinked
    <3>2. lo[n] = v[m] /\ hi[n] = hi[m]
      BY <1>2, <1>9, <2>1, ChildrenOf DEF Ordered, RightSide
    <3>3. CASE c = 0
      BY <1>1, <1>2, <1>4, <1>7, <3>1, <3>2, <3>3
    <3>4. CASE c # 0
      BY <1>1, <1>2, <1>8, <2>1, <3>1, <3>2, <3>4
    <3> QED
      BY <3>3, <3>4
  <2>2. CASE ~(n # t.root /\ m = up[n] /\ Tree!Left(t, m) # n)
    <3> DEFINE d == Tree!Right(t, m)
    <3>1. Tree!Right(u, m) = d
      BY <2>2 DEF Unlinked
    <3>2. CASE d = 0
      <4>1. \A k \in L : v[k] <= v[m] \/ hi[m] <= v[k]
        BY <3>2 DEF Ordered, RightSide
      <4> QED
        BY <1>1, <1>2, <1>7, <3>1, <3>2, <4>1
    <3>3. CASE d # 0
      <4>1. d \in L /\ lo[d] = v[m] /\ hi[d] = hi[m] /\ up[d] = m
        BY <3>3 DEF Ordered, RightSide, Closed
      <4>2. d # n
        BY <2>2, <3>3, <4>1, ChildrenOf DEF Ordered, Rooted, Closed
      <4>3. d # c
        BY <1>8, <3>3, <4>1
      <4> QED
        BY <1>1, <3>1, <3>3, <4>1, <4>2, <4>3
    <3> QED
      BY <3>2, <3>3
  <2> QED
    BY <2>1, <2>2
<1>14. Rooted(u, K, lo2, hi2, up2, top)
  <2>1. t.root # 0 /\ t.root \in L /\ lo[t.root] = 0 /\ hi[t.root] = top /\ up[t.root] = 0
    BY DEF Ordered, Rooted
  <2>2. \A m \in L : 0 < v[m] /\ v[m] < top
    BY DEF Ordered, Intervals
  <2>3. top \in Nat
    BY DEF Ordered, Intervals
  <2>4. CASE n # t.root
    <3>1. u.root = t.root /\ t.root # c
      BY <1>8, <2>1, <2>4 DEF Unlinked
    <3> QED
      BY <1>1, <1>2, <2>1, <2>2, <2>3, <2>4, <3>1 DEF Rooted
  <2>5. CASE n = t.root /\ c = 0
    <3>1. K = {}
      BY <1>2, <1>4, <1>7, <2>1, <2>2, <2>3, <2>5
    <3> QED
      BY <2>5, <3>1 DEF Rooted, Unlinked
  <2>6. CASE n = t.root /\ c # 0
    BY <1>1, <1>8, <2>1, <2>6 DEF Rooted, Unlinked
  <2> QED
    BY <2>4, <2>5, <2>6
<1>15. Hanging(u, K, up2)
  <2> SUFFICES ASSUME NEW m \in K, m # u.root
               PROVE  /\ up2[m] \in K
                      /\ Tree!Left(u, up2[m]) = m \/ Tree!Right(u, up2[m]) = m
    BY DEF Hanging
  <2>1. CASE m = c
    BY <1>1, <1>9, <2>1 DEF Unlinked
  <2>2. CASE m # c
    <3>1. m # t.root
      BY <2>2 DEF Unlinked
    <3>2. /\ up[m] \in L /\ up2[m] = up[m]
          /\ Tree!Left(t, up[m]) = m \/ Tree!Right(t, up[m]) = m
      BY <1>1, <2>2, <3>1 DEF Ordered, Hanging
    <3>3. up[m] # n
      BY <1>2, <2>2, <3>2
    <3> QED
      BY <1>9, <3>2, <3>3 DEF Unlinked
  <2> QED
    BY <2>1, <2>2
<1>16. Nested(K, v, lo2, hi2)
  <2> SUFFICES ASSUME NEW m \in K, NEW k \in K, m # k
               PROVE  \/ Apart(m, k, lo2, hi2)
                      \/ Below(m, k, v, lo2, hi2) \/ Below(k, m, v, lo2, hi2)
    BY DEF Nested
  <2>1. Apart(m, k, lo, hi) \/ Below(m, k, v, lo, hi) \/ Below(k, m, v, lo, hi)
    BY DEF Ordered, Nested
  <2> QED
    BY <1>1, <1>2, <1>7, <2>1 DEF Apart, Below
<1>17. Ordered(u, K, v, lo2, hi2, up2, top)
  BY <1>10, <1>11, <1>12, <1>13, <1>14, <1>15, <1>16 DEF Ordered
<1> QED
  BY <1>17 DEF InOrder

\* The same without a left child.
LEMMA UnlinkRightKeepsOrder ==
  ASSUME NEW L, NEW t, NEW v, NEW hi, NEW lo, NEW up, NEW top,
         Ordered(t, L, v, lo, hi, up, top), NEW n \in L, Tree!Left(t, n) = 0,
         NEW u \in TreeOver(L \ {n}), Unlinked(t, u, L, n, Tree!Right(t, n), up[n])
  PROVE  InOrder(u, L \ {n}, v, top)
<1> DEFINE K == L \ {n}
           c == Tree!Right(t, n)
           hi2 == hi
           lo2 == [m \in K |-> IF lo[m] = v[n] THEN lo[n] ELSE lo[m]]
           up2 == [m \in K |-> IF m = c THEN up[n] ELSE up[m]]
<1>1. \A m \in K : /\ hi2[m] = hi[m]
                   /\ lo2[m] = IF lo[m] = v[n] THEN lo[n] ELSE lo[m]
                   /\ up2[m] = IF m = c THEN up[n] ELSE up[m]
  OBVIOUS
<1> HIDE DEF lo2, hi2, up2
<1>2. \A m \in L : /\ v[m] \in Int /\ hi[m] \in Int /\ lo[m] \in Int
                   /\ lo[m] < v[m] /\ v[m] < hi[m] /\ m # 0
  BY DEF Ordered, Intervals, Closed
<1>3. \A m \in L : v[m] <= lo[n] \/ v[n] <= v[m]
  BY DEF Ordered, LeftSide
<1>4. c = 0 => \A m \in L : v[m] <= v[n] \/ hi[n] <= v[m]
  BY DEF Ordered, RightSide
<1>5. \A m \in K : Apart(m, n, lo, hi) \/ Below(m, n, v, lo, hi) \/ Below(n, m, v, lo, hi)
  BY DEF Ordered, Nested
<1>6. \A m \in K : v[m] # v[n]
  BY Distinct
<1>7. \A m \in K : /\ v[n] < hi[m] \/ hi[m] <= lo[n]
                   /\ v[n] < v[m] \/ v[m] <= lo[n]
                   /\ v[n] <= lo[m] \/ lo[m] <= lo[n]
  BY <1>2, <1>3, <1>5, <1>6 DEF Apart, Below
<1>8. c # 0 => c \in K /\ hi[c] = hi[n] /\ lo[c] = v[n] /\ up[c] = n /\ c # t.root
  BY ChildrenOf DEF Ordered, Closed, RightSide, Rooted
<1>9. n # t.root => /\ up[n] \in K
                    /\ Tree!Right(t, up[n]) = n \/ Tree!Left(t, up[n]) = n
  BY ParentIs DEF Ordered, Hanging
<1>10. Closed(u, K)
  <2>1. \A m \in K : /\ Tree!Left(t, m) \in L \union {0} /\ Tree!Right(t, m) \in L \union {0}
                     /\ m \in Nat /\ m # 0
    BY DEF Ordered, Closed
  <2>2. ASSUME NEW m \in K, n \in {Tree!Left(t, m), Tree!Right(t, m)}
        PROVE  n # t.root /\ up[n] = m
    <3>1. up[n] = m
      BY <1>2, <2>2 DEF Ordered, LeftSide, RightSide
    <3>2. n # t.root
      BY <1>2, <2>2, <3>1, ChildrenOf
    <3> QED
      BY <3>1, <3>2
  <2>3. ASSUME NEW m \in K, Tree!Right(t, m) = n
        PROVE  Tree!Left(t, m) # n
    BY <1>2, <2>3, ChildrenOf
  <2>4. \A m \in K : Tree!Left(u, m) \in K \union {0}
    <3> TAKE m \in K
    <3>1. CASE Tree!Left(t, m) = n
      BY <1>8, <2>2, <3>1 DEF Unlinked
    <3>2. CASE Tree!Left(t, m) # n
      BY <2>1, <3>2 DEF Unlinked
    <3> QED
      BY <3>1, <3>2
  <2>5. \A m \in K : Tree!Right(u, m) \in K \union {0}
    <3> TAKE m \in K
    <3>1. CASE Tree!Right(t, m) = n
      BY <1>8, <2>2, <2>3, <3>1 DEF Unlinked
    <3>2. CASE Tree!Right(t, m) # n
      BY <1>8, <2>1, <3>2 DEF Unlinked
    <3> QED
      BY <3>1, <3>2
  <2> QED
    BY <2>1, <2>4, <2>5 DEF Closed
<1>11. Intervals(K, v, lo2, hi2, top)
  <2>1. top \in Nat /\ \A m \in L : 0 < v[m] /\ v[m] < top
    BY DEF Ordered, Intervals
  <2>2. \A m \in L : /\ lo[m] = 0 \/ \E k \in L : v[k] = lo[m]
                     /\ hi[m] = top \/ \E k \in L : v[k] = hi[m]
    BY DEF Ordered, Intervals
  <2>3. \A m \in K : /\ hi[m] = top \/ \E k \in K : v[k] = hi[m]
                     /\ lo[m] = 0 \/ lo[m] = v[n] \/ \E k \in K : v[k] = lo[m]
    BY <1>2, <1>7, <2>2
  <2>4. lo[n] = 0 \/ \E k \in K : v[k] = lo[n]
    BY <1>2, <2>2
  <2> SUFFICES ASSUME NEW m \in K
               PROVE  /\ v[m] \in Int /\ hi2[m] \in Int /\ lo2[m] \in Int
                      /\ lo2[m] < v[m] /\ v[m] < hi2[m]
                      /\ 0 < v[m] /\ v[m] < top
                      /\ lo2[m] = 0 \/ \E k \in K : v[k] = lo2[m]
                      /\ hi2[m] = top \/ \E k \in K : v[k] = hi2[m]
    BY <2>1 DEF Intervals
  <2>5. CASE lo[m] = v[n]
    BY <1>1, <1>2, <2>1, <2>3, <2>4, <2>5
  <2>6. CASE lo[m] # v[n]
    BY <1>1, <1>2, <2>1, <2>3, <2>6
  <2> QED
    BY <2>5, <2>6
<1>12. RightSide(u, K, v, lo2, hi2, up2)
  <2> SUFFICES ASSUME NEW m \in K
               PROVE  IF Tree!Right(u, m) = 0 THEN \A k \in K : v[k] <= v[m] \/ hi2[m] <= v[k]
                      ELSE /\ hi2[Tree!Right(u, m)] = hi2[m] /\ lo2[Tree!Right(u, m)] = v[m]
                           /\ up2[Tree!Right(u, m)] = m
    BY DEF RightSide
  <2>1. CASE n # t.root /\ m = up[n] /\ Tree!Left(t, m) # n
    <3>1. Tree!Right(u, m) = c
      BY <2>1 DEF Unlinked
    <3>2. hi[n] = hi[m] /\ lo[n] = v[m]
      BY <1>2, <1>9, <2>1, ChildrenOf DEF Ordered, RightSide
    <3>3. CASE c = 0
      BY <1>1, <1>2, <1>4, <1>7, <3>1, <3>2, <3>3
    <3>4. CASE c # 0
      BY <1>1, <1>8, <2>1, <3>1, <3>2, <3>4
    <3> QED
      BY <3>3, <3>4
  <2>2. CASE ~(n # t.root /\ m = up[n] /\ Tree!Left(t, m) # n)
    <3> DEFINE d == Tree!Right(t, m)
    <3>1. Tree!Right(u, m) = d
      BY <2>2 DEF Unlinked
    <3>2. CASE d = 0
      BY <1>1, <3>1, <3>2 DEF Ordered, RightSide
    <3>3. CASE d # 0
      <4>1. d \in L /\ hi[d] = hi[m] /\ lo[d] = v[m] /\ up[d] = m
        BY <3>3 DEF Ordered, RightSide, Closed
      <4>2. d # n
        BY <2>2, <3>3, <4>1, ChildrenOf DEF Ordered, Rooted, Closed
      <4>3. d # c
        BY <1>8, <3>3, <4>1
      <4> QED
        BY <1>1, <1>6, <3>1, <3>3, <4>1, <4>2, <4>3
    <3> QED
      BY <3>2, <3>3
  <2> QED
    BY <2>1, <2>2
<1>13. LeftSide(u, K, v, lo2, hi2, up2)
  <2> SUFFICES ASSUME NEW m \in K
               PROVE  IF Tree!Left(u, m) = 0 THEN \A k \in K : v[k] <= lo2[m] \/ v[m] <= v[k]
                      ELSE /\ hi2[Tree!Left(u, m)] = v[m] /\ lo2[Tree!Left(u, m)] = lo2[m]
                           /\ up2[Tree!Left(u, m)] = m
    BY DEF LeftSide
  <2>1. CASE n # t.root /\ m = up[n] /\ Tree!Left(t, m) = n
    <3>1. Tree!Left(u, m) = c
      BY <2>1 DEF Unlinked
    <3>2. hi[n] = v[m] /\ lo[n] = lo[m]
      BY <1>2, <1>9, <2>1, ChildrenOf DEF Ordered, LeftSide
    <3>3. CASE c = 0
      BY <1>1, <1>2, <1>4, <1>7, <3>1, <3>2, <3>3
    <3>4. CASE c # 0
      BY <1>1, <1>2, <1>8, <2>1, <3>1, <3>2, <3>4
    <3> QED
      BY <3>3, <3>4
  <2>2. CASE ~(n # t.root /\ m = up[n] /\ Tree!Left(t, m) = n)
    <3> DEFINE d == Tree!Left(t, m)
    <3>1. Tree!Left(u, m) = d
      BY <2>2 DEF Unlinked
    <3>2. CASE d = 0
      <4>1. \A k \in L : v[k] <= lo[m] \/ v[m] <= v[k]
        BY <3>2 DEF Ordered, LeftSide
      <4> QED
        BY <1>1, <1>2, <1>7, <3>1, <3>2, <4>1
    <3>3. CASE d # 0
      <4>1. d \in L /\ hi[d] = v[m] /\ lo[d] = lo[m] /\ up[d] = m
        BY <3>3 DEF Ordered, LeftSide, Closed
      <4>2. d # n
        BY <2>2, <3>3, <4>1, ChildrenOf DEF Ordered, Rooted, Closed
      <4>3. d # c
        BY <1>8, <3>3, <4>1
      <4> QED
        BY <1>1, <3>1, <3>3, <4>1, <4>2, <4>3
    <3> QED
      BY <3>2, <3>3
  <2> QED
    BY <2>1, <2>2
<1>14. Rooted(u, K, lo2, hi2, up2, top)
  <2>1. t.root # 0 /\ t.root \in L /\ lo[t.root] = 0 /\ hi[t.root] = top /\ up[t.root] = 0
    BY DEF Ordered, Rooted
  <2>2. \A m \in L : 0 < v[m] /\ v[m] < top
    BY DEF Ordered, Intervals
  <2>3. top \in Nat
    BY DEF Ordered, Intervals
  <2>4. CASE n # t.root
    <3>1. u.root = t.root /\ t.root # c
      BY <1>8, <2>1, <2>4 DEF Unlinked
    <3> QED
      BY <1>1, <1>2, <2>1, <2>2, <2>3, <2>4, <3>1 DEF Rooted
  <2>5. CASE n = t.root /\ c = 0
    <3>1. K = {}
      BY <1>2, <1>4, <1>7, <2>1, <2>2, <2>3, <2>5
    <3> QED
      BY <2>5, <3>1 DEF Rooted, Unlinked
  <2>6. CASE n = t.root /\ c # 0
    BY <1>1, <1>8, <2>1, <2>6 DEF Rooted, Unlinked
  <2> QED
    BY <2>4, <2>5, <2>6
<1>15. Hanging(u, K, up2)
  <2> SUFFICES ASSUME NEW m \in K, m # u.root
               PROVE  /\ up2[m] \in K
                      /\ Tree!Right(u, up2[m]) = m \/ Tree!Left(u, up2[m]) = m
    BY DEF Hanging
  <2>1. CASE m = c
    BY <1>1, <1>9, <2>1 DEF Unlinked
  <2>2. CASE m # c
    <3>1. m # t.root
      BY <2>2 DEF Unlinked
    <3>2. /\ up[m] \in L /\ up2[m] = up[m]
          /\ Tree!Right(t, up[m]) = m \/ Tree!Left(t, up[m]) = m
      BY <1>1, <2>2, <3>1 DEF Ordered, Hanging
    <3>3. up[m] # n
      BY <1>2, <2>2, <3>2
    <3> QED
      BY <1>9, <3>2, <3>3 DEF Unlinked
  <2> QED
    BY <2>1, <2>2
<1>16. Nested(K, v, lo2, hi2)
  <2> SUFFICES ASSUME NEW m \in K, NEW k \in K, m # k
               PROVE  \/ Apart(m, k, lo2, hi2)
                      \/ Below(m, k, v, lo2, hi2) \/ Below(k, m, v, lo2, hi2)
    BY DEF Nested
  <2>1. Apart(m, k, lo, hi) \/ Below(m, k, v, lo, hi) \/ Below(k, m, v, lo, hi)
    BY DEF Ordered, Nested
  <2> QED
    BY <1>1, <1>2, <1>7, <2>1 DEF Apart, Below
<1>17. Ordered(u, K, v, lo2, hi2, up2, top)
  BY <1>10, <1>11, <1>12, <1>13, <1>14, <1>15, <1>16 DEF Ordered
<1> QED
  BY <1>17 DEF InOrder

\* A node with one child or none leaves, and the order stays.
LEMMA UnlinkKeepsOrder ==
  ASSUME NEW L, NEW t, NEW v, NEW lo, NEW hi, NEW up, NEW top,
         Ordered(t, L, v, lo, hi, up, top), NEW n \in L, Tree!OneChild(t, n)
  PROVE  /\ InOrder(Tree!Unlink(t, n), L \ {n}, v, top)
         /\ SameData(t, Tree!Unlink(t, n), L \ {n})
         /\ DOMAIN Tree!Unlink(t, n).node = L \ {n}
<1> DEFINE u == Tree!Unlink(t, n)
<1>1. u \in TreeOver(L \ {n}) /\ Unlinked(t, u, L, n, OnlyChild(t, n), up[n])
  BY UnlinkView
<1> HIDE DEF u
<1>2. SameData(t, u, L \ {n}) /\ DOMAIN u.node = L \ {n}
  BY <1>1 DEF SameData, Unlinked, TreeOver
<1>3. CASE Tree!Left(t, n) = 0
  <2>1. Unlinked(t, u, L, n, Tree!Right(t, n), up[n])
    BY <1>1, <1>3 DEF OnlyChild
  <2> QED
    BY <1>1, <1>2, <1>3, <2>1, UnlinkRightKeepsOrder DEF u
<1>4. CASE Tree!Left(t, n) # 0
  <2>1. Unlinked(t, u, L, n, Tree!Left(t, n), up[n]) /\ Tree!Right(t, n) = 0
    BY <1>1, <1>4 DEF OnlyChild, Tree!OneChild, Tree!NULL
  <2> QED
    BY <1>1, <1>2, <2>1, UnlinkLeftKeepsOrder DEF u
<1> QED
  BY <1>3, <1>4

\* A node takes a number up to which there is no other.
LEMMA RenameKeepsOrder ==
  ASSUME NEW L, NEW t, NEW v, NEW lo, NEW hi, NEW up, NEW top,
         Ordered(t, L, v, lo, hi, up, top), NEW d \in L, NEW x \in Int,
         v[d] < x, x < top, \A m \in L : v[m] <= v[d] \/ x < v[m],
         NEW w, w[d] = x, \A m \in L \ {d} : w[m] = v[m]
  PROVE  InOrder(t, L, w, top)
<1> DEFINE lo2 == [m \in L |-> IF lo[m] = v[d] THEN x ELSE lo[m]]
           hi2 == [m \in L |-> IF hi[m] = v[d] THEN x ELSE hi[m]]
<1>1. \A m \in L : /\ w[m] = IF v[m] = v[d] THEN x ELSE v[m]
                   /\ lo2[m] = IF lo[m] = v[d] THEN x ELSE lo[m]
                   /\ hi2[m] = IF hi[m] = v[d] THEN x ELSE hi[m]
  <2>1. \A m \in L : v[m] = v[d] => m = d
    BY Distinct
  <2> QED
    BY <2>1
<1> HIDE DEF lo2, hi2
<1>2. \A m \in L : /\ v[m] \in Int /\ lo[m] \in Int /\ hi[m] \in Int
                   /\ lo[m] < v[m] /\ v[m] < hi[m] /\ 0 < v[m] /\ v[m] < top
                   /\ lo[m] = 0 \/ \E k \in L : v[k] = lo[m]
                   /\ hi[m] = top \/ \E k \in L : v[k] = hi[m]
  BY DEF Ordered, Intervals
<1>3. top \in Nat
  BY DEF Ordered, Intervals
<1>4. \A m \in L : /\ v[m] <= v[d] \/ x < v[m]
                   /\ lo[m] <= v[d] \/ x < lo[m]
                   /\ hi[m] <= v[d] \/ x < hi[m]
  BY <1>2
<1>5. Intervals(L, w, lo2, hi2, top)
  <2> SUFFICES ASSUME NEW m \in L
               PROVE  /\ w[m] \in Int /\ lo2[m] \in Int /\ hi2[m] \in Int
                      /\ lo2[m] < w[m] /\ w[m] < hi2[m]
                      /\ 0 < w[m] /\ w[m] < top
                      /\ lo2[m] = 0 \/ \E k \in L : w[k] = lo2[m]
                      /\ hi2[m] = top \/ \E k \in L : w[k] = hi2[m]
    BY <1>3 DEF Intervals
  <2>1. /\ w[m] \in Int /\ lo2[m] \in Int /\ hi2[m] \in Int
        /\ lo2[m] < w[m] /\ w[m] < hi2[m]
        /\ 0 < w[m] /\ w[m] < top
    BY <1>1, <1>2, <1>3, <1>4
  <2>2. lo2[m] = 0 \/ \E k \in L : w[k] = lo2[m]
    BY <1>1, <1>2
  <2>3. hi2[m] = top \/ \E k \in L : w[k] = hi2[m]
    BY <1>1, <1>2
  <2> QED
    BY <2>1, <2>2, <2>3
<1>6. Closed(t, L) /\ Hanging(t, L, up)
  BY DEF Ordered
<1>7. LeftSide(t, L, w, lo2, hi2, up)
  <2> SUFFICES ASSUME NEW m \in L
               PROVE  IF Tree!Left(t, m) = 0 THEN \A k \in L : w[k] <= lo2[m] \/ w[m] <= w[k]
                      ELSE /\ lo2[Tree!Left(t, m)] = lo2[m] /\ hi2[Tree!Left(t, m)] = w[m]
                           /\ up[Tree!Left(t, m)] = m
    BY DEF LeftSide
  <2>1. CASE Tree!Left(t, m) = 0
    <3>1. \A k \in L : v[k] <= lo[m] \/ v[m] <= v[k]
      BY <2>1 DEF Ordered, LeftSide
    <3> QED
      BY <1>1, <1>2, <1>4, <2>1, <3>1
  <2>2. CASE Tree!Left(t, m) # 0
    <3>1. /\ Tree!Left(t, m) \in L /\ lo[Tree!Left(t, m)] = lo[m]
          /\ hi[Tree!Left(t, m)] = v[m] /\ up[Tree!Left(t, m)] = m
      BY <2>2 DEF Ordered, LeftSide, Closed
    <3> QED
      BY <1>1, <2>2, <3>1
  <2> QED
    BY <2>1, <2>2
<1>8. RightSide(t, L, w, lo2, hi2, up)
  <2> SUFFICES ASSUME NEW m \in L
               PROVE  IF Tree!Right(t, m) = 0 THEN \A k \in L : w[k] <= w[m] \/ hi2[m] <= w[k]
                      ELSE /\ lo2[Tree!Right(t, m)] = w[m] /\ hi2[Tree!Right(t, m)] = hi2[m]
                           /\ up[Tree!Right(t, m)] = m
    BY DEF RightSide
  <2>1. CASE Tree!Right(t, m) = 0
    <3>1. \A k \in L : v[k] <= v[m] \/ hi[m] <= v[k]
      BY <2>1 DEF Ordered, RightSide
    <3> QED
      BY <1>1, <1>2, <1>4, <2>1, <3>1
  <2>2. CASE Tree!Right(t, m) # 0
    <3>1. /\ Tree!Right(t, m) \in L /\ lo[Tree!Right(t, m)] = v[m]
          /\ hi[Tree!Right(t, m)] = hi[m] /\ up[Tree!Right(t, m)] = m
      BY <2>2 DEF Ordered, RightSide, Closed
    <3> QED
      BY <1>1, <2>2, <3>1
  <2> QED
    BY <2>1, <2>2
<1>9. Rooted(t, L, lo2, hi2, up, top)
  BY <1>1, <1>2, <1>3 DEF Ordered, Rooted
<1>10. Nested(L, w, lo2, hi2)
  <2> SUFFICES ASSUME NEW m \in L, NEW k \in L, m # k
               PROVE  \/ Apart(m, k, lo2, hi2)
                      \/ Below(m, k, w, lo2, hi2) \/ Below(k, m, w, lo2, hi2)
    BY DEF Nested
  <2>1. Apart(m, k, lo, hi) \/ Below(m, k, v, lo, hi) \/ Below(k, m, v, lo, hi)
    BY DEF Ordered, Nested
  <2> QED
    BY <1>1, <1>2, <1>4, <2>1 DEF Apart, Below
<1>11. Ordered(t, L, w, lo2, hi2, up, top)
  BY <1>5, <1>6, <1>7, <1>8, <1>9, <1>10 DEF Ordered
<1> QED
  BY <1>11 DEF InOrder

\* The order is one of numbers and pointers.
LEMMA SamePointersOrdered ==
  ASSUME NEW L, NEW t, NEW v, NEW lo, NEW hi, NEW up, NEW top,
         Ordered(t, L, v, lo, hi, up, top), NEW u \in TreeOver(L), u.root = t.root,
         \A m \in L : Tree!Left(u, m) = Tree!Left(t, m) /\ Tree!Right(u, m) = Tree!Right(t, m),
         NEW w, \A m \in L : w[m] = v[m]
  PROVE  Ordered(u, L, w, lo, hi, up, top)
<1>1. Closed(u, L) /\ Hanging(u, L, up) /\ Rooted(u, L, lo, hi, up, top)
  BY DEF Ordered, Closed, Hanging, Rooted
<1>2. Intervals(L, w, lo, hi, top)
  BY DEF Ordered, Intervals
<1>3. LeftSide(u, L, w, lo, hi, up)
  BY DEF Ordered, LeftSide
<1>4. RightSide(u, L, w, lo, hi, up)
  BY DEF Ordered, RightSide
<1>5. Nested(L, w, lo, hi)
  BY DEF Ordered, Nested, Below
<1> QED
  BY <1>1, <1>2, <1>3, <1>4, <1>5 DEF Ordered

\* The search for a number goes down to it, or to where it would be.
LEMMA SearchStep ==
  ASSUME NEW L, NEW t, NEW v, NEW lo, NEW hi, NEW up, NEW top,
         Ordered(t, L, v, lo, hi, up, top), NEW n \in L, NEW x \in Int,
         lo[n] < x, x < hi[n], x # v[n], NEW next,
         next = IF v[n] < x THEN Tree!Right(t, n) ELSE Tree!Left(t, n)
  PROVE  /\ next # 0 => /\ next \in L /\ lo[next] < x /\ x < hi[next] /\ lo[n] <= lo[next]
         /\ next = 0 => \A m \in L : v[m] # x
<1>1. v[n] \in Int /\ lo[n] \in Int /\ hi[n] \in Int /\ lo[n] < v[n]
  BY DEF Ordered, Intervals
<1>2. CASE v[n] < x
  BY <1>1, <1>2 DEF Ordered, Closed, RightSide, Intervals
<1>3. CASE x < v[n]
  BY <1>1, <1>3 DEF Ordered, Closed, LeftSide, Intervals
<1> QED
  BY <1>1, <1>2, <1>3

\* The only node of a tree.
Planted(t, leaf, key) == [Tree!Allocate(t, leaf, key) EXCEPT !.root = leaf]

\* The pointers of a tree of one node.
LEMMA PlantedView ==
  ASSUME NEW t \in TreeOver({}), NEW key \in Player, NEW leaf \in Nat \ {0}
  PROVE  /\ Closed(Planted(t, leaf, key), {leaf}) /\ Planted(t, leaf, key).root = leaf
         /\ Tree!Data(Planted(t, leaf, key), leaf) = key
         /\ Tree!Left(Planted(t, leaf, key), leaf) = 0
         /\ Tree!Right(Planted(t, leaf, key), leaf) = 0
<1> DEFINE u == Planted(t, leaf, key)
<1>1. {} \union {leaf} = {leaf}
  OBVIOUS
<1>2. Tree!Allocate(t, leaf, key) \in TreeOver({leaf})
  BY <1>1, AllocateView
<1>3. Tree!Allocate(t, leaf, key).node =
        [m \in {leaf} |-> [left |-> 0, right |-> 0, data |-> key, height |-> 0]]
  BY <1>1, AllocateView
<1>4. /\ u \in TreeOver({leaf}) /\ u.root = leaf
      /\ u.node = [m \in {leaf} |-> [left |-> 0, right |-> 0, data |-> key, height |-> 0]]
  BY <1>2, <1>3 DEF TreeOver, Planted
<1> HIDE DEF u
<1>5. Tree!Left(u, leaf) = 0 /\ Tree!Right(u, leaf) = 0 /\ Tree!Data(u, leaf) = key
  BY <1>4 DEF Tree!Left, Tree!Right, Tree!Data
<1>6. Closed(u, {leaf})
  BY <1>4, <1>5 DEF Closed
<1> QED
  BY <1>4, <1>5, <1>6 DEF u

\* A tree of one node is in order.
LEMMA FirstNode ==
  ASSUME NEW t \in TreeOver({}), NEW key \in Player, NEW leaf \in Nat \ {0},
         NEW top \in Nat, key.seq_num < top, 0 < key.seq_num, NEW v, v[leaf] = key.seq_num
  PROVE  InOrder(Planted(t, leaf, key), {leaf}, v, top)
<1> DEFINE u == Planted(t, leaf, key)
           lo == [m \in {leaf} |-> 0]
           hi == [m \in {leaf} |-> top]
           up == [m \in {leaf} |-> 0]
<1>1. /\ Closed(u, {leaf}) /\ u.root = leaf
      /\ Tree!Left(u, leaf) = 0 /\ Tree!Right(u, leaf) = 0
  BY PlantedView
<1>2. key.seq_num \in Nat
  BY DEF Player
<1> HIDE DEF u
<1>3. Ordered(u, {leaf}, v, lo, hi, up, top)
  BY <1>1, <1>2 DEF Ordered, Intervals, LeftSide, RightSide, Rooted, Hanging, Nested
<1> QED
  BY <1>3 DEF InOrder, u

-----------------------------------------------------------------------------
(* The chains of the table.                                                  *)

Entry == [key : Fd, value : Nat]
Chains(size) == [0 .. size - 1 -> Seq(Entry)]

\* A key comes at most once in a chain.
Sole(chain, f) == \A j, k \in 1 .. Len(chain) : chain[j].key = f /\ chain[k].key = f => j = k
Has(chain, f) == \E j \in 1 .. Len(chain) : chain[j].key = f

\* An entry lies in the chain of its key, and it is the only one of its key there.
Placed(chains, size) ==
  \A i \in 0 .. size - 1 :
    /\ \A j \in 1 .. Len(chains[i]) : hash_fd(chains[i][j].key, size) = i
    /\ \A f \in Fd : Sole(chains[i], f)

OldChain(hash, size, f) == IF hash.old = <<>> THEN <<>> ELSE hash.old[hash_fd(f, size)]

TableOK(hash) ==
  /\ hash \in [hash_table : Chains(hash.hash_table_size), hash_table_size : Nat \ {0},
               num_elements : Int, old : {<<>>} \union Chains(hash.hash_table_size \div 2)]
  /\ Placed(hash.hash_table, hash.hash_table_size)
  /\ hash.old # <<>> =>
       /\ hash.hash_table_size \div 2 \in Nat \ {0}
       /\ Placed(hash.old, hash.hash_table_size \div 2)
  /\ \A f \in Fd : ~(Has(Table!Chain(hash, f), f)
                     /\ Has(OldChain(hash, hash.hash_table_size \div 2, f), f))

\* An array with chains is not <<>>, which stands for none.
LEMMA NotEmptyArray ==
  ASSUME NEW size \in Nat \ {0}, NEW u \in Chains(size)
  PROVE  u # <<>>
<1>1. DOMAIN u = 0 .. size - 1 /\ 0 \in 0 .. size - 1
  BY DEF Chains
<1>2. DOMAIN <<>> = {}
  OBVIOUS
<1> QED
  BY <1>1, <1>2

\* hash_fd is an index of the array.
LEMMA HashInRange ==
  ASSUME NEW f \in Fd, NEW size \in Nat \ {0}
  PROVE  hash_fd(f, size) \in 0 .. size - 1
<1>1. MIX[f] \in Nat
  BY ContainersAssumption
<1>2. \A a \in Nat, b \in Nat \ {0} : a % b \in 0 .. b - 1
  OBVIOUS
<1> QED
  BY <1>1, <1>2 DEF hash_fd

\* HashTable's instance has a cardinality of its own.
LEMMA SameCardinality == \A S : Table!Cardinality(S) = Cardinality(S)
BY DEF Table!Cardinality, Cardinality

Nth(own, k) == CHOOSE i \in own : Table!Cardinality({h \in own : h <= i}) = k
ValuesAt(chain, own) == [k \in 1 .. Table!Cardinality(own) |-> chain[Nth(own, k)].value]
Own(chain, f) == {i \in DOMAIN chain : chain[i].key = f}

\* ValuesIn looks at the entries of the key only.
LEMMA ValuesInOwn ==
  ASSUME NEW chain, NEW f
  PROVE  Table!ValuesIn(chain, f) = ValuesAt(chain, Own(chain, f))
BY DEF Table!ValuesIn, ValuesAt, Nth, Own

\* A key without an entry has no values.
LEMMA NoValues ==
  ASSUME NEW chain \in Seq(Entry), NEW f, \A j \in 1 .. Len(chain) : chain[j].key # f
  PROVE  Table!ValuesIn(chain, f) = <<>>
<1>1. Own(chain, f) = {}
  BY DEF Own
<1>2. Table!Cardinality({}) = 0
  BY FS_EmptySet, SameCardinality
<1>3. Table!ValuesIn(chain, f) = ValuesAt(chain, {})
  BY <1>1, ValuesInOwn
<1> QED
  BY <1>2, <1>3 DEF ValuesAt

\* A key with one entry has one value.
LEMMA OneValue ==
  ASSUME NEW chain \in Seq(Entry), NEW f, NEW j \in 1 .. Len(chain),
         chain[j].key = f, Sole(chain, f)
  PROVE  Table!ValuesIn(chain, f) = <<chain[j].value>>
<1>1. Own(chain, f) = {j}
  BY DEF Sole, Own
<1>2. Table!Cardinality({j}) = 1
  BY FS_Singleton, SameCardinality
<1>3. Nth({j}, 1) = j
  <2>1. {h \in {j} : h <= j} = {j}
    OBVIOUS
  <2> QED
    BY <1>2, <2>1 DEF Nth
<1>4. Table!ValuesIn(chain, f) = ValuesAt(chain, {j})
  BY <1>1, ValuesInOwn
<1>5. Table!ValuesIn(chain, f) = [k \in 1 .. 1 |-> chain[Nth({j}, k)].value]
  BY <1>2, <1>4 DEF ValuesAt
<1>6. \A k \in 1 .. 1 : chain[Nth({j}, k)].value = chain[j].value
  BY <1>3
<1>7. [k \in 1 .. 1 |-> chain[Nth({j}, k)].value] = <<chain[j].value>>
  BY <1>6
<1> QED
  BY <1>5, <1>7

\* Chains with the same entry of a key have the same value of it.
LEMMA SameValues ==
  ASSUME NEW c \in Seq(Entry), NEW d \in Seq(Entry), NEW f, Sole(c, f), Sole(d, f),
         \A j \in 1 .. Len(c) : c[j].key = f => \E k \in 1 .. Len(d) : d[k] = c[j],
         \A k \in 1 .. Len(d) : d[k].key = f => \E j \in 1 .. Len(c) : c[j] = d[k]
  PROVE  Table!ValuesIn(c, f) = Table!ValuesIn(d, f) /\ (Has(c, f) <=> Has(d, f))
<1>1. CASE ~Has(c, f)
  <2>1. ~Has(d, f)
    BY <1>1 DEF Has
  <2> QED
    BY <1>1, <2>1, NoValues DEF Has
<1>2. CASE Has(c, f)
  <2>1. PICK j \in 1 .. Len(c) : c[j].key = f
    BY <1>2 DEF Has
  <2>2. PICK k \in 1 .. Len(d) : d[k] = c[j]
    BY <2>1
  <2>3. Table!ValuesIn(c, f) = <<c[j].value>> /\ Table!ValuesIn(d, f) = <<d[k].value>>
    BY <2>1, <2>2, OneValue
  <2> QED
    BY <1>2, <2>1, <2>2, <2>3 DEF Has
<1> QED
  BY <1>1, <1>2

\* A chain with an entry more at its head.
LEMMA ConsChain ==
  ASSUME NEW c \in Seq(Entry), NEW e \in Entry
  PROVE  /\ <<e>> \o c \in Seq(Entry) /\ Len(<<e>> \o c) = Len(c) + 1
         /\ (<<e>> \o c)[1] = e
         /\ \A j \in 1 .. Len(c) : (<<e>> \o c)[j + 1] = c[j]
         /\ \A j \in 2 .. Len(c) + 1 : (<<e>> \o c)[j] = c[j - 1]
OBVIOUS

\* An entry at the head of a chain is nothing to the other keys.
LEMMA ConsOther ==
  ASSUME NEW c \in Seq(Entry), NEW e \in Entry, NEW f, e.key # f, Sole(c, f)
  PROVE  /\ Table!ValuesIn(<<e>> \o c, f) = Table!ValuesIn(c, f) /\ Sole(<<e>> \o c, f)
         /\ Has(<<e>> \o c, f) <=> Has(c, f)
<1> DEFINE d == <<e>> \o c
<1>1. /\ d \in Seq(Entry) /\ Len(d) = Len(c) + 1 /\ d[1] = e
      /\ \A j \in 1 .. Len(c) : d[j + 1] = c[j]
      /\ \A j \in 2 .. Len(c) + 1 : d[j] = c[j - 1]
  BY ConsChain
<1> HIDE DEF d
<1>2. \A j \in 1 .. Len(d) : d[j].key = f => j - 1 \in 1 .. Len(c) /\ d[j] = c[j - 1]
  BY <1>1
<1>3. Sole(d, f)
  <2>1. SUFFICES ASSUME NEW j \in 1 .. Len(d), NEW k \in 1 .. Len(d),
                        d[j].key = f, d[k].key = f
                 PROVE  j = k
    BY DEF Sole
  <2>2. /\ j - 1 \in 1 .. Len(c) /\ c[j - 1].key = f
        /\ k - 1 \in 1 .. Len(c) /\ c[k - 1].key = f
    BY <1>2, <2>1
  <2>3. j - 1 = k - 1
    BY <2>2 DEF Sole
  <2> QED
    BY <2>3
<1>4. \A j \in 1 .. Len(c) : j + 1 \in 1 .. Len(d)
  BY <1>1
<1> QED
  BY <1>1, <1>2, <1>3, <1>4, SameValues DEF d

\* An entry at the head is found, if its key had none.
LEMMA ConsOwn ==
  ASSUME NEW c \in Seq(Entry), NEW e \in Entry, ~Has(c, e.key)
  PROVE  /\ Table!ValuesIn(<<e>> \o c, e.key) = <<e.value>> /\ Sole(<<e>> \o c, e.key)
         /\ Has(<<e>> \o c, e.key)
<1> DEFINE d == <<e>> \o c
<1>1. /\ d \in Seq(Entry) /\ Len(d) = Len(c) + 1 /\ d[1] = e
      /\ \A j \in 2 .. Len(c) + 1 : d[j] = c[j - 1]
  BY ConsChain
<1> HIDE DEF d
<1>2. \A j \in 1 .. Len(d) : d[j].key = e.key => j = 1
  BY <1>1 DEF Has
<1>3. Sole(d, e.key) /\ 1 \in 1 .. Len(d)
  BY <1>1, <1>2 DEF Sole
<1> QED
  BY <1>1, <1>3, OneValue DEF d, Has

\* Without its entry i a chain is as before to the other keys.
LEMMA WithoutEntry ==
  ASSUME NEW c \in Seq(Entry), NEW i \in 1 .. Len(c), NEW d \in Seq(Entry),
         Len(d) = Len(c) - 1,
         \A j \in 1 .. Len(d) : d[j] = IF j < i THEN c[j] ELSE c[j + 1],
         NEW f, Sole(c, f)
  PROVE  /\ Sole(d, f)
         /\ c[i].key # f => /\ Table!ValuesIn(d, f) = Table!ValuesIn(c, f)
                            /\ Has(d, f) <=> Has(c, f)
         /\ c[i].key = f => Table!ValuesIn(d, f) = <<>> /\ ~Has(d, f)
<1>1. \A j \in 1 .. Len(d) : \/ j < i /\ j \in 1 .. Len(c) /\ d[j] = c[j]
                             \/ j >= i /\ j + 1 \in 1 .. Len(c) /\ d[j] = c[j + 1]
  OBVIOUS
<1>2. Sole(d, f)
  <2> SUFFICES ASSUME NEW j \in 1 .. Len(d), NEW k \in 1 .. Len(d), d[j].key = f, d[k].key = f
               PROVE  j = k
    BY DEF Sole
  <2>1. PICK a \in 1 .. Len(c) : d[j] = c[a] /\ a = (IF j < i THEN j ELSE j + 1)
    BY <1>1
  <2>2. PICK b \in 1 .. Len(c) : d[k] = c[b] /\ b = (IF k < i THEN k ELSE k + 1)
    BY <1>1
  <2>3. a = b
    BY <2>1, <2>2 DEF Sole
  <2> QED
    BY <2>1, <2>2, <2>3
<1>3. ASSUME c[i].key # f
      PROVE  Table!ValuesIn(d, f) = Table!ValuesIn(c, f) /\ (Has(d, f) <=> Has(c, f))
  <2>1. \A j \in 1 .. Len(d) : \E k \in 1 .. Len(c) : c[k] = d[j]
    BY <1>1
  <2>2. ASSUME NEW k \in 1 .. Len(c), c[k].key = f PROVE \E j \in 1 .. Len(d) : d[j] = c[k]
    <3>1. CASE k < i
      BY <1>1, <3>1
    <3>2. CASE k > i
      <4>1. k - 1 \in 1 .. Len(d) /\ k - 1 >= i /\ (k - 1) + 1 = k
        BY <3>2
      <4>2. d[k - 1] = c[(k - 1) + 1]
        BY <4>1
      <4> QED
        BY <4>1, <4>2
    <3> QED
      BY <1>3, <2>2, <3>1, <3>2
  <2> QED
    BY <1>2, <2>1, <2>2, SameValues
<1>4. ASSUME c[i].key = f PROVE Table!ValuesIn(d, f) = <<>> /\ ~Has(d, f)
  <2>1. \A j \in 1 .. Len(d) : d[j].key # f
    BY <1>1, <1>4 DEF Sole
  <2> QED
    BY <2>1, NoValues DEF Has
<1> QED
  BY <1>2, <1>3, <1>4

\* A key that has an entry is found in it.
LEMMA FindOne ==
  ASSUME NEW hash, NEW f, Table!Chain(hash, f) \in Seq(Entry),
         NEW j \in 1 .. Len(Table!Chain(hash, f)),
         Table!Chain(hash, f)[j].key = f, Sole(Table!Chain(hash, f), f)
  PROVE  Table!Find(hash, f) = j
BY DEF Sole, Table!Find, Table!SelectInSeq, Table!Min

\* A key without an entry is not found.
LEMMA FindNone ==
  ASSUME NEW hash, NEW f, Table!Chain(hash, f) \in Seq(Entry),
         \A j \in 1 .. Len(Table!Chain(hash, f)) : Table!Chain(hash, f)[j].key # f
  PROVE  ~Table!Found(hash, f)
BY DEF Table!Found, Table!Find, Table!SelectInSeq

\* A table is a record of four fields.
LEMMA TableIsRecord ==
  ASSUME NEW hash, TableOK(hash)
  PROVE  hash = [hash_table |-> hash.hash_table, hash_table_size |-> hash.hash_table_size,
                 num_elements |-> hash.num_elements, old |-> hash.old]
<1> DEFINE A == Chains(hash.hash_table_size)
           B == {<<>>} \union Chains(hash.hash_table_size \div 2)
<1>1. hash \in [hash_table : A, hash_table_size : Nat \ {0}, num_elements : Int, old : B]
  BY DEF TableOK
<1> HIDE DEF A, B
<1> QED
  BY <1>1

\* What TableOK says of the fields.
LEMMA TableFields ==
  ASSUME NEW hash, TableOK(hash)
  PROVE  /\ hash.hash_table_size \in Nat \ {0}
         /\ hash.hash_table \in Chains(hash.hash_table_size)
         /\ hash.num_elements \in Int
         /\ hash.old = <<>> \/ hash.old \in Chains(hash.hash_table_size \div 2)
         /\ \A f \in Fd : /\ Table!Index(hash, f) \in 0 .. hash.hash_table_size - 1
                          /\ Table!Chain(hash, f) = hash.hash_table[Table!Index(hash, f)]
                          /\ Table!Chain(hash, f) \in Seq(Entry)
                          /\ Sole(Table!Chain(hash, f), f)
                          /\ OldChain(hash, hash.hash_table_size \div 2, f) \in Seq(Entry)
                          /\ Sole(OldChain(hash, hash.hash_table_size \div 2, f), f)
<1>1. /\ hash.hash_table_size \in Nat \ {0}
      /\ hash.hash_table \in Chains(hash.hash_table_size)
      /\ hash.num_elements \in Int
      /\ hash.old = <<>> \/ hash.old \in Chains(hash.hash_table_size \div 2)
  BY DEF TableOK
<1>2. ASSUME NEW f \in Fd
      PROVE  /\ Table!Index(hash, f) \in 0 .. hash.hash_table_size - 1
             /\ Table!Chain(hash, f) = hash.hash_table[Table!Index(hash, f)]
             /\ Table!Chain(hash, f) \in Seq(Entry)
             /\ Sole(Table!Chain(hash, f), f)
  BY <1>1, HashInRange DEF Table!Index, Table!Chain, TableOK, Placed, Chains
<1>3. ASSUME NEW f \in Fd
      PROVE  /\ OldChain(hash, hash.hash_table_size \div 2, f) \in Seq(Entry)
             /\ Sole(OldChain(hash, hash.hash_table_size \div 2, f), f)
  <2>1. CASE hash.old = <<>>
    BY <2>1 DEF OldChain, Sole
  <2>2. CASE hash.old # <<>>
    <3> DEFINE half == hash.hash_table_size \div 2
    <3>1. half \in Nat \ {0} /\ Placed(hash.old, half) /\ hash.old \in Chains(half)
      BY <2>2 DEF TableOK
    <3> HIDE DEF half
    <3>2. hash_fd(f, half) \in 0 .. half - 1
      BY <3>1, HashInRange
    <3> QED
      BY <2>2, <3>1, <3>2 DEF OldChain, Placed, Chains, half
  <2> QED
    BY <2>1, <2>2
<1> QED
  BY <1>1, <1>2, <1>3

\* An empty chain has no values.
LEMMA EmptyValues == \A f : Table!ValuesIn(<<>>, f) = <<>>
<1> TAKE f
<1>1. <<>> \in Seq(Entry) /\ \A j \in 1 .. Len(<<>>) : <<>>[j].key # f
  OBVIOUS
<1> QED
  BY <1>1, NoValues

\* Values are numbers.
LEMMA ValuesType ==
  ASSUME NEW c \in Seq(Entry), NEW f, Sole(c, f)
  PROVE  Table!ValuesIn(c, f) \in Seq(Nat)
<1>1. CASE Has(c, f)
  <2>1. PICK j \in 1 .. Len(c) : c[j].key = f
    BY <1>1 DEF Has
  <2>2. c[j] \in Entry
    OBVIOUS
  <2>3. c[j].value \in Nat
    BY <2>2 DEF Entry
  <2>4. Table!ValuesIn(c, f) = <<c[j].value>>
    BY <2>1, OneValue
  <2> QED
    BY <2>3, <2>4
<1>2. CASE ~Has(c, f)
  <2>1. Table!ValuesIn(c, f) = <<>>
    BY <1>2, NoValues DEF Has
  <2> QED
    BY <2>1
<1> QED
  BY <1>1, <1>2

\* The values in the new array come before those in the old one.
LEMMA ValuesOfIs ==
  ASSUME NEW hash, NEW f
  PROVE  Table!ValuesOf(hash, f) =
           Table!ValuesIn(Table!Chain(hash, f), f) \o
           Table!ValuesIn(OldChain(hash, hash.hash_table_size \div 2, f), f)
BY EmptyValues DEF Table!ValuesOf, OldChain

\* A lookup finds what is filed, when rechain is not under way.
LEMMA LookUp ==
  ASSUME NEW hash, TableOK(hash), hash.old = <<>>, NEW f \in Fd
  PROVE  /\ Table!Found(hash, f) <=> Has(Table!Chain(hash, f), f)
         /\ ~Table!Found(hash, f) => Table!ValuesOf(hash, f) = <<>>
         /\ Table!Found(hash, f) =>
              /\ Table!Find(hash, f) \in 1 .. Len(Table!Chain(hash, f))
              /\ Table!Chain(hash, f)[Table!Find(hash, f)].key = f
              /\ Table!ValuesOf(hash, f) = <<Table!ht_get(hash, f)>>
              /\ Table!ht_get(hash, f) \in Nat
<1> DEFINE c == Table!Chain(hash, f)
<1>1. c \in Seq(Entry) /\ Sole(c, f)
  BY TableFields
<1>2. Table!ValuesOf(hash, f) = Table!ValuesIn(c, f) \o <<>>
  BY ValuesOfIs, EmptyValues DEF OldChain
<1>3. CASE ~Has(c, f)
  BY <1>1, <1>2, <1>3, FindNone, NoValues DEF Has
<1>4. CASE Has(c, f)
  <2>1. PICK j \in 1 .. Len(c) : c[j].key = f
    BY <1>4 DEF Has
  <2>2. Table!Find(hash, f) = j /\ j # 0
    BY <1>1, <2>1, FindOne
  <2> HIDE DEF c
  <2>3. Table!ValuesIn(c, f) = <<c[j].value>>
    BY <1>1, <2>1, OneValue
  <2>4. c[j] \in Entry
    BY <1>1
  <2>5. c[j].value \in Nat
    BY <2>4 DEF Entry
  <2> QED
    BY <1>2, <1>4, <2>1, <2>2, <2>3, <2>5 DEF c, Table!Found, Table!ht_get
<1> QED
  BY <1>3, <1>4

\* ht_create returns a table without entries.
LEMMA CreateTable ==
  ASSUME NEW size \in Nat \ {0}
  PROVE  /\ TableOK(Table!ht_create(size)) /\ Table!ht_create(size).old = <<>>
         /\ \A f \in Fd : Table!ValuesOf(Table!ht_create(size), f) = <<>>
<1> DEFINE hash == Table!ht_create(size)
<1>1. /\ hash = [hash_table |-> [i \in 0 .. size - 1 |-> <<>>], hash_table_size |-> size,
                 num_elements |-> 0, old |-> <<>>]
  BY DEF Table!ht_create
<1> HIDE DEF hash
<1>2. \A f \in Fd : Table!Chain(hash, f) = <<>>
  BY <1>1, HashInRange DEF Table!Chain, Table!Index
<1>3. \A f \in Fd : ~Has(<<>>, f) /\ Sole(<<>>, f)
  BY DEF Has, Sole
<1>4. [i \in 0 .. size - 1 |-> <<>>] \in Chains(size)
  BY DEF Chains
<1>5. Placed(hash.hash_table, size)
  BY <1>1, <1>3 DEF Placed
<1>6. TableOK(hash)
  BY <1>1, <1>2, <1>3, <1>4, <1>5 DEF TableOK
<1>7. \A f \in Fd : Table!ValuesOf(hash, f) = <<>> \o <<>>
  BY <1>1, <1>2, ValuesOfIs, EmptyValues DEF OldChain
<1> QED
  BY <1>1, <1>6, <1>7 DEF hash

\* A doubled array holds nothing yet; everything is still in the old one.
LEMMA DoubleTable ==
  ASSUME NEW hash, TableOK(hash), hash.old = <<>>
  PROVE  /\ TableOK(Table!Double(hash)) /\ Table!Double(hash).old # <<>>
         /\ \A f \in Fd : Table!ValuesOf(Table!Double(hash), f) = Table!ValuesOf(hash, f)
<1> DEFINE size == hash.hash_table_size
           u == Table!Double(hash)
<1>1. size \in Nat \ {0} /\ hash.hash_table \in Chains(size) /\ hash.num_elements \in Int
  BY TableFields
<1>2. /\ u.hash_table = [i \in 0 .. 2 * size - 1 |-> <<>>] /\ u.hash_table_size = 2 * size
      /\ u.num_elements = hash.num_elements /\ u.old = hash.hash_table
      /\ u = [hash_table |-> u.hash_table, hash_table_size |-> u.hash_table_size,
              num_elements |-> u.num_elements, old |-> u.old]
  <2>1. PICK a, b, c, d :
          hash = [hash_table |-> a, hash_table_size |-> b, num_elements |-> c, old |-> d]
    BY TableIsRecord
  <2> DEFINE empty == [i \in 0 .. 2 * b - 1 |-> <<>>]
             twice == 2 * b
  <2>2. u = [hash EXCEPT !.hash_table_size = twice, !.hash_table = empty, !.old = a]
    BY <2>1 DEF Table!Double
  <2> HIDE DEF u, empty, twice
  <2>3. u = [hash_table |-> empty, hash_table_size |-> twice, num_elements |-> c, old |-> a]
    BY <2>1, <2>2
  <2> QED
    BY <2>1, <2>3 DEF empty, twice
<1> HIDE DEF u
<1>3. (2 * size) \div 2 = size /\ 2 * size \in Nat \ {0}
  BY <1>1
<1>4. u.old # <<>>
  <2>1. 0 \in 0 .. size - 1
    BY <1>1
  <2> QED
    BY <1>2, <1>1, <2>1 DEF Chains
<1>5. \A f \in Fd : Table!Chain(u, f) = <<>>
  BY <1>2, <1>3, HashInRange DEF Table!Chain, Table!Index
<1>6. \A f \in Fd : OldChain(u, size, f) = Table!Chain(hash, f)
  BY <1>2, <1>4 DEF OldChain, Table!Chain, Table!Index
<1>7. \A f : ~Has(<<>>, f) /\ Sole(<<>>, f)
  BY DEF Has, Sole
<1>8. u.hash_table \in Chains(2 * size)
  BY <1>2 DEF Chains
<1>9. Placed(u.hash_table, 2 * size)
  BY <1>2, <1>7 DEF Placed
<1>10. Placed(u.old, size)
  BY <1>2 DEF TableOK
<1>11. TableOK(u)
  BY <1>1, <1>2, <1>3, <1>5, <1>7, <1>8, <1>9, <1>10 DEF TableOK
<1>12. ASSUME NEW f \in Fd PROVE Table!ValuesOf(u, f) = Table!ValuesOf(hash, f)
  <2>1. Table!ValuesOf(u, f) = <<>> \o Table!ValuesIn(Table!Chain(hash, f), f)
    BY <1>2, <1>3, <1>5, <1>6, ValuesOfIs, EmptyValues
  <2>2. Table!ValuesOf(hash, f) = Table!ValuesIn(Table!Chain(hash, f), f) \o <<>>
    BY ValuesOfIs, EmptyValues DEF OldChain
  <2>3. Table!ValuesIn(Table!Chain(hash, f), f) \in Seq(Nat)
    BY ValuesType, TableFields
  <2> QED
    BY <2>1, <2>2, <2>3
<1> QED
  BY <1>4, <1>11, <1>12 DEF u

\* An entry is put at the head of the chain of its key.
LEMMA PutInChain ==
  ASSUME NEW size \in Nat \ {0}, NEW chains \in Chains(size), Placed(chains, size),
         NEW e \in Entry, ~Has(chains[hash_fd(e.key, size)], e.key)
  PROVE  /\ [chains EXCEPT ![hash_fd(e.key, size)] = <<e>> \o @] \in Chains(size)
         /\ Placed([chains EXCEPT ![hash_fd(e.key, size)] = <<e>> \o @], size)
<1> DEFINE u == [chains EXCEPT ![hash_fd(e.key, size)] = <<e>> \o @]
           i == hash_fd(e.key, size)
           c == chains[i]
           d == <<e>> \o c
<1>1. e.key \in Fd /\ i \in 0 .. size - 1 /\ c \in Seq(Entry)
  BY HashInRange DEF Entry, Chains
<1>2. /\ d \in Seq(Entry) /\ Len(d) = Len(c) + 1 /\ d[1] = e
      /\ \A j \in 2 .. Len(c) + 1 : d[j] = c[j - 1]
  BY <1>1, ConsChain
<1>3. \A j \in 1 .. Len(c) : hash_fd(c[j].key, size) = i
  BY <1>1 DEF Placed
<1>4. \A f \in Fd : Sole(c, f)
  BY <1>1 DEF Placed
<1>5. \A f \in Fd : Sole(d, f)
  BY <1>1, <1>4, ConsOther, ConsOwn
<1> HIDE DEF d
<1>6. \A j \in 1 .. Len(d) : hash_fd(d[j].key, size) = i
  <2> TAKE j \in 1 .. Len(d)
  <2>1. CASE j = 1
    BY <1>2, <2>1
  <2>2. CASE j # 1
    <3>1. j \in 2 .. Len(c) + 1 /\ j - 1 \in 1 .. Len(c)
      BY <1>1, <1>2, <2>2
    <3>2. d[j] = c[j - 1]
      BY <1>2, <3>1
    <3> QED
      BY <1>3, <3>1, <3>2
  <2> QED
    BY <2>1, <2>2
<1>7. u = [chains EXCEPT ![i] = d]
  BY DEF d
<1> HIDE DEF i, c, u
<1>8. u \in Chains(size) /\ u[i] = d /\ \A k \in 0 .. size - 1 : k # i => u[k] = chains[k]
  BY <1>1, <1>2, <1>7 DEF Chains
<1>9. Placed(u, size)
  BY <1>1, <1>5, <1>6, <1>8 DEF Placed
<1> QED
  BY <1>8, <1>9 DEF u

\* A chain loses entries.
LEMMA TakeFromChain ==
  ASSUME NEW size \in Nat \ {0}, NEW chains \in Chains(size), Placed(chains, size),
         NEW i \in 0 .. size - 1, NEW d \in Seq(Entry), \A f \in Fd : Sole(d, f),
         \A j \in 1 .. Len(d) : \E k \in 1 .. Len(chains[i]) : d[j] = chains[i][k]
  PROVE  [chains EXCEPT ![i] = d] \in Chains(size) /\ Placed([chains EXCEPT ![i] = d], size)
<1> DEFINE u == [chains EXCEPT ![i] = d]
<1>1. u \in Chains(size) /\ u[i] = d /\ \A k \in 0 .. size - 1 : k # i => u[k] = chains[k]
  BY DEF Chains
<1>2. \A j \in 1 .. Len(d) : hash_fd(d[j].key, size) = i
  BY DEF Placed
<1> HIDE DEF u
<1>3. Placed(u, size)
  BY <1>1, <1>2 DEF Placed
<1> QED
  BY <1>1, <1>3 DEF u

\* A set of naturals has a least element.
LEMMA LeastOf ==
  ASSUME NEW T \in SUBSET Nat, T # {}
  PROVE  \E x \in T : \A y \in T : x <= y
<1>1. PICK x \in T : \A y \in T : ~(<<y, x>> \in OpToRel(<, Nat))
  BY NatLessThanWellFounded, WFMin
<1>2. ASSUME NEW y \in T PROVE x <= y
  <2>1. x \in Nat /\ y \in Nat
    OBVIOUS
  <2>2. <<y, x>> \in OpToRel(<, Nat) <=> y < x
    BY <2>1 DEF OpToRel
  <2>3. ~(y < x)
    BY <1>1, <2>2
  <2> QED
    BY <2>1, <2>3
<1> QED
  BY <1>2

\* A round of rechain leaves what is filed as it was.
LEMMA RechainTable ==
  ASSUME NEW hash, TableOK(hash), hash.old # <<>>, Table!Unmoved(hash) # {}
  PROVE  /\ TableOK(Table!rechain(hash)) /\ Table!rechain(hash).old # <<>>
         /\ \A f \in Fd : Table!ValuesOf(Table!rechain(hash), f) = Table!ValuesOf(hash, f)
<1> DEFINE size == hash.hash_table_size
           half == size \div 2
           i == Table!Min(Table!Unmoved(hash))
           e == Head(hash.old[i])
           index == hash_fd(e.key, size)
           u == Table!rechain(hash)
<1>1. /\ size \in Nat \ {0} /\ half \in Nat \ {0}
      /\ hash.hash_table \in Chains(size) /\ Placed(hash.hash_table, size)
      /\ hash.old \in Chains(half) /\ Placed(hash.old, half)
      /\ hash.num_elements \in Int
  BY TableFields DEF TableOK
<1>2. i \in 0 .. half - 1 /\ hash.old[i] # <<>>
  <2>1. Table!Unmoved(hash) \subseteq 0 .. half - 1
    BY <1>1 DEF Table!Unmoved, Chains
  <2>2. \E x \in Table!Unmoved(hash) : \A y \in Table!Unmoved(hash) : x <= y
    <3>1. Table!Unmoved(hash) \in SUBSET Nat
      BY <1>1, <2>1
    <3> QED
      BY <3>1, LeastOf
  <2>3. i \in Table!Unmoved(hash)
    BY <2>2 DEF Table!Min
  <2> QED
    BY <1>1, <2>1, <2>3 DEF Table!Unmoved
<1> HIDE DEF i
<1> DEFINE old == hash.old[i]
           rest == Tail(old)
<1>3. old \in Seq(Entry) /\ old # <<>>
  BY <1>1, <1>2 DEF Chains
<1>4. /\ e \in Entry /\ rest \in Seq(Entry) /\ Len(rest) = Len(old) - 1 /\ old[1] = e
      /\ 1 \in 1 .. Len(old) /\ \A j \in 1 .. Len(rest) : rest[j] = old[j + 1]
  BY <1>3
<1>5. e.key \in Fd /\ index \in 0 .. size - 1
  BY <1>1, <1>4, HashInRange DEF Entry
<1>6. hash_fd(e.key, half) = i
  BY <1>1, <1>2, <1>4 DEF Placed
<1>7. \A f \in Fd : Sole(old, f)
  BY <1>1, <1>2 DEF Placed
<1>8. /\ u.hash_table = [hash.hash_table EXCEPT ![index] = <<e>> \o @]
      /\ u.hash_table_size = size /\ u.num_elements = hash.num_elements
      /\ u.old = [hash.old EXCEPT ![i] = rest]
      /\ u = [hash_table |-> u.hash_table, hash_table_size |-> u.hash_table_size,
              num_elements |-> u.num_elements, old |-> u.old]
  <2>1. PICK a, b, c, d :
          hash = [hash_table |-> a, hash_table_size |-> b, num_elements |-> c, old |-> d]
    BY TableIsRecord
  <2>2. u = [hash EXCEPT !.old[i] = Tail(@), !.hash_table[index] = <<e>> \o @]
    BY DEF Table!rechain, Table!Move, i
  <2> HIDE DEF u, index, e
  <2>3. u = [hash_table |-> [a EXCEPT ![index] = <<e>> \o @], hash_table_size |-> b,
             num_elements |-> c, old |-> [d EXCEPT ![i] = Tail(@)]]
    BY <2>1, <2>2
  <2>4. Tail(d[i]) = rest
    BY <2>1
  <2>5. [d EXCEPT ![i] = Tail(@)] = [d EXCEPT ![i] = rest]
    BY <2>4
  <2> QED
    BY <2>1, <2>3, <2>5
<1> HIDE DEF u, e, rest, index, half
<1>9. /\ \A f \in Fd : /\ Table!Chain(hash, f) = hash.hash_table[hash_fd(f, size)]
                       /\ Table!Chain(hash, f) \in Seq(Entry) /\ Sole(Table!Chain(hash, f), f)
                       /\ OldChain(hash, half, f) = hash.old[hash_fd(f, half)]
  BY TableFields DEF Table!Chain, Table!Index, OldChain
<1>10. Has(old, e.key) /\ OldChain(hash, half, e.key) = old
  BY <1>4, <1>5, <1>6, <1>9 DEF Has
<1>11. ~Has(Table!Chain(hash, e.key), e.key)
  BY <1>5, <1>10 DEF TableOK, half
<1>12. ~Has(hash.hash_table[hash_fd(e.key, size)], e.key)
  BY <1>5, <1>9, <1>11
<1>13. u.hash_table \in Chains(size) /\ Placed(u.hash_table, size)
  <2> DEFINE chains == hash.hash_table
             added == [chains EXCEPT ![hash_fd(e.key, size)] = <<e>> \o @]
  <2>1. u.hash_table = added
    BY <1>8 DEF index
  <2>2. chains \in Chains(size) /\ ~Has(chains[hash_fd(e.key, size)], e.key)
    BY <1>1, <1>12
  <2>3. Placed(chains, size) /\ size \in Nat \ {0}
    BY <1>1
  <2> HIDE DEF size, chains
  <2>4. added \in Chains(size) /\ Placed(added, size)
    BY <1>4, <2>2, <2>3, PutInChain
  <2> HIDE DEF added
  <2> QED
    BY <2>1, <2>4
<1>14. ASSUME NEW f \in Fd
       PROVE  /\ Sole(rest, f)
              /\ e.key # f => /\ Table!ValuesIn(rest, f) = Table!ValuesIn(old, f)
                              /\ Has(rest, f) <=> Has(old, f)
              /\ e.key = f => Table!ValuesIn(rest, f) = <<>> /\ ~Has(rest, f)
  <2>1. \A j \in 1 .. Len(rest) : rest[j] = IF j < 1 THEN old[j] ELSE old[j + 1]
    BY <1>4
  <2> HIDE DEF old
  <2> QED
    BY <1>3, <1>4, <1>7, <2>1, WithoutEntry
<1>15. u.old \in Chains(half) /\ Placed(u.old, half)
  <2>1. \A j \in 1 .. Len(rest) : \E k \in 1 .. Len(hash.old[i]) : rest[j] = hash.old[i][k]
    <3> TAKE j \in 1 .. Len(rest)
    <3> HIDE DEF rest
    <3>1. Len(old) \in Nat /\ Len(rest) = Len(old) - 1
      BY <1>3, <1>4
    <3>2. j + 1 \in 1 .. Len(old)
      BY <3>1
    <3>3. rest[j] = old[j + 1]
      BY <1>4
    <3> WITNESS j + 1 \in 1 .. Len(hash.old[i])
    <3> QED
      BY <3>3
  <2>2. \A f \in Fd : Sole(rest, f)
    BY <1>14
  <2>3. u.old = [hash.old EXCEPT ![i] = rest] /\ rest \in Seq(Entry)
    BY <1>4, <1>8
  <2> DEFINE chains == hash.old
  <2>4. \A j \in 1 .. Len(rest) : \E k \in 1 .. Len(chains[i]) : rest[j] = chains[i][k]
    BY <2>1
  <2>5. chains \in Chains(half) /\ Placed(chains, half) /\ half \in Nat \ {0}
    BY <1>1
  <2>6. u.old = [chains EXCEPT ![i] = rest]
    BY <2>3
  <2> HIDE DEF rest, old, chains
  <2>7. /\ [chains EXCEPT ![i] = rest] \in Chains(half)
        /\ Placed([chains EXCEPT ![i] = rest], half)
    BY <1>2, <2>2, <2>3, <2>4, <2>5, TakeFromChain
  <2> QED
    BY <2>6, <2>7
<1>16. u.old # <<>>
  BY <1>1, <1>15, NotEmptyArray
<1>17. ASSUME NEW f \in Fd
       PROVE  /\ ~(Has(Table!Chain(u, f), f) /\ Has(OldChain(u, half, f), f))
              /\ Table!ValuesOf(u, f) = Table!ValuesOf(hash, f)
  <2>1. /\ Table!Chain(u, f) = u.hash_table[hash_fd(f, size)]
        /\ OldChain(u, half, f) = u.old[hash_fd(f, half)]
    BY <1>8, <1>16 DEF Table!Chain, Table!Index, OldChain
  <2>2. /\ Table!ValuesOf(u, f) = Table!ValuesIn(Table!Chain(u, f), f) \o
                                  Table!ValuesIn(OldChain(u, half, f), f)
        /\ Table!ValuesOf(hash, f) = Table!ValuesIn(Table!Chain(hash, f), f) \o
                                     Table!ValuesIn(OldChain(hash, half, f), f)
    BY <1>8, ValuesOfIs DEF half
  <2>3. hash_fd(f, size) \in 0 .. size - 1 /\ hash_fd(f, half) \in 0 .. half - 1
    BY <1>1, HashInRange
  <2>4. /\ Table!Chain(u, f) = IF hash_fd(f, size) = index THEN <<e>> \o Table!Chain(hash, f)
                               ELSE Table!Chain(hash, f)
        /\ OldChain(u, half, f) = IF hash_fd(f, half) = i THEN rest ELSE OldChain(hash, half, f)
    <3>1. u.hash_table[hash_fd(f, size)] =
            IF hash_fd(f, size) = index THEN <<e>> \o hash.hash_table[hash_fd(f, size)]
            ELSE hash.hash_table[hash_fd(f, size)]
      BY <1>1, <1>5, <1>8, <2>3 DEF Chains
    <3>2. u.old[hash_fd(f, half)] =
            IF hash_fd(f, half) = i THEN rest ELSE hash.old[hash_fd(f, half)]
      BY <1>1, <1>2, <1>8, <2>3 DEF Chains
    <3> QED
      BY <1>9, <2>1, <3>1, <3>2
  <2>5. CASE f = e.key
    <3>1. Table!Chain(u, f) = <<e>> \o Table!Chain(hash, f) /\ OldChain(u, half, f) = rest
      BY <1>6, <2>4, <2>5 DEF index
    <3>2. Table!ValuesIn(Table!Chain(u, f), f) = <<e.value>>
      BY <1>4, <1>9, <1>11, <2>5, <3>1, ConsOwn
    <3>3. Table!ValuesIn(rest, f) = <<>> /\ ~Has(rest, f)
      BY <1>14, <2>5
    <3>4. Table!ValuesIn(Table!Chain(hash, f), f) = <<>>
      BY <1>9, <1>11, <2>5, NoValues DEF Has
    <3> HIDE DEF old
    <3>5. Table!ValuesIn(OldChain(hash, half, f), f) = <<e.value>>
      BY <1>3, <1>4, <1>7, <1>10, <2>5, OneValue
    <3> QED
      BY <2>2, <3>1, <3>2, <3>3, <3>4, <3>5
  <2>6. CASE f # e.key
    <3>1. /\ Table!ValuesIn(Table!Chain(u, f), f) = Table!ValuesIn(Table!Chain(hash, f), f)
          /\ Has(Table!Chain(u, f), f) <=> Has(Table!Chain(hash, f), f)
      BY <1>4, <1>9, <2>4, <2>6, ConsOther
    <3>2. hash_fd(f, half) = i => OldChain(hash, half, f) = old
      BY <1>9
    <3> HIDE DEF old
    <3>3. /\ Table!ValuesIn(OldChain(u, half, f), f) = Table!ValuesIn(OldChain(hash, half, f), f)
          /\ Has(OldChain(u, half, f), f) <=> Has(OldChain(hash, half, f), f)
      BY <1>14, <2>4, <2>6, <3>2
    <3>4. ~(Has(Table!Chain(hash, f), f) /\ Has(OldChain(hash, half, f), f))
      BY DEF TableOK, half
    <3> QED
      BY <2>2, <3>1, <3>3, <3>4
  <2> QED
    BY <2>5, <2>6
<1>18. TableOK(u)
  <2>1. u.hash_table_size \div 2 = half
    BY <1>8 DEF half
  <2>2. u \in [hash_table : Chains(size), hash_table_size : Nat \ {0},
               num_elements : Int, old : {<<>>} \union Chains(half)]
    BY <1>1, <1>8, <1>13, <1>15
  <2> QED
    BY <1>1, <1>8, <1>13, <1>15, <1>17, <2>1, <2>2 DEF TableOK
<1> QED
  BY <1>16, <1>17, <1>18 DEF u

\* A key has an entry where it has a value.
LEMMA HasValues ==
  ASSUME NEW c \in Seq(Entry), NEW f, Sole(c, f)
  PROVE  Has(c, f) <=> Table!ValuesIn(c, f) # <<>>
<1>1. CASE Has(c, f)
  <2>1. PICK j \in 1 .. Len(c) : c[j].key = f
    BY <1>1 DEF Has
  <2>2. Table!ValuesIn(c, f) = <<c[j].value>>
    BY <2>1, OneValue
  <2> QED
    BY <1>1, <2>2
<1>2. CASE ~Has(c, f)
  BY <1>2, NoValues DEF Has
<1> QED
  BY <1>1, <1>2

\* Before and after rechain everything is in the new array.
LEMMA AllMoved ==
  ASSUME NEW hash, TableOK(hash), hash.old = <<>> \/ Table!Unmoved(hash) = {}, NEW f \in Fd
  PROVE  /\ OldChain(hash, hash.hash_table_size \div 2, f) = <<>>
         /\ Table!ValuesOf(hash, f) = Table!ValuesIn(Table!Chain(hash, f), f)
<1> DEFINE half == hash.hash_table_size \div 2
<1>1. ASSUME hash.old = <<>> PROVE OldChain(hash, half, f) = <<>>
  BY <1>1 DEF OldChain
<1>2. ASSUME hash.old # <<>> PROVE OldChain(hash, half, f) = <<>>
  <2>1. half \in Nat \ {0} /\ hash.old \in Chains(half)
    BY <1>2 DEF TableOK
  <2> HIDE DEF half
  <2>2. hash_fd(f, half) \in DOMAIN hash.old
    BY <2>1, HashInRange DEF Chains
  <2>3. hash.old[hash_fd(f, half)] = <<>>
    BY <1>2, <2>2 DEF Table!Unmoved
  <2> QED
    BY <1>2, <2>3 DEF OldChain, half
<1>3. OldChain(hash, half, f) = <<>>
  BY <1>1, <1>2
<1>4. Table!Chain(hash, f) \in Seq(Entry) /\ Sole(Table!Chain(hash, f), f)
  BY TableFields
<1>5. Table!ValuesIn(Table!Chain(hash, f), f) \in Seq(Nat)
  BY <1>4, ValuesType
<1>6. Table!ValuesOf(hash, f) = Table!ValuesIn(Table!Chain(hash, f), f) \o <<>>
  BY <1>3, ValuesOfIs, EmptyValues
<1> QED
  BY <1>3, <1>5, <1>6

\* A new key is filed, and nothing else changes.
LEMMA InsertTable ==
  ASSUME NEW hash, TableOK(hash), hash.old = <<>> \/ Table!Unmoved(hash) = {},
         NEW g \in Fd, NEW x \in Nat, Table!ValuesOf(hash, g) = <<>>
  PROVE  /\ TableOK(Table!ht_insert(hash, g, x)) /\ Table!ht_insert(hash, g, x).old = <<>>
         /\ Table!ValuesOf(Table!ht_insert(hash, g, x), g) = <<x>>
         /\ \A f \in Fd : f # g =>
              Table!ValuesOf(Table!ht_insert(hash, g, x), f) = Table!ValuesOf(hash, f)
<1> DEFINE size == hash.hash_table_size
           e == [key |-> g, value |-> x]
           index == hash_fd(g, size)
           u == Table!ht_insert(hash, g, x)
<1>1. /\ size \in Nat \ {0} /\ hash.hash_table \in Chains(size)
      /\ Placed(hash.hash_table, size) /\ hash.num_elements \in Int
  BY TableFields DEF TableOK
<1>2. e \in Entry /\ e.key = g /\ e.value = x /\ index \in 0 .. size - 1
  BY <1>1, HashInRange DEF Entry
<1>3. /\ u.hash_table = [hash.hash_table EXCEPT ![index] = <<e>> \o @]
      /\ u.hash_table_size = size /\ u.num_elements = hash.num_elements + 1 /\ u.old = <<>>
      /\ u = [hash_table |-> u.hash_table, hash_table_size |-> u.hash_table_size,
              num_elements |-> u.num_elements, old |-> u.old]
  <2>1. PICK a, b, c, d :
          hash = [hash_table |-> a, hash_table_size |-> b, num_elements |-> c, old |-> d]
    BY TableIsRecord
  <2>2. u = [hash EXCEPT !.hash_table[index] = <<e>> \o @, !.num_elements = @ + 1, !.old = <<>>]
    BY DEF Table!ht_insert, Table!Index
  <2> HIDE DEF u, index, e
  <2>3. u = [hash_table |-> [a EXCEPT ![index] = <<e>> \o @], hash_table_size |-> b,
             num_elements |-> c + 1, old |-> <<>>]
    BY <2>1, <2>2
  <2> QED
    BY <2>1, <2>3
<1> HIDE DEF u, e, index
<1>4. \A f \in Fd : /\ Table!Chain(hash, f) = hash.hash_table[hash_fd(f, size)]
                    /\ Table!Chain(hash, f) \in Seq(Entry) /\ Sole(Table!Chain(hash, f), f)
                    /\ Table!ValuesOf(hash, f) = Table!ValuesIn(Table!Chain(hash, f), f)
  BY TableFields, AllMoved DEF Table!Chain, Table!Index
<1>5. ~Has(Table!Chain(hash, g), g)
  BY <1>4, HasValues
<1>6. u.hash_table \in Chains(size) /\ Placed(u.hash_table, size)
  <2>1. ~Has(hash.hash_table[hash_fd(e.key, size)], e.key)
    BY <1>2, <1>4, <1>5
  <2> DEFINE chains == hash.hash_table
             added == [chains EXCEPT ![hash_fd(e.key, size)] = <<e>> \o @]
  <2>2. hash_fd(e.key, size) = index
    BY <1>2 DEF index
  <2>3. u.hash_table = added
    BY <1>3, <2>2
  <2>4. Placed(chains, size) /\ size \in Nat \ {0} /\ chains \in Chains(size)
    BY <1>1
  <2>5. ~Has(chains[hash_fd(e.key, size)], e.key)
    BY <2>1
  <2> HIDE DEF size, chains
  <2>6. added \in Chains(size) /\ Placed(added, size)
    BY <1>2, <2>4, <2>5, PutInChain
  <2> HIDE DEF added
  <2> QED
    BY <2>3, <2>6
<1>7. TableOK(u)
  <2>1. u \in [hash_table : Chains(size), hash_table_size : Nat \ {0},
               num_elements : Int, old : {<<>>} \union Chains(size \div 2)]
    <3>1. /\ u.hash_table \in Chains(size) /\ u.hash_table_size \in Nat \ {0}
          /\ u.num_elements \in Int /\ u.old = <<>>
      BY <1>1, <1>3, <1>6
    <3>2. u = [hash_table |-> u.hash_table, hash_table_size |-> u.hash_table_size,
               num_elements |-> u.num_elements, old |-> u.old]
      BY <1>3
    <3> HIDE DEF size
    <3> QED
      BY <3>1, <3>2
  <2>2. \A f \in Fd : ~Has(OldChain(u, u.hash_table_size \div 2, f), f)
    BY <1>3 DEF OldChain, Has
  <2> QED
    BY <1>3, <1>6, <2>1, <2>2 DEF TableOK
<1>8. \A f \in Fd : Table!ValuesOf(u, f) = Table!ValuesIn(Table!Chain(u, f), f)
  BY <1>3, <1>7, AllMoved
<1>9. \A f \in Fd : Table!Chain(u, f) = IF hash_fd(f, size) = index THEN <<e>> \o Table!Chain(hash, f)
                                        ELSE Table!Chain(hash, f)
  <2> TAKE f \in Fd
  <2>1. hash_fd(f, size) \in 0 .. size - 1
    BY <1>1, HashInRange
  <2>2. u.hash_table[hash_fd(f, size)] =
          IF hash_fd(f, size) = index THEN <<e>> \o hash.hash_table[hash_fd(f, size)]
          ELSE hash.hash_table[hash_fd(f, size)]
    BY <1>1, <1>2, <1>3, <2>1 DEF Chains
  <2>3. Table!Chain(u, f) = u.hash_table[hash_fd(f, size)]
    BY <1>3 DEF Table!Chain, Table!Index
  <2> QED
    BY <1>4, <2>2, <2>3
<1>10. Table!ValuesOf(u, g) = <<x>>
  <2>1. Table!Chain(u, g) = <<e>> \o Table!Chain(hash, g)
    BY <1>9 DEF index
  <2> QED
    BY <1>2, <1>4, <1>5, <1>8, <2>1, ConsOwn
<1>11. ASSUME NEW f \in Fd, f # g PROVE Table!ValuesOf(u, f) = Table!ValuesOf(hash, f)
  <2>1. Table!Chain(hash, f) \in Seq(Entry) /\ Sole(Table!Chain(hash, f), f)
    BY <1>4
  <2>2. Table!ValuesIn(<<e>> \o Table!Chain(hash, f), f) = Table!ValuesIn(Table!Chain(hash, f), f)
    BY <1>2, <1>11, <2>1, ConsOther
  <2>3. \/ Table!Chain(u, f) = <<e>> \o Table!Chain(hash, f)
        \/ Table!Chain(u, f) = Table!Chain(hash, f)
    BY <1>9
  <2>4. Table!ValuesIn(Table!Chain(u, f), f) = Table!ValuesIn(Table!Chain(hash, f), f)
    BY <2>2, <2>3
  <2> QED
    BY <1>4, <1>8, <2>4
<1> QED
  BY <1>3, <1>7, <1>10, <1>11 DEF u

\* A sequence without its element i.
LEMMA WithoutAt ==
  ASSUME NEW c \in Seq(Entry), NEW i \in 1 .. Len(c)
  PROVE  /\ Table!RemoveAt(c, i) \in Seq(Entry) /\ Len(Table!RemoveAt(c, i)) = Len(c) - 1
         /\ \A j \in 1 .. Len(Table!RemoveAt(c, i)) :
              Table!RemoveAt(c, i)[j] = IF j < i THEN c[j] ELSE c[j + 1]
<1>1. /\ SubSeq(c, 1, i - 1) \in Seq(Entry) /\ Len(SubSeq(c, 1, i - 1)) = i - 1
      /\ \A j \in 1 .. i - 1 : SubSeq(c, 1, i - 1)[j] = c[j]
  OBVIOUS
<1>2. /\ SubSeq(c, i + 1, Len(c)) \in Seq(Entry) /\ Len(SubSeq(c, i + 1, Len(c))) = Len(c) - i
      /\ \A j \in 1 .. Len(c) - i : SubSeq(c, i + 1, Len(c))[j] = c[i + j]
  OBVIOUS
<1> DEFINE a == SubSeq(c, 1, i - 1)
           b == SubSeq(c, i + 1, Len(c))
<1>3. Table!RemoveAt(c, i) = a \o b
  BY DEF Table!RemoveAt
<1> HIDE DEF a, b
<1>4. a \in Seq(Entry) /\ b \in Seq(Entry) /\ Len(a) = i - 1 /\ Len(b) = Len(c) - i
  BY <1>1, <1>2 DEF a, b
<1>5. /\ a \o b \in Seq(Entry) /\ Len(a \o b) = Len(c) - 1
      /\ \A j \in 1 .. Len(c) - 1 : (a \o b)[j] = IF j < i THEN a[j] ELSE b[j - (i - 1)]
  BY <1>4
<1>6. ASSUME NEW j \in 1 .. Len(c) - 1
      PROVE  (IF j < i THEN a[j] ELSE b[j - (i - 1)]) = IF j < i THEN c[j] ELSE c[j + 1]
  <2>1. CASE j < i
    BY <1>1, <2>1 DEF a
  <2>2. CASE j >= i
    <3>1. j - (i - 1) \in 1 .. Len(c) - i /\ i + (j - (i - 1)) = j + 1
      BY <2>2
    <3> QED
      BY <1>2, <2>2, <3>1 DEF b
  <2> QED
    BY <2>1, <2>2
<1> QED
  BY <1>3, <1>5, <1>6

\* A removal takes a key's entry out, if there is one, and nothing else changes.
LEMMA RemoveTable ==
  ASSUME NEW hash, TableOK(hash), hash.old = <<>>, NEW g \in Fd
  PROVE  /\ TableOK(Table!ht_remove(hash, g)) /\ Table!ht_remove(hash, g).old = <<>>
         /\ Table!ValuesOf(Table!ht_remove(hash, g), g) = <<>>
         /\ \A f \in Fd : f # g =>
              Table!ValuesOf(Table!ht_remove(hash, g), f) = Table!ValuesOf(hash, f)
<1>1. CASE ~Table!Found(hash, g)
  BY <1>1, LookUp DEF Table!ht_remove
<1>2. CASE Table!Found(hash, g)
  <2> DEFINE size == hash.hash_table_size
             c == Table!Chain(hash, g)
             i == Table!Find(hash, g)
             d == Table!RemoveAt(c, i)
             index == hash_fd(g, size)
             u == Table!ht_remove(hash, g)
  <2>1. /\ size \in Nat \ {0} /\ hash.hash_table \in Chains(size)
        /\ Placed(hash.hash_table, size) /\ hash.num_elements \in Int
        /\ index \in 0 .. size - 1
    BY TableFields, HashInRange DEF TableOK
  <2>2. c = hash.hash_table[index] /\ c \in Seq(Entry)
    BY TableFields DEF Table!Chain, Table!Index
  <2>3. i \in 1 .. Len(c) /\ c[i].key = g
    BY <1>2, LookUp
  <2>4. /\ u.hash_table = [hash.hash_table EXCEPT ![index] = d]
        /\ u.hash_table_size = size /\ u.num_elements = hash.num_elements - 1 /\ u.old = <<>>
        /\ u = [hash_table |-> u.hash_table, hash_table_size |-> u.hash_table_size,
                num_elements |-> u.num_elements, old |-> u.old]
    <3>1. PICK k, b, n, o :
            hash = [hash_table |-> k, hash_table_size |-> b, num_elements |-> n, old |-> o]
      BY TableIsRecord
    <3>2. u = [hash EXCEPT !.hash_table[index] = Table!RemoveAt(@, i), !.num_elements = @ - 1]
      BY <1>2 DEF Table!ht_remove, Table!Index
    <3>3. c = k[index]
      BY <2>2, <3>1
    <3> HIDE DEF u, i, index
    <3>4. u = [hash_table |-> [k EXCEPT ![index] = Table!RemoveAt(@, i)], hash_table_size |-> b,
               num_elements |-> n - 1, old |-> o]
      BY <3>1, <3>2
    <3> HIDE DEF c
    <3>5. [k EXCEPT ![index] = Table!RemoveAt(@, i)] = [k EXCEPT ![index] = d]
      BY <3>3
    <3> HIDE DEF d
    <3> QED
      BY <3>1, <3>4, <3>5
  <2> HIDE DEF u, i, c, index
  <2>5. /\ d \in Seq(Entry) /\ Len(d) = Len(c) - 1
        /\ \A j \in 1 .. Len(d) : d[j] = IF j < i THEN c[j] ELSE c[j + 1]
    BY <2>2, <2>3, WithoutAt
  <2> HIDE DEF d
  <2>6. \A f \in Fd : Sole(c, f)
    BY <2>1, <2>2 DEF Placed
  <2>7. \A f \in Fd : /\ Sole(d, f)
                      /\ g # f => Table!ValuesIn(d, f) = Table!ValuesIn(c, f)
                      /\ g = f => Table!ValuesIn(d, f) = <<>>
    <3> TAKE f \in Fd
    <3>1. Sole(c, f)
      BY <2>6
    <3>2. /\ Sole(d, f)
          /\ c[i].key # f => /\ Table!ValuesIn(d, f) = Table!ValuesIn(c, f)
                             /\ Has(d, f) <=> Has(c, f)
          /\ c[i].key = f => Table!ValuesIn(d, f) = <<>> /\ ~Has(d, f)
      <4>1. c \in Seq(Entry) /\ i \in 1 .. Len(c) /\ d \in Seq(Entry)
        BY <2>2, <2>3, <2>5
      <4>2. Len(d) = Len(c) - 1
        BY <2>5
      <4>3. \A j \in 1 .. Len(d) : d[j] = IF j < i THEN c[j] ELSE c[j + 1]
        BY <2>5
      <4> QED
        BY <3>1, <4>1, <4>2, <4>3, WithoutEntry
    <3> QED
      BY <2>3, <3>2
  <2>8. \A j \in 1 .. Len(d) : \E k \in 1 .. Len(hash.hash_table[index]) :
          d[j] = hash.hash_table[index][k]
    <3> TAKE j \in 1 .. Len(d)
    <3>1. \/ j \in 1 .. Len(c) /\ d[j] = c[j]
          \/ j + 1 \in 1 .. Len(c) /\ d[j] = c[j + 1]
      BY <2>2, <2>3, <2>5
    <3> QED
      BY <2>2, <3>1
  <2>9. u.hash_table \in Chains(size) /\ Placed(u.hash_table, size)
    <3>1. d \in Seq(Entry) /\ \A f \in Fd : Sole(d, f)
      BY <2>5, <2>7
    <3>2. u.hash_table = [hash.hash_table EXCEPT ![index] = d]
      BY <2>4
    <3> DEFINE chains == hash.hash_table
               w == u.hash_table
    <3>3. chains \in Chains(size) /\ Placed(chains, size) /\ size \in Nat \ {0}
      BY <2>1
    <3>4. \A j \in 1 .. Len(d) : \E k \in 1 .. Len(chains[index]) : d[j] = chains[index][k]
      BY <2>8
    <3> HIDE DEF chains, w, size
    <3>5. w = [chains EXCEPT ![index] = d]
      BY <3>2 DEF chains, w
    <3>6. /\ [chains EXCEPT ![index] = d] \in Chains(size)
          /\ Placed([chains EXCEPT ![index] = d], size)
      BY <2>1, <3>1, <3>3, <3>4, TakeFromChain
    <3> QED
      BY <3>5, <3>6 DEF w
  <2>10. TableOK(u)
    <3>1. u \in [hash_table : Chains(size), hash_table_size : Nat \ {0},
                 num_elements : Int, old : {<<>>} \union Chains(size \div 2)]
      BY <2>1, <2>4, <2>9
    <3>2. \A f \in Fd : ~Has(OldChain(u, u.hash_table_size \div 2, f), f)
      BY <2>4 DEF OldChain, Has
    <3> QED
      BY <2>4, <2>9, <3>1, <3>2 DEF TableOK
  <2>11. \A f \in Fd : /\ Table!ValuesOf(u, f) = Table!ValuesIn(Table!Chain(u, f), f)
                       /\ Table!ValuesOf(hash, f) = Table!ValuesIn(Table!Chain(hash, f), f)
    BY <2>4, <2>10, AllMoved
  <2>12. \A f \in Fd :
           /\ hash_fd(f, size) = index => Table!Chain(u, f) = d /\ Table!Chain(hash, f) = c
           /\ hash_fd(f, size) # index => Table!Chain(u, f) = Table!Chain(hash, f)
    <3> TAKE f \in Fd
    <3>1. hash_fd(f, size) \in 0 .. size - 1
      BY <2>1, HashInRange
    <3>2. u.hash_table[hash_fd(f, size)] =
            IF hash_fd(f, size) = index THEN d ELSE hash.hash_table[hash_fd(f, size)]
      BY <2>1, <2>4, <3>1 DEF Chains
    <3>3. /\ Table!Chain(u, f) = u.hash_table[hash_fd(f, size)]
          /\ Table!Chain(hash, f) = hash.hash_table[hash_fd(f, size)]
      BY <2>4 DEF Table!Chain, Table!Index
    <3> QED
      BY <2>2, <3>2, <3>3
  <2>13. Table!ValuesOf(u, g) = <<>>
    BY <2>7, <2>11, <2>12 DEF index
  <2>14. \A f \in Fd : f # g => Table!ValuesOf(u, f) = Table!ValuesOf(hash, f)
    BY <2>7, <2>11, <2>12
  <2> QED
    BY <2>4, <2>10, <2>13, <2>14 DEF u
<1> QED
  BY <1>1, <1>2

-----------------------------------------------------------------------------
(* The state between two steps.                                              *)

Nodes == DOMAIN players.node

\* A node's number is that of its player.  The node that takes its successor's
\* data keeps the number of the player it had until the successor is out.
Numbers ==
  [n \in Nodes |-> IF pc = "remove_node" /\ n = target THEN player.seq_num
                   ELSE Tree!Data(players, n).seq_num]

\* The number that remove_node looks for.
Sought == IF target = NULL THEN player.seq_num ELSE Tree!Data(players, target).seq_num

AtInsert(lo, hi) ==
  pc = "insert_node" =>
    node \in Nodes /\ lo[node] < player.seq_num /\ player.seq_num < hi[node]

AtMinimum(lo) == pc = "minimum" => node \in Nodes /\ lo[node] = 0

\* On the left edge of what is right of target.
AtSuccessor(lo, hi) ==
  pc = "successor" =>
    /\ node \in Nodes /\ target \in Nodes /\ Tree!Right(players, target) # 0
    /\ Tree!Data(players, target).seq_num = player.seq_num
    /\ lo[node] = player.seq_num /\ hi[node] <= hi[target]

\* Below target, on the way to the node it has its data from, which is the next
\* one in the order.
AtRemove(lo, hi) ==
  pc = "remove_node" =>
    /\ node \in Nodes /\ lo[node] < Sought /\ Sought < hi[node]
    /\ target # NULL =>
         /\ target \in Nodes /\ player.seq_num <= lo[node]
         /\ \A m \in Nodes : Numbers[m] <= player.seq_num \/ Sought <= Numbers[m]
         /\ \E s \in Nodes : s # target /\ Tree!Data(players, s) = Tree!Data(players, target)

AtUpdate == pc = "update" => node \in Nodes

Place(lo, hi) ==
  AtInsert(lo, hi) /\ AtMinimum(lo) /\ AtSuccessor(lo, hi) /\ AtRemove(lo, hi) /\ AtUpdate

\* Wherever a call is, the tree is in order, and the call where its key belongs.
TreeInv ==
  \E lo, hi, up : Ordered(players, Nodes, Numbers, lo, hi, up, setup.adds + 1) /\ Place(lo, hi)

InsertPcs == {"insert_node", "update", "returned", "rechain", "crash"}
RemovePcs == {"remove_node", "successor", "update", "returned", "crash"}

Control ==
  /\ setup \in Setups /\ ~setup.waits_twice
  /\ cur_size \in Nat /\ seq_num \in Nat \ {0} /\ seq_num <= setup.adds + 1
  /\ \/ call = "none" /\ pc = "idle"
     \/ call = "add" /\ pc \in InsertPcs
     \/ call = "remove" /\ pc \in RemovePcs
     \/ call = "pop" /\ pc \in RemovePcs \union {"minimum"}
  /\ pc \in {"idle", "minimum"} => target = NULL

\* Numbers and addresses that have been given out.
Limit == IF call = "add" /\ pc # "insert_node" THEN seq_num + 1 ELSE seq_num
Fresh == \A n \in Nodes : n < Limit /\ Tree!Data(players, n).seq_num < Limit

AddInv ==
  call = "add" =>
    /\ player.seq_num = seq_num /\ player \in Player
    /\ seq_num <= setup.adds /\ cur_size < setup.capacity
    /\ \A p \in Waiting : p.fd # player.fd
    /\ pc # "insert_node" => player \in Stored

RemoveInv ==
  call \in {"remove", "pop"} /\ pc # "minimum" =>
    /\ player \in Player /\ player.seq_num \in 1 .. setup.adds
    /\ pc \in {"update", "returned"} => \A p \in Stored : p.seq_num # player.seq_num

PopInv ==
  call = "pop" =>
    /\ cur_size # 0
    /\ pc # "minimum" => \A p \in Stored : player.seq_num <= p.seq_num
    /\ pc = "successor" \/ (pc = "remove_node" /\ target = NULL) => player \in Stored

\* An entry of the table stands for a player who waits, except that of a player who
\* is being added.
TableInv ==
  /\ TableOK(fd_seq_mapping) /\ (fd_seq_mapping.old # <<>> <=> pc = "rechain")
  /\ \A f \in Fd : Table!ValuesOf(fd_seq_mapping, f) # <<>> =>
       \E p \in Waiting : p.fd = f /\ Table!ValuesOf(fd_seq_mapping, f) = <<p.seq_num>>

QueueInv == TreeInv /\ Control /\ Fresh /\ AddInv /\ RemoveInv /\ PopInv /\ TableInv

\* What a setup is.
LEMMA Setup ==
  ASSUME Control
  PROVE  /\ setup.capacity \in 0 .. MAX_CAPACITY /\ setup.table_size \in Nat \ {0}
         /\ setup.callers \in SUBSET Fd /\ setup.adds \in Nat /\ setup.removals \in BOOLEAN
BY ContainersAssumption DEF Control

\* What can be read off a tree in order.
LEMMA TreeFacts ==
  ASSUME TreeInv, Control
  PROVE  /\ Closed(players, Nodes) /\ players \in TreeOver(Nodes)
         /\ \A n \in Nodes :
              /\ n \in Nat /\ n # 0 /\ Tree!Data(players, n) \in Player
              /\ Tree!Data(players, n).seq_num \in Nat
              /\ Tree!Left(players, n) \in Nodes \union {0}
              /\ Tree!Right(players, n) \in Nodes \union {0}
              /\ Numbers[n] = IF pc = "remove_node" /\ n = target THEN player.seq_num
                              ELSE Tree!Data(players, n).seq_num
              /\ Numbers[n] \in Nat /\ 0 < Numbers[n] /\ Numbers[n] <= setup.adds
<1>1. PICK lo, hi, up :
        Ordered(players, Nodes, Numbers, lo, hi, up, setup.adds + 1) /\ Place(lo, hi)
  BY DEF TreeInv
<1>2. Closed(players, Nodes) /\ Intervals(Nodes, Numbers, lo, hi, setup.adds + 1)
  BY <1>1 DEF Ordered
<1>3. players \in TreeOver(Nodes)
  BY <1>2 DEF Closed
<1>4. ASSUME NEW n \in Nodes
      PROVE  /\ n \in Nat /\ n # 0 /\ Tree!Data(players, n) \in Player
             /\ Tree!Data(players, n).seq_num \in Nat
             /\ Tree!Left(players, n) \in Nodes \union {0}
             /\ Tree!Right(players, n) \in Nodes \union {0}
  <2>1. Tree!Data(players, n) \in Player
    BY <1>3, FieldsOfNode
  <2> QED
    BY <1>2, <2>1 DEF Closed, Player
<1>5. setup.adds \in Nat
  BY Setup
<1>6. ASSUME NEW n \in Nodes
      PROVE  Numbers[n] \in Nat /\ 0 < Numbers[n] /\ Numbers[n] <= setup.adds
  <2>1. Numbers[n] \in Int /\ 0 < Numbers[n] /\ Numbers[n] < setup.adds + 1
    BY <1>2 DEF Intervals
  <2> QED
    BY <1>5, <2>1
<1> QED
  BY <1>2, <1>3, <1>4, <1>6 DEF Numbers

\* The numbers in the tree are those of different players, even while a node holds
\* the data of its successor.
LEMMA OnePerNumber ==
  ASSUME TreeInv, Control
  PROVE  /\ \A p, q \in Stored : p.seq_num = q.seq_num => p = q
         /\ \A p \in Stored : p \in Player /\ p.seq_num \in 1 .. setup.adds
         /\ \A p \in Stored : \E n \in Nodes : /\ p = Tree!Data(players, n)
                                               /\ p.seq_num = Numbers[n]
<1>1. PICK lo, hi, up :
        Ordered(players, Nodes, Numbers, lo, hi, up, setup.adds + 1) /\ Place(lo, hi)
  BY DEF TreeInv
<1>2. ASSUME NEW p \in Stored
      PROVE  \E n \in Nodes : p = Tree!Data(players, n) /\ p.seq_num = Numbers[n]
  <2>1. PICK n \in Nodes : p = Tree!Data(players, n)
    BY DEF Stored, Nodes
  <2>2. CASE pc = "remove_node" /\ n = target
    <3>1. target # NULL
      BY <2>2, TreeFacts DEF NULL, Tree!NULL
    <3>2. PICK s \in Nodes : s # target /\ Tree!Data(players, s) = Tree!Data(players, target)
      BY <1>1, <2>2, <3>1 DEF Place, AtRemove
    <3>3. p.seq_num = Numbers[s]
      BY <2>1, <2>2, <3>2, TreeFacts
    <3> QED
      BY <2>1, <2>2, <3>2, <3>3
  <2>3. CASE ~(pc = "remove_node" /\ n = target)
    BY <2>1, <2>3, TreeFacts
  <2> QED
    BY <2>2, <2>3
<1>3. ASSUME NEW p \in Stored, NEW q \in Stored, p.seq_num = q.seq_num
      PROVE  p = q
  <2>1. PICK m \in Nodes : p = Tree!Data(players, m) /\ p.seq_num = Numbers[m]
    BY <1>2
  <2>2. PICK n \in Nodes : q = Tree!Data(players, n) /\ q.seq_num = Numbers[n]
    BY <1>2
  <2>3. m = n
    BY <1>1, <1>3, <2>1, <2>2, Distinct
  <2> QED
    BY <2>1, <2>2, <2>3
<1>4. ASSUME NEW p \in Stored PROVE p \in Player /\ p.seq_num \in 1 .. setup.adds
  <2>1. PICK n \in Nodes : p = Tree!Data(players, n) /\ p.seq_num = Numbers[n]
    BY <1>2
  <2>2. setup.adds \in Nat
    BY Setup
  <2> QED
    BY <2>1, <2>2, TreeFacts
<1> QED
  BY <1>2, <1>3, <1>4

\* What PlayersQueue has in the place of the tree, the table and the counter.
Entries == [f \in Fd |-> Table!ValuesOf(fd_seq_mapping, f)]
Size == IF call = "remove" THEN OneLess(cur_size) ELSE cur_size
Unseen == Waiting' = Waiting /\ Entries' = Entries /\ Size' = Size /\ seq_num' = seq_num

\* The tree stands still, and with it what the order says.
LEMMA SameTree ==
  ASSUME TreeInv, UNCHANGED <<players, setup>>, pc # "remove_node",
         pc' \in {"idle", "rechain", "returned", "crash"}
  PROVE  TreeInv'
<1>1. PICK lo, hi, up : Ordered(players, Nodes, Numbers, lo, hi, up, setup.adds + 1)
  BY DEF TreeInv
<1>2. Nodes' = Nodes /\ Numbers' = Numbers
  BY DEF Nodes, Numbers
<1>3. Place(lo, hi)'
  BY DEF Place, AtInsert, AtMinimum, AtSuccessor, AtRemove, AtUpdate
<1> QED
  BY <1>1, <1>2, <1>3 DEF TreeInv

\* The table stands still and nobody comes or goes.
LEMMA SameTable ==
  ASSUME TableInv, fd_seq_mapping' = fd_seq_mapping, Waiting' = Waiting,
         pc # "rechain", pc' # "rechain"
  PROVE  TableInv' /\ Entries' = Entries
BY DEF TableInv, Entries

\* The empty queue.
LEMMA StartsInvariant ==
  ASSUME Init, ~setup.waits_twice
  PROVE  QueueInv /\ AbstractQueue!pq_create
<1>1. /\ players = [root |-> 0, node |-> [n \in {} |-> 0]] /\ call = "none" /\ pc = "idle"
      /\ target = 0 /\ seq_num = 1 /\ cur_size = 0 /\ setup \in Setups
      /\ fd_seq_mapping = Table!ht_create(setup.table_size)
  BY DEF Init, Idle, Tree!avl_create, NULL, Tree!NULL
<1>2. Control
  <2>1. setup.adds \in Nat
    BY <1>1, ContainersAssumption
  <2> QED
    BY <1>1, <2>1 DEF Control, NULL, Tree!NULL
<1>3. Nodes = {} /\ Stored = {} /\ Waiting = {}
  <2>1. DOMAIN players.node = {}
    BY <1>1
  <2> QED
    BY <1>1, <2>1 DEF Nodes, Stored, Waiting
<1>4. TreeInv
  <2>1. setup.adds + 1 \in Nat
    BY <1>2, Setup
  <2>2. players \in TreeOver({}) /\ players.root = 0
    BY <1>1 DEF TreeOver
  <2>3. \A lo, hi, up, v : Ordered(players, {}, v, lo, hi, up, setup.adds + 1)
    BY <2>1, <2>2 DEF Ordered, Closed, Intervals, LeftSide, RightSide, Rooted, Hanging, Nested
  <2>4. \A lo, hi : Place(lo, hi)
    BY <1>1 DEF Place, AtInsert, AtMinimum, AtSuccessor, AtRemove, AtUpdate
  <2> QED
    BY <1>3, <2>3, <2>4 DEF TreeInv
<1>5. /\ TableOK(fd_seq_mapping) /\ fd_seq_mapping.old = <<>>
      /\ \A f \in Fd : Table!ValuesOf(fd_seq_mapping, f) = <<>>
  BY <1>1, <1>2, Setup, CreateTable
<1>6. TableInv
  BY <1>1, <1>5 DEF TableInv
<1>7. QueueInv
  BY <1>1, <1>2, <1>3, <1>4, <1>6 DEF QueueInv, Fresh, AddInv, RemoveInv, PopInv
<1> QED
  BY <1>1, <1>3, <1>5, <1>7 DEF AbstractQueue!pq_create

\* The array is doubled before the new player's entry is in.
LEMMA BeginRechainKeeps ==
  ASSUME QueueInv, BeginRechain
  PROVE  QueueInv' /\ Unseen
<1>1. /\ call = "add" /\ pc = "returned" /\ pc' = "rechain"
      /\ fd_seq_mapping' = Table!Double(fd_seq_mapping)
      /\ UNCHANGED <<setup, players, cur_size, seq_num, call, node, target, player>>
  BY DEF BeginRechain
<1>2. TreeInv' /\ Control' /\ Fresh'
  BY <1>1, SameTree DEF QueueInv, Control, InsertPcs, Fresh, Limit, Nodes
<1>3. Stored' = Stored /\ Waiting' = Waiting
  BY <1>1 DEF Stored, Waiting
<1>4. AddInv' /\ RemoveInv' /\ PopInv'
  BY <1>1, <1>3 DEF QueueInv, AddInv, RemoveInv, PopInv
<1>5. TableOK(fd_seq_mapping) /\ fd_seq_mapping.old = <<>>
  BY <1>1 DEF QueueInv, TableInv
<1>6. /\ TableOK(fd_seq_mapping') /\ fd_seq_mapping'.old # <<>>
      /\ \A f \in Fd : Table!ValuesOf(fd_seq_mapping', f) = Table!ValuesOf(fd_seq_mapping, f)
  BY <1>1, <1>5, DoubleTable
<1>7. TableInv' /\ Entries' = Entries
  BY <1>1, <1>3, <1>6 DEF QueueInv, TableInv, Entries
<1> QED
  BY <1>1, <1>2, <1>3, <1>4, <1>7 DEF QueueInv, Unseen, Size

\* A node moves to its new chain; every key keeps its values.
LEMMA RechainKeeps ==
  ASSUME QueueInv, Rechain
  PROVE  QueueInv' /\ Unseen
<1>1. /\ pc = "rechain" /\ Table!Unmoved(fd_seq_mapping) # {}
      /\ fd_seq_mapping' = Table!rechain(fd_seq_mapping)
      /\ UNCHANGED <<setup, players, cur_size, seq_num, call, pc, node, target, player>>
  BY DEF Rechain, frames
<1>2. TreeInv' /\ Control' /\ Fresh'
  BY <1>1, SameTree DEF QueueInv, Control, Fresh, Limit, Nodes
<1>3. Stored' = Stored /\ Waiting' = Waiting
  BY <1>1 DEF Stored, Waiting
<1>4. AddInv' /\ RemoveInv' /\ PopInv'
  BY <1>1, <1>3 DEF QueueInv, AddInv, RemoveInv, PopInv
<1>5. TableOK(fd_seq_mapping) /\ fd_seq_mapping.old # <<>>
  BY <1>1 DEF QueueInv, TableInv
<1>6. /\ TableOK(fd_seq_mapping') /\ fd_seq_mapping'.old # <<>>
      /\ \A f \in Fd : Table!ValuesOf(fd_seq_mapping', f) = Table!ValuesOf(fd_seq_mapping, f)
  BY <1>1, <1>5, RechainTable
<1>7. TableInv' /\ Entries' = Entries
  BY <1>1, <1>3, <1>6 DEF QueueInv, TableInv, Entries
<1> QED
  BY <1>1, <1>2, <1>3, <1>4, <1>7 DEF QueueInv, Unseen, Size

\* The entry is filed: from here on the player waits.
LEMMA EndAddKeeps ==
  ASSUME QueueInv, EndAdd
  PROVE  QueueInv' /\ AbstractQueue!pq_add_player(player.fd, player_id)
<1>1. /\ call = "add" /\ pc \in {"returned", "rechain"} /\ call' = "none" /\ pc' = "idle"
      /\ pc = "rechain" => Table!Unmoved(fd_seq_mapping) = {}
      /\ fd_seq_mapping' = Table!ht_insert(fd_seq_mapping, player.fd, player.seq_num)
      /\ cur_size' = cur_size + 1 /\ seq_num' = seq_num + 1 /\ target' = NULL
      /\ players' = players /\ setup' = setup
  BY DEF EndAdd, Return
<1>2. /\ player \in Player /\ player.seq_num = seq_num /\ seq_num <= setup.adds
      /\ cur_size < setup.capacity /\ player \in Stored
      /\ \A p \in Waiting : p.fd # player.fd
  BY <1>1 DEF QueueInv, AddInv
<1>3. /\ cur_size \in Nat /\ seq_num \in Nat \ {0} /\ setup.adds \in Nat
      /\ player.fd \in Fd /\ player.seq_num \in Nat
  BY <1>2, Setup DEF QueueInv, Control, Player
<1>4. Control' /\ TreeInv'
  BY <1>1, <1>2, <1>3, SameTree DEF QueueInv, Control
<1>5. Limit' = Limit
  BY <1>1, <1>3 DEF Limit
<1>6. Fresh'
  BY <1>1, <1>5 DEF QueueInv, Fresh, Nodes
<1>7. Waiting = Stored \ {player} /\ Waiting' = Stored
  BY <1>1 DEF Waiting, Stored
<1>8. Waiting' = Waiting \union {player}
  BY <1>2, <1>7
<1>9. /\ TableOK(fd_seq_mapping)
      /\ fd_seq_mapping.old = <<>> \/ Table!Unmoved(fd_seq_mapping) = {}
      /\ Table!ValuesOf(fd_seq_mapping, player.fd) = <<>>
  BY <1>1, <1>2, <1>3 DEF QueueInv, TableInv
<1>10. /\ TableOK(fd_seq_mapping') /\ fd_seq_mapping'.old = <<>>
       /\ Table!ValuesOf(fd_seq_mapping', player.fd) = <<player.seq_num>>
       /\ \A f \in Fd : f # player.fd =>
            Table!ValuesOf(fd_seq_mapping', f) = Table!ValuesOf(fd_seq_mapping, f)
  BY <1>1, <1>3, <1>9, InsertTable
<1>11. TableInv'
  <2>1. ASSUME NEW f \in Fd, Table!ValuesOf(fd_seq_mapping', f) # <<>>
        PROVE  \E p \in Waiting' : p.fd = f /\ Table!ValuesOf(fd_seq_mapping', f) = <<p.seq_num>>
    <3>1. CASE f = player.fd
      BY <1>8, <1>10, <3>1
    <3>2. CASE f # player.fd
      <4>1. Table!ValuesOf(fd_seq_mapping', f) = Table!ValuesOf(fd_seq_mapping, f)
        BY <1>10, <3>2
      <4>2. PICK p \in Waiting : p.fd = f /\ Table!ValuesOf(fd_seq_mapping, f) = <<p.seq_num>>
        BY <2>1, <4>1 DEF QueueInv, TableInv
      <4> QED
        BY <1>8, <4>1, <4>2
    <3> QED
      BY <3>1, <3>2
  <2> QED
    BY <1>1, <1>10, <2>1 DEF TableInv
<1>12. AddInv' /\ RemoveInv' /\ PopInv'
  BY <1>1 DEF AddInv, RemoveInv, PopInv
<1>13. Entries' = [Entries EXCEPT ![player.fd] = <<seq_num>> \o @]
  <2>1. \A f \in Fd : Entries[f] = Table!ValuesOf(fd_seq_mapping, f)
    BY DEF Entries
  <2>2. [Entries EXCEPT ![player.fd] = <<seq_num>> \o @] =
          [f \in Fd |-> IF f = player.fd THEN <<seq_num>> \o Entries[f] ELSE Entries[f]]
    BY DEF Entries
  <2>3. <<seq_num>> \o <<>> = <<seq_num>>
    OBVIOUS
  <2>4. \A f \in Fd : Table!ValuesOf(fd_seq_mapping', f) =
                        IF f = player.fd THEN <<seq_num>> \o Entries[f] ELSE Entries[f]
    BY <1>2, <1>9, <1>10, <2>1, <2>3
  <2> QED
    BY <2>2, <2>4 DEF Entries
<1>14. player = [seq_num |-> seq_num, fd |-> player.fd, player_id |-> player_id]
  BY <1>2 DEF Player
<1>15. ~AbstractQueue!AtCapacity
  <2>1. setup.capacity \in 0 .. MAX_CAPACITY /\ MAX_CAPACITY \in Nat
    BY Setup, ContainersAssumption DEF QueueInv
  <2> QED
    BY <1>1, <1>2, <1>3, <2>1 DEF AbstractQueue!AtCapacity
<1> QED
  BY <1>1, <1>4, <1>6, <1>8, <1>11, <1>12, <1>13, <1>14, <1>15
  DEF QueueInv, AbstractQueue!pq_add_player, Entries

\* cur_size-- is the abstract queue's.
LEMMA SizeLess == \A n \in Nat : OneLess(n) \in Nat /\ OneLess(n) = AbstractQueue!Decremented(n)
BY ContainersAssumption DEF OneLess, AbstractQueue!Decremented

\* The player had left the queue when the call began.
LEMMA EndRemoveKeeps ==
  ASSUME QueueInv, EndRemove
  PROVE  QueueInv' /\ Unseen
<1>1. /\ call = "remove" /\ pc = "returned" /\ call' = "none" /\ pc' = "idle"
      /\ cur_size' = OneLess(cur_size) /\ target' = NULL
      /\ UNCHANGED <<players, fd_seq_mapping, seq_num, setup>>
  BY DEF EndRemove, Return
<1>2. Control' /\ TreeInv' /\ Fresh'
  BY <1>1, SameTree, SizeLess DEF QueueInv, Control, Fresh, Limit, Nodes
<1>3. \A p \in Stored : p.seq_num # player.seq_num
  BY <1>1 DEF QueueInv, RemoveInv
<1>4. Waiting' = Waiting
  BY <1>1, <1>3 DEF Waiting, Stored
<1>5. TableInv' /\ Entries' = Entries
  BY <1>1, <1>4, SameTable DEF QueueInv
<1>6. AddInv' /\ RemoveInv' /\ PopInv'
  BY <1>1 DEF AddInv, RemoveInv, PopInv
<1> QED
  BY <1>1, <1>2, <1>4, <1>5, <1>6 DEF QueueInv, Unseen, Size

\* The first player leaves the queue and the table.
LEMMA EndPopKeeps ==
  ASSUME QueueInv, EndPop
  PROVE  /\ QueueInv'
         /\ ~AbstractQueue!QueueEmpty /\ player \in Waiting
         /\ AbstractQueue!pop_from_queue(player)
<1>1. /\ call = "pop" /\ pc = "returned" /\ call' = "none" /\ pc' = "idle"
      /\ fd_seq_mapping' = Table!ht_remove(fd_seq_mapping, player.fd)
      /\ cur_size' = OneLess(cur_size) /\ target' = NULL
      /\ UNCHANGED <<players, seq_num, setup>>
  BY DEF EndPop, Return
<1>2. /\ player \in Player /\ player.seq_num \in Nat /\ player.fd \in Fd /\ cur_size # 0
      /\ \A p \in Stored : player.seq_num <= p.seq_num /\ p.seq_num # player.seq_num
  BY <1>1 DEF QueueInv, RemoveInv, PopInv, Player
<1>3. Control' /\ TreeInv' /\ Fresh'
  BY <1>1, SameTree, SizeLess DEF QueueInv, Control, Fresh, Limit, Nodes
<1>4. Waiting = Stored \union {player} /\ Waiting' = Stored /\ player \notin Stored
  BY <1>1, <1>2 DEF Waiting, Stored
<1>5. TableOK(fd_seq_mapping) /\ fd_seq_mapping.old = <<>>
  BY <1>1 DEF QueueInv, TableInv
<1>6. /\ TableOK(fd_seq_mapping') /\ fd_seq_mapping'.old = <<>>
      /\ Table!ValuesOf(fd_seq_mapping', player.fd) = <<>>
      /\ \A f \in Fd : f # player.fd =>
           Table!ValuesOf(fd_seq_mapping', f) = Table!ValuesOf(fd_seq_mapping, f)
  BY <1>1, <1>2, <1>5, RemoveTable
<1>7. TableInv'
  <2>1. ASSUME NEW f \in Fd, Table!ValuesOf(fd_seq_mapping', f) # <<>>
        PROVE  \E p \in Waiting' : p.fd = f /\ Table!ValuesOf(fd_seq_mapping', f) = <<p.seq_num>>
    <3>1. f # player.fd /\ Table!ValuesOf(fd_seq_mapping', f) = Table!ValuesOf(fd_seq_mapping, f)
      BY <1>6, <2>1
    <3>2. PICK p \in Waiting : p.fd = f /\ Table!ValuesOf(fd_seq_mapping, f) = <<p.seq_num>>
      BY <2>1, <3>1 DEF QueueInv, TableInv
    <3> QED
      BY <1>4, <3>1, <3>2
  <2> QED
    BY <1>1, <1>6, <2>1 DEF TableInv
<1>8. AddInv' /\ RemoveInv' /\ PopInv'
  BY <1>1 DEF AddInv, RemoveInv, PopInv
<1>9. Entries' = [Entries EXCEPT ![player.fd] = IF @ = <<>> THEN @ ELSE Tail(@)]
  <2>1. \A f \in Fd : Entries[f] = Table!ValuesOf(fd_seq_mapping, f)
    BY DEF Entries
  <2>2. [Entries EXCEPT ![player.fd] = IF @ = <<>> THEN @ ELSE Tail(@)] =
          [f \in Fd |-> IF f # player.fd THEN Entries[f]
                        ELSE IF Entries[f] = <<>> THEN Entries[f] ELSE Tail(Entries[f])]
    BY DEF Entries
  <2>3. (IF Entries[player.fd] = <<>> THEN Entries[player.fd] ELSE Tail(Entries[player.fd])) = <<>>
    <3>1. ASSUME Entries[player.fd] # <<>> PROVE Tail(Entries[player.fd]) = <<>>
      <4>1. PICK p \in Waiting : Entries[player.fd] = <<p.seq_num>>
        BY <1>2, <2>1, <3>1 DEF QueueInv, TableInv
      <4> QED
        BY <4>1
    <3> QED
      BY <3>1
  <2>4. \A f \in Fd : Table!ValuesOf(fd_seq_mapping', f) =
                        IF f # player.fd THEN Entries[f]
                        ELSE IF Entries[f] = <<>> THEN Entries[f] ELSE Tail(Entries[f])
    BY <1>6, <2>1, <2>3
  <2> QED
    BY <2>2, <2>4 DEF Entries
<1>10. AbstractQueue!IsFirst(player)
  BY <1>2, <1>4 DEF AbstractQueue!IsFirst
<1>11. cur_size \in Nat
  BY DEF QueueInv, Control
<1>12. ~AbstractQueue!QueueEmpty
  BY <1>1, <1>2, <1>4 DEF AbstractQueue!QueueEmpty
<1>13. Waiting' = Waiting \ {player}
  BY <1>4
<1> QED
  BY <1>1, <1>3, <1>4, <1>7, <1>8, <1>9, <1>10, <1>11, <1>12, <1>13, SizeLess
  DEF QueueInv, AbstractQueue!pop_from_queue, Entries

\* The root's interval holds every number: a call begins there.
LEMMA AtRoot ==
  ASSUME TreeInv, Control, players.root # NULL
  PROVE  /\ players.root \in Nodes
         /\ \A lo, hi, up : Ordered(players, Nodes, Numbers, lo, hi, up, setup.adds + 1) =>
              lo[players.root] = 0 /\ hi[players.root] = setup.adds + 1
BY DEF TreeInv, Ordered, Rooted, NULL, Tree!NULL

\* Without a root there is no node.
LEMMA NoRoot ==
  ASSUME TreeInv, players.root = NULL
  PROVE  Nodes = {} /\ Stored = {}
<1>1. Nodes = {}
  BY DEF TreeInv, Ordered, Rooted, NULL, Tree!NULL
<1> QED
  BY <1>1 DEF Stored, Nodes

\* pop_from_queue goes looking for the first player.
LEMMA PopKeeps ==
  ASSUME QueueInv, pop_from_queue
  PROVE  QueueInv' /\ Unseen
<1>1. /\ pc = "idle" /\ call' = "pop" /\ pc' = "minimum" /\ node' = players.root
      /\ players.root # NULL /\ cur_size # 0
      /\ UNCHANGED <<setup, players, fd_seq_mapping, cur_size, seq_num, target, player>>
  BY DEF pop_from_queue, EnterTree, queue
<1>2. call = "none" /\ target = NULL
  BY <1>1 DEF QueueInv, Control, InsertPcs, RemovePcs
<1>3. Control' /\ Fresh'
  BY <1>1, <1>2 DEF QueueInv, Control, Fresh, Limit, Nodes
<1>4. Waiting' = Waiting
  BY <1>1, <1>2 DEF Waiting, Stored
<1>5. TableInv' /\ Entries' = Entries
  BY <1>1, <1>4, SameTable DEF QueueInv
<1>6. AddInv' /\ RemoveInv' /\ PopInv'
  BY <1>1, <1>2 DEF AddInv, RemoveInv, PopInv
<1>7. TreeInv'
  <2>1. PICK lo, hi, up : Ordered(players, Nodes, Numbers, lo, hi, up, setup.adds + 1)
    BY DEF QueueInv, TreeInv
  <2>2. Nodes' = Nodes /\ Numbers' = Numbers
    BY <1>1 DEF Nodes, Numbers
  <2>3. Place(lo, hi)'
    BY <1>1, <2>1, <2>2, AtRoot DEF QueueInv, Place, AtInsert, AtMinimum, AtSuccessor, AtRemove, AtUpdate
  <2> QED
    BY <1>1, <2>1, <2>2, <2>3 DEF TreeInv
<1> QED
  BY <1>1, <1>2, <1>3, <1>4, <1>5, <1>6, <1>7 DEF QueueInv, Unseen, Size

\* The node without a left child holds the first player.
LEMMA MinimumKeeps ==
  ASSUME QueueInv, minimum
  PROVE  QueueInv' /\ Unseen
<1>1. /\ pc = "minimum"
      /\ UNCHANGED <<setup, players, fd_seq_mapping, cur_size, seq_num, call, target>>
  BY DEF minimum, queue
<1>2. call = "pop" /\ target = NULL /\ target = 0
  BY <1>1 DEF QueueInv, Control, InsertPcs, RemovePcs, NULL, Tree!NULL
<1>3. PICK lo, hi, up :
        Ordered(players, Nodes, Numbers, lo, hi, up, setup.adds + 1) /\ Place(lo, hi)
  BY DEF QueueInv, TreeInv
<1>4. node \in Nodes /\ lo[node] = 0
  BY <1>1, <1>3 DEF Place, AtMinimum
<1>5. Nodes' = Nodes /\ Stored' = Stored
  BY <1>1 DEF Nodes, Stored
<1>6. \A n \in Nodes : n # 0 /\ Numbers[n] = Tree!Data(players, n).seq_num
  BY <1>1, TreeFacts DEF QueueInv
<1>8. CASE Tree!Left(players, node) # NULL
  <2>1. node' = Tree!Left(players, node) /\ UNCHANGED <<pc, player>>
    BY <1>1, <1>8 DEF minimum
  <2>2. node' \in Nodes /\ lo[node'] = 0
    BY <1>3, <1>4, <1>8, <2>1, TreeFacts DEF QueueInv, Ordered, LeftSide, NULL, Tree!NULL
  <2>3. Numbers' = Numbers
    BY <1>1, <1>5, <2>1 DEF Numbers
  <2>4. Place(lo, hi)'
    BY <1>1, <1>5, <2>1, <2>2 DEF Place, AtInsert, AtMinimum, AtSuccessor, AtRemove, AtUpdate
  <2>5. TreeInv'
    BY <1>1, <1>3, <1>5, <2>3, <2>4 DEF TreeInv
  <2>6. Control' /\ Fresh' /\ AddInv' /\ RemoveInv' /\ PopInv'
    BY <1>1, <1>2, <2>1
    DEF QueueInv, Control, Fresh, Limit, Nodes, AddInv, RemoveInv, PopInv
  <2>7. Waiting' = Waiting
    BY <1>1, <1>5, <2>1 DEF Waiting
  <2>8. TableInv' /\ Entries' = Entries
    BY <1>1, <2>1, <2>7, SameTable DEF QueueInv
  <2> QED
    BY <1>1, <2>5, <2>6, <2>7, <2>8 DEF QueueInv, Unseen, Size
<1>9. CASE Tree!Left(players, node) = NULL
  <2>1. players.root # NULL
    BY <1>4, NoRoot DEF QueueInv
  <2>2. player' = Tree!Data(players, node) /\ node' = players.root /\ pc' = "remove_node"
    BY <1>1, <1>9, <2>1 DEF minimum, EnterTree
  <2>3. /\ player' \in Player /\ player' \in Stored /\ player'.seq_num \in 1 .. setup.adds
        /\ player'.seq_num = Numbers[node]
    <3>1. player' \in Stored
      BY <1>4, <2>2 DEF Stored, Nodes
    <3> QED
      BY <1>4, <1>6, <2>2, <3>1, OnePerNumber DEF QueueInv
  <2>4. \A p \in Stored : player'.seq_num <= p.seq_num
    <3> TAKE p \in Stored
    <3>1. PICK m \in Nodes : p.seq_num = Numbers[m]
      BY OnePerNumber DEF QueueInv
    <3>2. Numbers[m] <= lo[node] \/ Numbers[node] <= Numbers[m]
      BY <1>3, <1>4, <1>9 DEF Ordered, LeftSide, NULL, Tree!NULL
    <3>3. Numbers[m] \in Nat /\ 0 < Numbers[m]
      BY TreeFacts DEF QueueInv
    <3> QED
      BY <1>4, <2>3, <3>1, <3>2, <3>3
  <2>5. Numbers' = Numbers
    <3>1. \A n \in Nodes : n # target'
      BY <1>1, <1>2, <1>6
    <3>2. Numbers' = [n \in Nodes |-> Tree!Data(players, n).seq_num]
      BY <1>1, <1>5, <3>1 DEF Numbers
    <3>3. Numbers = [n \in Nodes |-> Tree!Data(players, n).seq_num]
      BY <1>1 DEF Numbers
    <3> QED
      BY <3>2, <3>3
  <2>6. Place(lo, hi)'
    <3>1. players.root \in Nodes /\ lo[players.root] = 0 /\ hi[players.root] = setup.adds + 1
      BY <1>3, <2>1, AtRoot DEF QueueInv
    <3>2. setup.adds \in Nat
      BY Setup DEF QueueInv
    <3>3. Sought' = player'.seq_num
      BY <1>1, <1>2 DEF Sought
    <3>4. target' = NULL
      BY <1>1, <1>2
    <3>5. AtRemove(lo, hi)'
      BY <1>5, <2>2, <2>3, <3>1, <3>2, <3>3, <3>4 DEF AtRemove
    <3> QED
      BY <2>2, <3>5 DEF Place, AtInsert, AtMinimum, AtSuccessor, AtUpdate
  <2>7. TreeInv'
    BY <1>1, <1>3, <1>5, <2>5, <2>6 DEF TreeInv
  <2>8. Control' /\ Fresh' /\ AddInv'
    BY <1>1, <1>2, <2>2 DEF QueueInv, Control, RemovePcs, Fresh, Limit, Nodes, AddInv
  <2>9. RemoveInv' /\ PopInv'
    BY <1>1, <1>2, <1>5, <2>2, <2>3, <2>4 DEF QueueInv, RemoveInv, PopInv
  <2>10. Waiting' = Waiting
    BY <1>1, <1>2, <1>5, <2>2, <2>3 DEF Waiting
  <2>11. TableInv' /\ Entries' = Entries
    BY <1>1, <2>2, <2>10, SameTable DEF QueueInv
  <2> QED
    BY <1>1, <1>2, <2>7, <2>8, <2>9, <2>10, <2>11 DEF QueueInv, Unseen, Size
<1> QED
  BY <1>8, <1>9

\* The descriptor's entry says which player leaves.
LEMMA RemovePlayerKeeps ==
  ASSUME QueueInv, NEW f \in setup.callers, pq_remove_player(f)
  PROVE  QueueInv' /\ f \in Fd /\ AbstractQueue!pq_remove_player(f)
<1> DEFINE x == Table!ht_get(fd_seq_mapping, f)
<1>1. /\ pc = "idle" /\ Table!Found(fd_seq_mapping, f) /\ call' = "remove"
      /\ player' = [seq_num |-> x, fd |-> f, player_id |-> player_id]
      /\ fd_seq_mapping' = Table!ht_remove(fd_seq_mapping, f)
      /\ EnterTree("remove_node")
      /\ UNCHANGED <<setup, players, cur_size, seq_num, target>>
  BY DEF pq_remove_player
<1>2. call = "none" /\ target = NULL /\ f \in Fd /\ cur_size \in Nat
  BY <1>1, Setup DEF QueueInv, Control, InsertPcs, RemovePcs
<1>3. Waiting = Stored
  BY <1>2 DEF Waiting
<1>4. TableOK(fd_seq_mapping) /\ fd_seq_mapping.old = <<>>
  BY <1>1 DEF QueueInv, TableInv
<1>5. Table!ValuesOf(fd_seq_mapping, f) = <<x>> /\ x \in Nat
  BY <1>1, <1>2, <1>4, LookUp
<1> HIDE DEF x
<1>6. PICK w \in Stored : w.fd = f /\ w.seq_num = x
  <2>1. <<x>> # <<>> /\ \A y : <<x>> = <<y>> => x = y
    OBVIOUS
  <2>2. PICK p \in Waiting : p.fd = f /\ Table!ValuesOf(fd_seq_mapping, f) = <<p.seq_num>>
    BY <1>2, <1>5, <2>1 DEF QueueInv, TableInv
  <2> QED
    BY <1>3, <1>5, <2>1, <2>2
<1>7. x \in 1 .. setup.adds /\ setup.adds \in Nat
  BY <1>6, OnePerNumber, Setup DEF QueueInv
<1>8. players.root # NULL
  BY <1>6, NoRoot DEF QueueInv
<1>9. node' = players.root /\ pc' = "remove_node"
  BY <1>1, <1>8 DEF EnterTree
<1>10. player' \in Player /\ player'.seq_num = x
  BY <1>1, <1>2, <1>5 DEF Player
<1>11. Nodes' = Nodes /\ Stored' = Stored
  BY <1>1 DEF Nodes, Stored
<1>12. TreeInv'
  <2>1. PICK lo, hi, up : Ordered(players, Nodes, Numbers, lo, hi, up, setup.adds + 1)
    BY DEF QueueInv, TreeInv
  <2>2. Numbers' = Numbers
    <3>1. \A n \in Nodes : n # target'
      BY <1>1, <1>2, TreeFacts DEF QueueInv, NULL, Tree!NULL
    <3>2. Numbers' = [n \in Nodes |-> Tree!Data(players, n).seq_num]
      BY <1>1, <1>11, <3>1 DEF Numbers
    <3>3. Numbers = [n \in Nodes |-> Tree!Data(players, n).seq_num]
      BY <1>1 DEF Numbers
    <3> QED
      BY <3>2, <3>3
  <2>3. players.root \in Nodes /\ lo[players.root] = 0 /\ hi[players.root] = setup.adds + 1
    BY <1>8, <2>1, AtRoot DEF QueueInv
  <2>4. Sought' = x /\ target' = NULL
    BY <1>1, <1>2, <1>10 DEF Sought
  <2>5. AtRemove(lo, hi)'
    BY <1>7, <1>9, <1>11, <2>3, <2>4 DEF AtRemove
  <2>6. Place(lo, hi)'
    BY <1>9, <2>5 DEF Place, AtInsert, AtMinimum, AtSuccessor, AtUpdate
  <2> QED
    BY <1>1, <1>11, <2>1, <2>2, <2>6 DEF TreeInv
<1>13. Control' /\ Fresh' /\ AddInv'
  BY <1>1, <1>2, <1>9 DEF QueueInv, Control, RemovePcs, Fresh, Limit, Nodes, AddInv
<1>14. RemoveInv' /\ PopInv'
  BY <1>1, <1>7, <1>9, <1>10 DEF RemoveInv, PopInv
<1>15. Waiting' = {p \in Waiting : p.seq_num # x}
  BY <1>1, <1>3, <1>10, <1>11 DEF Waiting
<1>16. /\ TableOK(fd_seq_mapping') /\ fd_seq_mapping'.old = <<>>
       /\ Table!ValuesOf(fd_seq_mapping', f) = <<>>
       /\ \A g \in Fd : g # f =>
            Table!ValuesOf(fd_seq_mapping', g) = Table!ValuesOf(fd_seq_mapping, g)
  BY <1>1, <1>2, <1>4, RemoveTable
<1>17. TableInv'
  <2>1. ASSUME NEW g \in Fd, Table!ValuesOf(fd_seq_mapping', g) # <<>>
        PROVE  \E p \in Waiting' : p.fd = g /\ Table!ValuesOf(fd_seq_mapping', g) = <<p.seq_num>>
    <3>1. g # f /\ Table!ValuesOf(fd_seq_mapping', g) = Table!ValuesOf(fd_seq_mapping, g)
      BY <1>16, <2>1
    <3>2. PICK p \in Waiting : p.fd = g /\ Table!ValuesOf(fd_seq_mapping, g) = <<p.seq_num>>
      BY <2>1, <3>1 DEF QueueInv, TableInv
    <3>3. p.seq_num # x
      BY <1>3, <1>6, <3>1, <3>2, OnePerNumber DEF QueueInv
    <3> QED
      BY <1>15, <3>1, <3>2, <3>3
  <2> QED
    BY <1>9, <1>16, <2>1 DEF TableInv
<1>18. Entries[f] = <<x>> /\ Entries' = [Entries EXCEPT ![f] = Tail(@)]
  <2>1. \A g \in Fd : Entries[g] = Table!ValuesOf(fd_seq_mapping, g)
    BY DEF Entries
  <2>2. [Entries EXCEPT ![f] = Tail(@)] =
          [g \in Fd |-> IF g = f THEN Tail(Entries[g]) ELSE Entries[g]]
    BY DEF Entries
  <2>3. Tail(<<x>>) = <<>>
    OBVIOUS
  <2>4. \A g \in Fd : Table!ValuesOf(fd_seq_mapping', g) =
                        IF g = f THEN Tail(Entries[g]) ELSE Entries[g]
    BY <1>2, <1>5, <1>16, <2>1, <2>3
  <2> QED
    BY <1>2, <1>5, <2>1, <2>2, <2>4 DEF Entries
<1>19. Head(Entries[f]) = x /\ Entries[f] # <<>>
  BY <1>18
<1>20. QueueInv'
  BY <1>12, <1>13, <1>14, <1>17 DEF QueueInv
<1> QED
  BY <1>1, <1>2, <1>15, <1>18, <1>19, <1>20, SizeLess
  DEF AbstractQueue!pq_remove_player, AbstractQueue!NotFound, Entries

\* A player is added only if its descriptor has none.
LEMMA AddPlayerKeeps ==
  ASSUME QueueInv, NEW f \in setup.callers, pq_add_player(f)
  PROVE  QueueInv' /\ Unseen
<1>1. /\ pc = "idle" /\ seq_num <= setup.adds /\ cur_size < setup.capacity /\ call' = "add"
      /\ player' = [seq_num |-> seq_num, fd |-> f, player_id |-> player_id]
      /\ EnterTree("insert_node")
      /\ players' = IF players.root # NULL THEN players
                    ELSE [Tree!Allocate(players, seq_num, player') EXCEPT !.root = seq_num]
      /\ UNCHANGED <<setup, fd_seq_mapping, cur_size, seq_num, target>>
  BY DEF pq_add_player
<1>2. /\ call = "none" /\ f \in Fd /\ seq_num \in Nat \ {0} /\ setup.adds \in Nat
      /\ ~\E p \in Waiting : p.fd = f
  BY <1>1, Setup DEF QueueInv, Control, InsertPcs, RemovePcs, pq_add_player
<1>3. Waiting = Stored
  BY <1>2 DEF Waiting
<1>4. player' \in Player /\ player'.seq_num = seq_num /\ player'.fd = f
  BY <1>1, <1>2 DEF Player
<1>5. \A n \in Nodes : n < seq_num /\ Tree!Data(players, n).seq_num < seq_num
  BY <1>2 DEF QueueInv, Fresh, Limit
<1>6. RemoveInv' /\ PopInv' /\ Control'
  BY <1>1 DEF RemoveInv, PopInv, QueueInv, Control, InsertPcs, EnterTree
<1>7. CASE players.root # NULL
  <2>1. players' = players /\ node' = players.root /\ pc' = "insert_node"
    BY <1>1, <1>7 DEF EnterTree
  <2>2. Nodes' = Nodes /\ Stored' = Stored
    BY <2>1 DEF Nodes, Stored
  <2>3. player' \notin Stored
    <3>1. \A p \in Stored : p.seq_num < seq_num
      BY <1>5 DEF Stored, Nodes
    <3> QED
      BY <1>2, <1>4, <3>1
  <2>4. Waiting' = Waiting
    BY <1>1, <1>3, <2>2, <2>3 DEF Waiting
  <2>5. TreeInv'
    <3>1. PICK lo, hi, up : Ordered(players, Nodes, Numbers, lo, hi, up, setup.adds + 1)
      BY DEF QueueInv, TreeInv
    <3>2. Numbers' = Numbers
      BY <1>1, <2>1, <2>2 DEF Numbers
    <3>3. players.root \in Nodes /\ lo[players.root] = 0 /\ hi[players.root] = setup.adds + 1
      BY <1>7, <3>1, AtRoot DEF QueueInv
    <3>4. AtInsert(lo, hi)'
      BY <1>1, <1>2, <1>4, <2>1, <2>2, <3>3 DEF AtInsert
    <3>5. Place(lo, hi)'
      BY <2>1, <3>4 DEF Place, AtMinimum, AtSuccessor, AtRemove, AtUpdate
    <3> QED
      BY <1>1, <2>1, <2>2, <3>1, <3>2, <3>5 DEF TreeInv
  <2>6. Fresh'
    BY <1>1, <1>5, <2>1, <2>2 DEF Fresh, Limit
  <2>7. AddInv'
    BY <1>1, <1>2, <1>4, <2>1, <2>4 DEF AddInv
  <2>8. TableInv' /\ Entries' = Entries
    BY <1>1, <2>1, <2>4, SameTable DEF QueueInv
  <2> QED
    BY <1>1, <1>2, <1>6, <2>4, <2>5, <2>6, <2>7, <2>8 DEF QueueInv, Unseen, Size
<1>8. CASE players.root = NULL
  <2>1. /\ players' = [Tree!Allocate(players, seq_num, player') EXCEPT !.root = seq_num]
        /\ pc' = "returned"
    BY <1>1, <1>8 DEF EnterTree
  <2>2. Nodes = {} /\ Stored = {} /\ players \in TreeOver({})
    BY <1>8, NoRoot, TreeFacts DEF QueueInv
  <2>3. setup.adds + 1 \in Nat /\ seq_num < setup.adds + 1 /\ 0 < seq_num
    BY <1>1, <1>2
  <2> DEFINE key == [seq_num |-> seq_num, fd |-> f, player_id |-> player_id]
  <2>4. /\ key \in Player /\ key.seq_num = seq_num /\ player' = key
        /\ players' = Planted(players, seq_num, key)
    BY <1>1, <1>4, <2>1 DEF Planted
  <2> HIDE DEF key
  <2>5. /\ Closed(Planted(players, seq_num, key), {seq_num})
        /\ Tree!Data(Planted(players, seq_num, key), seq_num) = key
    BY <1>2, <2>2, <2>4, PlantedView
  <2>6. Nodes' = {seq_num} /\ Stored' = {player'} /\ Tree!Data(players', seq_num) = player'
    <3>1. DOMAIN players'.node = {seq_num}
      BY <2>4, <2>5 DEF Closed, TreeOver
    <3> QED
      BY <2>4, <2>5, <3>1 DEF Nodes, Stored
  <2>7. PICK lo, hi, up : Ordered(players', {seq_num}, Numbers', lo, hi, up, setup.adds + 1)
    <3> DEFINE v == [n \in {seq_num} |-> seq_num]
    <3>1. Numbers' = v
      BY <2>1, <2>4, <2>6 DEF Numbers
    <3>2. v[seq_num] = key.seq_num /\ key.seq_num < setup.adds + 1 /\ 0 < key.seq_num
      BY <2>3, <2>4
    <3> HIDE DEF v
    <3>3. InOrder(Planted(players, seq_num, key), {seq_num}, v, setup.adds + 1)
      BY <1>2, <2>2, <2>3, <2>4, <3>2, FirstNode
    <3>4. \E lo, hi, up :
            Ordered(Planted(players, seq_num, key), {seq_num}, v, lo, hi, up, setup.adds + 1)
      BY <3>3 DEF InOrder
    <3> QED
      BY <2>4, <3>1, <3>4
  <2>9. Place(lo, hi)'
    BY <2>1 DEF Place, AtInsert, AtMinimum, AtSuccessor, AtRemove, AtUpdate
  <2>10. TreeInv'
    BY <1>1, <2>6, <2>7, <2>9 DEF TreeInv
  <2>11. Waiting' = Waiting
    BY <1>1, <1>3, <2>2, <2>6 DEF Waiting
  <2>12. Fresh'
    <3>1. Limit' = seq_num + 1
      BY <1>1, <2>1 DEF Limit
    <3> QED
      BY <1>2, <1>4, <2>6, <3>1 DEF Fresh
  <2>13. AddInv'
    BY <1>1, <1>2, <1>4, <2>6, <2>11 DEF AddInv
  <2>14. TableInv' /\ Entries' = Entries
    BY <1>1, <2>1, <2>11, SameTable DEF QueueInv
  <2> QED
    BY <1>1, <1>2, <1>6, <2>10, <2>11, <2>12, <2>13, <2>14 DEF QueueInv, Unseen, Size
<1> QED
  BY <1>7, <1>8

\* compare_players orders by number.
LEMMA Comparison ==
  ASSUME NEW a, NEW b, a.seq_num \in Nat, b.seq_num \in Nat
  PROVE  /\ compare_players(a, b) >= 0 <=> b.seq_num <= a.seq_num
         /\ compare_players(a, b) = 0 <=> a.seq_num = b.seq_num
BY DEF compare_players

\* The search goes down to where the number belongs, and a leaf is hung there.
LEMMA InsertKeeps ==
  ASSUME QueueInv, insert_node
  PROVE  QueueInv' /\ Unseen
<1>1. /\ pc = "insert_node"
      /\ UNCHANGED <<setup, fd_seq_mapping, cur_size, seq_num, call, target, player>>
  BY DEF insert_node
<1>2. call = "add"
  BY <1>1 DEF QueueInv, Control, RemovePcs
<1>3. /\ player \in Player /\ player.seq_num = seq_num /\ seq_num \in Nat \ {0}
      /\ seq_num <= setup.adds /\ setup.adds \in Nat
  BY <1>2, Setup DEF QueueInv, AddInv, Control
<1>4. PICK lo, hi, up :
        Ordered(players, Nodes, Numbers, lo, hi, up, setup.adds + 1) /\ Place(lo, hi)
  BY DEF QueueInv, TreeInv
<1>5. node \in Nodes /\ lo[node] < seq_num /\ seq_num < hi[node]
  BY <1>1, <1>3, <1>4 DEF Place, AtInsert
<1>6. \A n \in Nodes : /\ n < seq_num /\ Numbers[n] = Tree!Data(players, n).seq_num
                       /\ Tree!Data(players, n).seq_num < seq_num
                       /\ Tree!Data(players, n).seq_num \in Nat
  BY <1>1, <1>2, TreeFacts DEF QueueInv, Fresh, Limit
<1>7. RemoveInv' /\ PopInv'
  BY <1>1, <1>2 DEF RemoveInv, PopInv
<1>8. player \notin Stored
  BY <1>3, <1>6 DEF Stored, Nodes
<1>9. Waiting = Stored
  BY <1>2, <1>8 DEF Waiting
<1>10. Numbers = [n \in Nodes |-> Tree!Data(players, n).seq_num]
  BY <1>1 DEF Numbers
<1> DEFINE next == Tree!Next(players, node, player)
<1>11. /\ GoesRight(players, node, player) \in BOOLEAN
       /\ GoesRight(players, node, player) <=> Numbers[node] < seq_num
       /\ next = IF Numbers[node] < seq_num THEN Tree!Right(players, node)
                 ELSE Tree!Left(players, node)
  BY <1>3, <1>5, <1>6, Comparison DEF GoesRight, Tree!Next
<1> HIDE DEF next
<1>12. CASE next # NULL
  <2>1. node' = next /\ UNCHANGED <<players, pc>>
    BY <1>12 DEF insert_node, next
  <2>2. Nodes' = Nodes /\ Stored' = Stored
    BY <2>1 DEF Nodes, Stored
  <2>3. next \in Nodes /\ lo[next] < seq_num /\ seq_num < hi[next]
    BY <1>3, <1>4, <1>5, <1>6, <1>11, <1>12, SearchStep DEF NULL, Tree!NULL
  <2>4. Place(lo, hi)'
    BY <1>1, <1>3, <2>1, <2>2, <2>3 DEF Place, AtInsert, AtMinimum, AtSuccessor, AtRemove, AtUpdate
  <2>5. Numbers' = Numbers
    BY <1>1, <2>1, <2>2 DEF Numbers
  <2>6. TreeInv'
    BY <1>1, <1>4, <2>1, <2>2, <2>4, <2>5 DEF TreeInv
  <2>7. Waiting' = Waiting
    BY <1>1, <2>1, <2>2 DEF Waiting
  <2>8. Control' /\ Fresh' /\ AddInv'
    BY <1>1, <2>1, <2>2, <2>7 DEF QueueInv, Control, Fresh, Limit, AddInv
  <2>9. TableInv' /\ Entries' = Entries
    BY <1>1, <2>1, <2>7, SameTable DEF QueueInv
  <2> QED
    BY <1>1, <1>7, <2>6, <2>7, <2>8, <2>9 DEF QueueInv, Unseen, Size
<1>13. CASE next = NULL
  <2> DEFINE u == Tree!Attach(players, node, player, seq_num)
             K == Nodes \union {seq_num}
             w == [m \in K |-> IF m = seq_num THEN seq_num ELSE Numbers[m]]
             right == GoesRight(players, node, player)
  <2>1. players' = u /\ pc' = "update" /\ node' = node
    BY <1>3, <1>13 DEF insert_node, next
  <2>2. seq_num \notin Nodes
    BY <1>3, <1>6
  <2>3. Closed(players, Nodes)
    BY <1>4 DEF Ordered
  <2>4. /\ Closed(u, K) /\ Attached(players, u, Nodes, node, right, seq_num, player)
    BY <1>3, <1>5, <2>2, <2>3, AttachView
  <2> HIDE DEF u
  <2>5. InOrder(u, K, w, setup.adds + 1)
    <3> HIDE DEF right, K
    <3>1. right \in BOOLEAN /\ (right <=> Numbers[node] < seq_num)
      BY <1>11 DEF right
    <3>2. /\ right => Tree!Right(players, node) = 0
          /\ ~right => Tree!Left(players, node) = 0
      BY <1>11, <1>13, <3>1 DEF NULL, Tree!NULL
    <3>3. \A m \in Nodes : Numbers[m] # seq_num
      BY <1>3, <1>6
    <3>4. seq_num \in Int /\ 0 < seq_num /\ seq_num < setup.adds + 1 /\ seq_num # 0
      BY <1>3
    <3> QED
      BY <1>4, <1>5, <2>2, <2>4, <3>1, <3>2, <3>3, <3>4, AttachKeepsOrder, SMTT(30) DEF K
  <2>6. DOMAIN u.node = K
    BY <2>4 DEF Closed, TreeOver
  <2>7. Nodes' = K
    BY <2>1, <2>6 DEF Nodes
  <2>8. /\ Tree!Data(u, seq_num) = player
        /\ \A m \in Nodes : Tree!Data(u, m) = Tree!Data(players, m)
    BY <2>4 DEF Attached
  <2>9. Stored' = Stored \union {player}
    BY <2>1, <2>7, <2>8 DEF Stored, Nodes
  <2>10. Numbers' = w
    <3>1. Numbers' = [m \in K |-> Tree!Data(u, m).seq_num]
      BY <2>1, <2>7 DEF Numbers
    <3>2. \A m \in K : Tree!Data(u, m).seq_num = IF m = seq_num THEN seq_num ELSE Numbers[m]
      BY <1>3, <1>6, <2>8
    <3> QED
      BY <3>1, <3>2
  <2> HIDE DEF w, K
  <2>11. TreeInv'
    <3>1. PICK lo2, hi2, up2 : Ordered(u, K, w, lo2, hi2, up2, setup.adds + 1)
      BY <2>5 DEF InOrder
    <3>2. Place(lo2, hi2)'
      BY <1>5, <2>1, <2>7 DEF K, Place, AtInsert, AtMinimum, AtSuccessor, AtRemove, AtUpdate
    <3> QED
      BY <1>1, <2>1, <2>7, <2>10, <3>1, <3>2 DEF TreeInv
  <2>12. Waiting' = Waiting
    BY <1>1, <1>2, <1>8, <1>9, <2>9 DEF Waiting
  <2>13. Fresh'
    <3>1. Limit' = seq_num + 1
      BY <1>1, <1>2, <2>1 DEF Limit
    <3>2. \A m \in K : m < seq_num + 1 /\ Tree!Data(u, m).seq_num < seq_num + 1
      <4> TAKE m \in K
      <4>1. CASE m = seq_num
        BY <1>3, <2>8, <4>1
      <4>2. CASE m # seq_num
        <5>1. m \in Nodes /\ Tree!Data(u, m) = Tree!Data(players, m)
          BY <2>8, <4>2 DEF K
        <5>2. m \in Nat
          BY <2>3, <5>1 DEF Closed
        <5> QED
          BY <1>3, <1>6, <5>1, <5>2
      <4> QED
        BY <4>1, <4>2
    <3> QED
      BY <2>1, <2>7, <3>1, <3>2 DEF Fresh
  <2>14. Control' /\ AddInv'
    BY <1>1, <1>2, <2>1, <2>9, <2>12 DEF QueueInv, Control, InsertPcs, AddInv
  <2>15. TableInv' /\ Entries' = Entries
    BY <1>1, <2>1, <2>12, SameTable DEF QueueInv
  <2> QED
    BY <1>1, <1>7, <2>11, <2>12, <2>13, <2>14, <2>15 DEF QueueInv, Unseen, Size
<1> QED
  BY <1>12, <1>13

\* Heights and rotations on the way up, for whatever key is read.
LEMMA UpdateKeeps ==
  ASSUME QueueInv, Update
  PROVE  QueueInv' /\ Unseen
<1>1. /\ pc = "update" /\ UNCHANGED <<setup, fd_seq_mapping, cur_size, seq_num, call, player>>
  BY DEF Update
<1>2. PICK lo, hi, up :
        Ordered(players, Nodes, Numbers, lo, hi, up, setup.adds + 1) /\ Place(lo, hi)
  BY DEF QueueInv, TreeInv
<1>3. node \in Nodes /\ call \in {"add", "remove", "pop"}
  BY <1>1, <1>2 DEF Place, AtUpdate, QueueInv, Control
<1> DEFINE t == Tree!Measure(players, node)
<1>4. /\ Ordered(t, Nodes, Numbers, lo, hi, up, setup.adds + 1)
      /\ SamePointers(players, t, Nodes)
  BY <1>2, <1>3, MeasureOrdered
<1>5. PICK key \in Keys :
        IF Tree!Faults(t, node, key)
        THEN pc' = "crash" /\ UNCHANGED <<players, node, target>>
        ELSE /\ players' = Tree!rebalance(t, node, key)
             /\ target' = IF node = target THEN NULL ELSE target
             /\ IF node = players.root THEN pc' = "returned" /\ node' = NULL
                ELSE node' = Tree!Parent(players, node) /\ UNCHANGED pc
  BY DEF Update
<1> HIDE DEF t
<1>6. ASSUME Stored' = Stored, Nodes' = Nodes, pc' \in {"update", "returned", "crash"},
             \A n \in Nodes : Tree!Data(players', n) = Tree!Data(players, n), TreeInv'
      PROVE  QueueInv' /\ Unseen
  <2>1. Waiting' = Waiting
    BY <1>1, <1>6 DEF Waiting
  <2>2. Control' /\ AddInv'
    BY <1>1, <1>3, <1>6, <2>1 DEF QueueInv, Control, InsertPcs, RemovePcs, AddInv
  <2>3. Fresh'
    BY <1>1, <1>6 DEF QueueInv, Fresh, Limit
  <2>4. RemoveInv' /\ PopInv'
    BY <1>1, <1>6 DEF QueueInv, RemoveInv, PopInv
  <2>5. TableInv' /\ Entries' = Entries
    BY <1>1, <1>6, <2>1, SameTable DEF QueueInv
  <2> QED
    BY <1>1, <1>6, <2>1, <2>2, <2>3, <2>4, <2>5 DEF QueueInv, Unseen, Size
<1>7. CASE Tree!Faults(t, node, key)
  <2>1. pc' = "crash" /\ UNCHANGED <<players, node, target>>
    BY <1>5, <1>7
  <2>2. TreeInv'
    BY <1>1, <2>1, SameTree DEF QueueInv
  <2> QED
    BY <1>6, <2>1, <2>2 DEF Stored, Nodes
<1>8. CASE ~Tree!Faults(t, node, key)
  <2> DEFINE u == Tree!rebalance(t, node, key)
  <2>1. InOrder(u, Nodes, Numbers, setup.adds + 1) /\ SameData(t, u, Nodes)
    BY <1>3, <1>4, <1>8, RebalanceKeepsOrder
  <2> HIDE DEF u
  <2>2. PICK lo2, hi2, up2 : Ordered(u, Nodes, Numbers, lo2, hi2, up2, setup.adds + 1)
    BY <2>1 DEF InOrder
  <2>3. DOMAIN u.node = Nodes
    BY <2>2 DEF Ordered, Closed, TreeOver
  <2>4. \A n \in Nodes : Tree!Data(u, n) = Tree!Data(players, n)
    BY <1>4, <2>1 DEF SameData, SamePointers
  <2>5. /\ players' = u
        /\ \/ pc' = "returned"
           \/ pc' = "update" /\ node # players.root /\ node' = Tree!Parent(players, node)
    BY <1>1, <1>5, <1>8 DEF u
  <2>6. Nodes' = Nodes
    BY <2>3, <2>5 DEF Nodes
  <2>7. Stored' = Stored
    BY <2>4, <2>5, <2>6 DEF Stored, Nodes
  <2>8. Numbers' = Numbers
    BY <1>1, <2>4, <2>5, <2>6 DEF Numbers
  <2>9. pc' = "update" => node' \in Nodes
    BY <1>2, <1>3, <2>5, ParentIs
  <2>10. Place(lo2, hi2)'
    BY <2>5, <2>6, <2>9 DEF Place, AtInsert, AtMinimum, AtSuccessor, AtRemove, AtUpdate
  <2>11. TreeInv'
    BY <1>1, <2>2, <2>5, <2>6, <2>8, <2>10 DEF TreeInv
  <2> QED
    BY <1>6, <2>4, <2>5, <2>6, <2>7, <2>11
<1> QED
  BY <1>7, <1>8

\* A node takes over the data of another one.
LEMMA GiveView ==
  ASSUME NEW L, NEW t \in TreeOver(L), NEW n \in L, NEW d \in Player
  PROVE  /\ [t EXCEPT !.node[n].data = d] \in TreeOver(L)
         /\ [t EXCEPT !.node[n].data = d].root = t.root
         /\ \A m \in L :
              /\ Tree!Left([t EXCEPT !.node[n].data = d], m) = Tree!Left(t, m)
              /\ Tree!Right([t EXCEPT !.node[n].data = d], m) = Tree!Right(t, m)
              /\ Tree!Data([t EXCEPT !.node[n].data = d], m) =
                   IF m = n THEN d ELSE Tree!Data(t, m)
<1> DEFINE u == [t EXCEPT !.node[n].data = d]
<1>1. t \in [root : Nat, node : [L -> TreeNode]]
  BY DEF TreeOver
<1>2. [t.node[n] EXCEPT !.data = d] \in TreeNode
  BY <1>1 DEF TreeNode
<1>3. u \in TreeOver(L) /\ u.root = t.root
  BY <1>1, <1>2 DEF TreeOver
<1>4. \A m \in L : /\ u.node[m].left = t.node[m].left /\ u.node[m].right = t.node[m].right
                   /\ u.node[m].data = IF m = n THEN d ELSE t.node[m].data
  BY <1>1 DEF TreeNode
<1> HIDE DEF u
<1>5. \A m \in L : /\ Tree!Left(u, m) = Tree!Left(t, m) /\ Tree!Right(u, m) = Tree!Right(t, m)
                   /\ Tree!Data(u, m) = IF m = n THEN d ELSE Tree!Data(t, m)
  BY <1>4 DEF Tree!Left, Tree!Right, Tree!Data
<1> QED
  BY <1>3, <1>5 DEF u

\* The next player after target is the first one right of it.
LEMMA SuccessorKeeps ==
  ASSUME QueueInv, Successor
  PROVE  QueueInv' /\ Unseen
<1>1. /\ pc = "successor"
      /\ UNCHANGED <<setup, fd_seq_mapping, cur_size, seq_num, call, target, player>>
  BY DEF Successor
<1>2. PICK lo, hi, up :
        Ordered(players, Nodes, Numbers, lo, hi, up, setup.adds + 1) /\ Place(lo, hi)
  BY DEF QueueInv, TreeInv
<1>3. /\ node \in Nodes /\ target \in Nodes /\ Tree!Right(players, target) # 0
      /\ Tree!Data(players, target).seq_num = player.seq_num
      /\ lo[node] = player.seq_num /\ hi[node] <= hi[target]
  BY <1>1, <1>2 DEF Place, AtSuccessor
<1>4. call \in {"remove", "pop"} /\ target # NULL
  BY <1>1, <1>3, TreeFacts DEF QueueInv, Control, InsertPcs, NULL, Tree!NULL
<1>5. \A n \in Nodes : /\ Numbers[n] = Tree!Data(players, n).seq_num
                       /\ lo[n] \in Int /\ hi[n] \in Int /\ Numbers[n] \in Int
                       /\ lo[n] < Numbers[n] /\ Numbers[n] < hi[n]
  BY <1>1, <1>2, TreeFacts DEF QueueInv, Ordered, Intervals
<1>6. CASE Tree!Left(players, node) # NULL
  <2>1. node' = Tree!Left(players, node) /\ UNCHANGED <<players, pc>>
    BY <1>6 DEF Successor
  <2>2. Nodes' = Nodes /\ Stored' = Stored
    BY <2>1 DEF Nodes, Stored
  <2>3. Numbers' = Numbers
    BY <1>1, <2>1, <2>2 DEF Numbers
  <2>4. node' \in Nodes /\ lo[node'] = player.seq_num /\ hi[node'] <= hi[target]
    <3>1. node' \in Nodes
      BY <1>3, <1>6, <2>1, TreeFacts DEF QueueInv, NULL, Tree!NULL
    <3>2. lo[node'] = lo[node] /\ hi[node'] = Numbers[node]
      BY <1>2, <1>3, <1>6, <2>1 DEF Ordered, LeftSide, NULL, Tree!NULL
    <3> QED
      BY <1>3, <1>5, <3>1, <3>2
  <2>5. Place(lo, hi)'
    BY <1>1, <1>3, <2>1, <2>2, <2>4 DEF Place, AtInsert, AtMinimum, AtSuccessor, AtRemove, AtUpdate
  <2>6. TreeInv'
    BY <1>1, <1>2, <2>1, <2>2, <2>3, <2>5 DEF TreeInv
  <2>7. Waiting' = Waiting
    BY <1>1, <2>1, <2>2 DEF Waiting
  <2>8. Control' /\ Fresh' /\ AddInv' /\ RemoveInv' /\ PopInv'
    BY <1>1, <1>4, <2>1, <2>2
    DEF QueueInv, Control, Fresh, Limit, AddInv, RemoveInv, PopInv
  <2>9. TableInv' /\ Entries' = Entries
    BY <1>1, <2>1, <2>7, SameTable DEF QueueInv
  <2> QED
    BY <1>1, <2>6, <2>7, <2>8, <2>9 DEF QueueInv, Unseen, Size
<1>7. CASE Tree!Left(players, node) = NULL
  <2> DEFINE d == Tree!Data(players, node)
             u == [players EXCEPT !.node[target].data = d]
  <2>1. players' = u /\ pc' = "remove_node" /\ node' = Tree!Right(players, target)
    BY <1>7 DEF Successor
  <2>2. d \in Player /\ players \in TreeOver(Nodes) /\ d.seq_num = Numbers[node]
    BY <1>3, <1>5, TreeFacts DEF QueueInv
  <2>3. /\ u \in TreeOver(Nodes) /\ u.root = players.root
        /\ \A m \in Nodes :
             /\ Tree!Left(u, m) = Tree!Left(players, m) /\ Tree!Right(u, m) = Tree!Right(players, m)
             /\ Tree!Data(u, m) = IF m = target THEN d ELSE Tree!Data(players, m)
    <3> HIDE DEF d
    <3> QED
      BY <1>3, <2>2, GiveView
  <2> HIDE DEF u
  <2>4. DOMAIN u.node = Nodes
    BY <2>3 DEF TreeOver
  <2>5. Nodes' = Nodes
    BY <2>1, <2>4 DEF Nodes
  <2>6. node # target
    BY <1>3, <1>5
  <2>7. Numbers' = Numbers
    <3>1. \A m \in Nodes : (IF m = target THEN player.seq_num ELSE Tree!Data(u, m).seq_num) =
                             Tree!Data(players, m).seq_num
      BY <1>3, <2>3
    <3>2. Numbers' = [m \in Nodes |-> IF m = target THEN player.seq_num
                                      ELSE Tree!Data(u, m).seq_num]
      BY <1>1, <2>1, <2>5 DEF Numbers
    <3>3. Numbers = [m \in Nodes |-> Tree!Data(players, m).seq_num]
      BY <1>1 DEF Numbers
    <3> QED
      BY <3>1, <3>2, <3>3
  <2>8. Ordered(u, Nodes, Numbers, lo, hi, up, setup.adds + 1)
    BY <1>2, <2>3, SamePointersOrdered
  <2>9. \A m \in Nodes : Numbers[m] <= player.seq_num \/ Numbers[node] <= Numbers[m]
    BY <1>2, <1>3, <1>7 DEF Ordered, LeftSide, NULL, Tree!NULL
  <2>10. /\ node' \in Nodes /\ lo[node'] = player.seq_num /\ hi[node'] = hi[target]
    <3>1. node' \in Nodes
      BY <1>3, <2>1, TreeFacts DEF QueueInv
    <3>2. lo[node'] = Numbers[target] /\ hi[node'] = hi[target]
      BY <1>2, <1>3, <2>1 DEF Ordered, RightSide
    <3> QED
      BY <1>3, <1>5, <3>1, <3>2
  <2>11. Sought' = Numbers[node]
    BY <1>1, <1>3, <1>4, <2>1, <2>2, <2>3 DEF Sought
  <2>12. AtRemove(lo, hi)'
    <3>1. lo[node'] < Numbers[node] /\ Numbers[node] < hi[node'] /\ player.seq_num <= lo[node']
      BY <1>3, <1>5, <2>10
    <3>2. Tree!Data(u, node) = Tree!Data(u, target)
      BY <1>3, <2>3, <2>6
    <3> QED
      BY <1>1, <1>3, <2>1, <2>5, <2>6, <2>7, <2>9, <2>10, <2>11, <3>1, <3>2 DEF AtRemove
  <2>13. Place(lo, hi)'
    BY <2>1, <2>12 DEF Place, AtInsert, AtMinimum, AtSuccessor, AtUpdate
  <2>14. TreeInv'
    BY <1>1, <2>1, <2>5, <2>7, <2>8, <2>13 DEF TreeInv
  <2>15. /\ \A p \in Stored' : p \in Stored
         /\ \A p \in Stored : p.seq_num # player.seq_num => p \in Stored'
    <3>1. Stored = {Tree!Data(players, m) : m \in Nodes}
      BY DEF Stored, Nodes
    <3>2. Stored' = {Tree!Data(u, m) : m \in Nodes}
      BY <2>1, <2>5 DEF Stored, Nodes
    <3>3. \A m \in Nodes : Tree!Data(u, m) \in Stored
      BY <1>3, <2>3, <3>1
    <3>4. ASSUME NEW m \in Nodes, Tree!Data(players, m).seq_num # player.seq_num
          PROVE  Tree!Data(players, m) \in Stored'
      <4>1. Tree!Data(u, m) = Tree!Data(players, m)
        BY <1>3, <2>3, <3>4
      <4> QED
        BY <3>2, <4>1
    <3> QED
      BY <3>1, <3>2, <3>3, <3>4
  <2>16. Waiting' = Waiting
    <3>1. CASE call = "remove"
      BY <1>1, <2>15, <3>1 DEF Waiting
    <3>2. CASE call = "pop"
      <4>1. player \in Stored
        BY <1>1, <3>2 DEF QueueInv, PopInv
      <4>2. \A p \in Stored : p = player \/ p \in Stored'
        BY <2>15, <4>1, OnePerNumber DEF QueueInv
      <4>3. Waiting = Stored \union {player} /\ Waiting' = Stored' \union {player}
        BY <1>1, <2>1, <3>2 DEF Waiting
      <4> QED
        BY <2>15, <4>1, <4>2, <4>3
    <3> QED
      BY <1>4, <3>1, <3>2
  <2>17. Control' /\ AddInv' /\ RemoveInv' /\ PopInv'
    BY <1>1, <1>4, <2>1, <2>15
    DEF QueueInv, Control, RemovePcs, AddInv, RemoveInv, PopInv
  <2>18. Fresh'
    <3>1. Limit' = Limit
      BY <1>1, <1>4 DEF Limit
    <3>2. \A m \in Nodes : m < Limit /\ Tree!Data(u, m).seq_num < Limit
      BY <1>3, <2>3 DEF QueueInv, Fresh
    <3> QED
      BY <2>1, <2>5, <3>1, <3>2 DEF Fresh
  <2>19. TableInv' /\ Entries' = Entries
    BY <1>1, <2>1, <2>16, SameTable DEF QueueInv
  <2> QED
    BY <1>1, <2>14, <2>16, <2>17, <2>18, <2>19 DEF QueueInv, Unseen, Size
<1> QED
  BY <1>6, <1>7

\* Where remove_node is: below target the node it looks at is another one.
LEMMA AtRemoveNode ==
  ASSUME QueueInv, pc = "remove_node", NEW lo, NEW hi, NEW up,
         Ordered(players, Nodes, Numbers, lo, hi, up, setup.adds + 1), Place(lo, hi)
  PROVE  /\ node \in Nodes /\ Sought \in Nat /\ call \in {"remove", "pop"}
         /\ lo[node] < Sought /\ Sought < hi[node]
         /\ Numbers[node] = Tree!Data(players, node).seq_num /\ Numbers[node] \in Nat
         /\ player \in Player /\ player.seq_num \in Nat
         /\ target = NULL => Sought = player.seq_num
         /\ target # NULL =>
              /\ target \in Nodes /\ node # target /\ player.seq_num <= lo[node]
              /\ Numbers[target] = player.seq_num
              /\ Sought = Tree!Data(players, target).seq_num
              /\ \A m \in Nodes : Numbers[m] <= player.seq_num \/ Sought <= Numbers[m]
              /\ \E s \in Nodes : /\ s # target
                                  /\ Tree!Data(players, s) = Tree!Data(players, target)
<1>1. /\ node \in Nodes /\ lo[node] < Sought /\ Sought < hi[node]
      /\ target # NULL =>
           /\ target \in Nodes /\ player.seq_num <= lo[node]
           /\ \A m \in Nodes : Numbers[m] <= player.seq_num \/ Sought <= Numbers[m]
           /\ \E s \in Nodes : /\ s # target
                               /\ Tree!Data(players, s) = Tree!Data(players, target)
  BY DEF Place, AtRemove
<1>2. call \in {"remove", "pop"}
  BY DEF QueueInv, Control, InsertPcs
<1>3. player \in Player /\ player.seq_num \in Nat
  BY <1>2 DEF QueueInv, RemoveInv, Player
<1>4. /\ target = NULL => Sought = player.seq_num
      /\ target # NULL => /\ Sought = Tree!Data(players, target).seq_num
                          /\ Numbers[target] = player.seq_num
  BY <1>1, TreeFacts DEF Sought, QueueInv
<1>5. Sought \in Nat
  BY <1>1, <1>3, <1>4, TreeFacts DEF QueueInv
<1>6. lo[node] \in Int /\ lo[node] < Numbers[node] /\ Numbers[node] \in Nat
  BY <1>1, <1>3, TreeFacts DEF QueueInv, Ordered, Intervals
<1>7. target # NULL => node # target
  BY <1>1, <1>3, <1>4, <1>6
<1>8. node # target
  BY <1>1, <1>7, TreeFacts DEF QueueInv, NULL, Tree!NULL
<1>9. Numbers[node] = Tree!Data(players, node).seq_num
  BY <1>1, <1>8, TreeFacts DEF QueueInv
<1> QED
  BY <1>1, <1>2, <1>3, <1>4, <1>5, <1>6, <1>7, <1>9

\* A step down, or the end of the way.
LEMMA SearchKeeps ==
  ASSUME QueueInv, pc = "remove_node", pc' \in {"remove_node", "update"},
         UNCHANGED <<setup, players, fd_seq_mapping, cur_size, seq_num, call, target, player>>,
         NEW lo, NEW hi, NEW up,
         Ordered(players, Nodes, Numbers, lo, hi, up, setup.adds + 1), Place(lo, hi),
         node' \in Nodes,
         pc' = "remove_node" =>
           lo[node] <= lo[node'] /\ lo[node'] < Sought /\ Sought < hi[node'],
         pc' = "update" => target = NULL /\ \A n \in Nodes : Numbers[n] # Sought
  PROVE  QueueInv' /\ Unseen
<1>1. /\ call \in {"remove", "pop"} /\ player.seq_num \in Nat /\ node \in Nodes
      /\ target = NULL => Sought = player.seq_num
      /\ target # NULL => target \in Nodes /\ player.seq_num <= lo[node]
  BY AtRemoveNode
<1>2. Nodes' = Nodes /\ Stored' = Stored
  BY DEF Nodes, Stored
<1>3. Waiting' = Waiting
  BY <1>1, <1>2 DEF Waiting
<1>4. \A n \in Nodes : n # 0 /\ lo[n] \in Int
  BY TreeFacts DEF QueueInv, Ordered, Intervals
<1>5. Numbers' = Numbers
  <2>1. CASE pc' = "remove_node"
    BY <1>2, <2>1 DEF Numbers
  <2>2. CASE pc' = "update"
    <3>1. \A n \in Nodes : n # target
      BY <1>4, <2>2 DEF NULL, Tree!NULL
    <3>2. Numbers' = [n \in Nodes |-> Tree!Data(players, n).seq_num]
      BY <1>2, <2>2 DEF Numbers
    <3>3. Numbers = [n \in Nodes |-> Tree!Data(players, n).seq_num]
      BY <3>1 DEF Numbers
    <3> QED
      BY <3>2, <3>3
  <2> QED
    BY <2>1, <2>2
<1>6. AtRemove(lo, hi)'
  <2> SUFFICES ASSUME pc' = "remove_node"
               PROVE  AtRemove(lo, hi)'
    BY DEF AtRemove
  <2>1. Sought' = Sought
    BY DEF Sought
  <2>2. target # NULL => player.seq_num <= lo[node']
    BY <1>1, <1>4
  <2>3. AtRemove(lo, hi)
    BY DEF Place
  <2> QED
    BY <1>2, <1>5, <2>1, <2>2, <2>3 DEF AtRemove
<1>7. TreeInv'
  <2>1. Place(lo, hi)'
    BY <1>2, <1>6 DEF Place, AtInsert, AtMinimum, AtSuccessor, AtUpdate
  <2> QED
    BY <1>2, <1>5, <2>1 DEF TreeInv
<1>8. pc' = "update" => \A p \in Stored : p.seq_num # player.seq_num
  <2> SUFFICES ASSUME pc' = "update", NEW p \in Stored
               PROVE  p.seq_num # player.seq_num
    OBVIOUS
  <2>1. PICK n \in Nodes : p.seq_num = Numbers[n]
    BY OnePerNumber DEF QueueInv
  <2> QED
    BY <1>1, <2>1
<1>9. Control' /\ Fresh' /\ AddInv'
  BY <1>1, <1>2 DEF QueueInv, Control, RemovePcs, Fresh, Limit, AddInv
<1>10. RemoveInv' /\ PopInv'
  BY <1>1, <1>2, <1>8 DEF QueueInv, RemoveInv, PopInv
<1>11. TableInv' /\ Entries' = Entries
  BY <1>3, SameTable DEF QueueInv
<1> QED
  BY <1>3, <1>7, <1>9, <1>10, <1>11 DEF QueueInv, Unseen, Size

\* The node is found and has two children.
LEMMA DescendKeeps ==
  ASSUME QueueInv, pc = "remove_node", pc' = "successor",
         UNCHANGED <<setup, players, fd_seq_mapping, cur_size, seq_num, call, player>>,
         NEW lo, NEW hi, NEW up,
         Ordered(players, Nodes, Numbers, lo, hi, up, setup.adds + 1), Place(lo, hi),
         target = NULL, Numbers[node] = Sought, ~Tree!OneChild(players, node),
         target' = node, node' = Tree!Right(players, node)
  PROVE  QueueInv' /\ Unseen
<1>1. /\ call \in {"remove", "pop"} /\ player.seq_num \in Nat /\ node \in Nodes
      /\ Numbers[node] = player.seq_num
      /\ Tree!Data(players, node).seq_num = player.seq_num
  BY AtRemoveNode
<1>2. Nodes' = Nodes /\ Stored' = Stored
  BY DEF Nodes, Stored
<1>3. Waiting' = Waiting
  BY <1>1, <1>2 DEF Waiting
<1>4. Numbers' = Numbers
  <2>1. \A n \in Nodes : n # target
    BY TreeFacts DEF QueueInv, NULL, Tree!NULL
  <2>2. Numbers' = [n \in Nodes |-> Tree!Data(players, n).seq_num]
    BY <1>2 DEF Numbers
  <2>3. Numbers = [n \in Nodes |-> Tree!Data(players, n).seq_num]
    BY <2>1 DEF Numbers
  <2> QED
    BY <2>2, <2>3
<1>5. /\ node' \in Nodes /\ node' # 0 /\ lo[node'] = player.seq_num /\ hi[node'] = hi[node]
  <2>1. Tree!Right(players, node) # 0
    BY DEF Tree!OneChild, Tree!NULL
  <2>2. node' \in Nodes
    BY <1>1, <2>1, TreeFacts DEF QueueInv
  <2>3. lo[node'] = Numbers[node] /\ hi[node'] = hi[node]
    BY <1>1, <2>1 DEF Ordered, RightSide
  <2> QED
    BY <1>1, <2>1, <2>2, <2>3
<1>6. TreeInv'
  <2>1. hi[node] \in Int
    BY <1>1 DEF Ordered, Intervals
  <2>2. AtSuccessor(lo, hi)'
    BY <1>1, <1>2, <1>5, <2>1 DEF AtSuccessor
  <2>3. Place(lo, hi)'
    BY <2>2 DEF Place, AtInsert, AtMinimum, AtRemove, AtUpdate
  <2> QED
    BY <1>2, <1>4, <2>3 DEF TreeInv
<1>7. Control' /\ Fresh' /\ AddInv'
  BY <1>1, <1>2 DEF QueueInv, Control, RemovePcs, Fresh, Limit, AddInv
<1>8. RemoveInv' /\ PopInv'
  BY <1>1, <1>2 DEF QueueInv, RemoveInv, PopInv
<1>9. TableInv' /\ Entries' = Entries
  BY <1>3, SameTable DEF QueueInv
<1> QED
  BY <1>3, <1>6, <1>7, <1>8, <1>9 DEF QueueInv, Unseen, Size

\* The node is found and leaves the tree: the player's, or below target the one
\* that target has its data from.
LEMMA UnlinkKeeps ==
  ASSUME QueueInv, pc = "remove_node",
         UNCHANGED <<setup, fd_seq_mapping, cur_size, seq_num, call, target, player>>,
         NEW lo, NEW hi, NEW up,
         Ordered(players, Nodes, Numbers, lo, hi, up, setup.adds + 1), Place(lo, hi),
         Numbers[node] = Sought, Tree!OneChild(players, node),
         players' = Tree!Unlink(players, node),
         pc' = "returned" \/
           (pc' = "update" /\ node # players.root /\ node' = Tree!Parent(players, node))
  PROVE  QueueInv' /\ Unseen
<1> DEFINE K == Nodes \ {node}
           u == Tree!Unlink(players, node)
           top == setup.adds + 1
<1>1. /\ node \in Nodes /\ Sought \in Nat /\ call \in {"remove", "pop"} /\ lo[node] < Sought
      /\ Numbers[node] = Tree!Data(players, node).seq_num
      /\ player.seq_num \in Nat
      /\ target = NULL => Sought = player.seq_num
  BY AtRemoveNode
<1>2. ASSUME target # NULL
      PROVE  /\ target \in K /\ player.seq_num <= lo[node] /\ Numbers[target] = player.seq_num
             /\ Sought = Tree!Data(players, target).seq_num
             /\ \A m \in Nodes : Numbers[m] <= player.seq_num \/ Sought <= Numbers[m]
             /\ \E s \in Nodes : /\ s # target
                                 /\ Tree!Data(players, s) = Tree!Data(players, target)
  BY <1>2, AtRemoveNode
<1>3. InOrder(u, K, Numbers, top) /\ SameData(players, u, K)
  BY <1>1, UnlinkKeepsOrder
<1> HIDE DEF u
<1>4. PICK lo2, hi2, up2 : Ordered(u, K, Numbers, lo2, hi2, up2, top)
  BY <1>3 DEF InOrder
<1>5. u \in TreeOver(K) /\ DOMAIN u.node = K
  BY <1>4 DEF Ordered, Closed, TreeOver
<1>6. players' = u /\ Nodes' = K
  BY <1>5 DEF u, Nodes
<1>7. \A n \in Nodes : /\ n # 0 /\ Numbers[n] \in Nat /\ lo[n] \in Int
                       /\ n # target => Numbers[n] = Tree!Data(players, n).seq_num
                       /\ Numbers[n] < top
                       /\ n # node => Numbers[n] # Numbers[node]
  <2>1. \A n \in Nodes : n # node => Numbers[n] # Numbers[node]
    BY <1>1, Distinct
  <2> QED
    BY <2>1, TreeFacts DEF QueueInv, Ordered, Intervals
<1>8. \A n \in K : Tree!Data(u, n) = Tree!Data(players, n)
  BY <1>3 DEF SameData
<1>9. \A n \in K : Numbers'[n] = Tree!Data(players, n).seq_num
  BY <1>6, <1>8 DEF Numbers
<1>10. player.seq_num < Sought \/ target = NULL
  BY <1>1, <1>2, <1>7
<1>11. InOrder(u, K, Numbers', top)
  <2>1. CASE target = NULL
    <3>1. \A n \in K : Numbers'[n] = Numbers[n]
      BY <1>7, <1>9, <2>1 DEF NULL, Tree!NULL
    <3> DEFINE w == Numbers'
    <3> HIDE DEF w, K, top
    <3>2. Ordered(u, K, w, lo2, hi2, up2, top)
      BY <1>4, <1>5, <3>1, SamePointersOrdered DEF w
    <3> QED
      BY <3>2 DEF InOrder, w
  <2>2. CASE target # NULL
    <3>1. Numbers'[target] = Sought /\ \A n \in K \ {target} : Numbers'[n] = Numbers[n]
      BY <1>2, <1>7, <1>9, <2>2
    <3>2. \A m \in K : Numbers[m] <= Numbers[target] \/ Sought < Numbers[m]
      <4> TAKE m \in K
      <4>1. Numbers[m] <= player.seq_num \/ Sought <= Numbers[m]
        BY <1>2, <2>2
      <4>2. Numbers[m] # Sought /\ Numbers[m] \in Nat
        BY <1>7
      <4> QED
        BY <1>1, <1>2, <2>2, <4>1, <4>2
    <3>3. Numbers[target] < Sought /\ Sought < top /\ Sought \in Int
      BY <1>1, <1>2, <1>7, <1>10, <2>2
    <3> DEFINE w == Numbers'
    <3>4. w[target] = Sought /\ \A n \in K \ {target} : w[n] = Numbers[n]
      BY <3>1
    <3>5. target \in K
      BY <1>2, <2>2
    <3> HIDE DEF w, K, top
    <3>6. InOrder(u, K, w, top)
      BY <1>4, <3>2, <3>3, <3>4, <3>5, RenameKeepsOrder
    <3> QED
      BY <3>6 DEF w
  <2> QED
    BY <2>1, <2>2
<1>12. Stored' = {p \in Stored : p.seq_num # player.seq_num}
  <2>1. Stored = {Tree!Data(players, m) : m \in Nodes}
    BY DEF Stored, Nodes
  <2>2. Stored' = {Tree!Data(players, m) : m \in K}
    <3>1. Stored' = {Tree!Data(u, m) : m \in K}
      BY <1>5, <1>6 DEF Stored
    <3> QED
      BY <1>8, <3>1
  <2>3. ASSUME NEW m \in K PROVE Tree!Data(players, m).seq_num # player.seq_num
    <3>1. CASE target = NULL
      <4>1. m # target
        BY <1>7, <3>1 DEF NULL, Tree!NULL
      <4> QED
        BY <1>1, <1>7, <3>1, <4>1
    <3>2. CASE target # NULL /\ m = target
      BY <1>1, <1>2, <1>10, <3>2
    <3>3. CASE target # NULL /\ m # target
      <4>1. Numbers[m] = Numbers[target] => m = target
        BY <1>2, <3>3, Distinct
      <4> QED
        BY <1>2, <1>7, <3>3, <4>1
    <3> QED
      BY <3>1, <3>2, <3>3
  <2>4. ASSUME Tree!Data(players, node).seq_num # player.seq_num
        PROVE  \E m \in K : Tree!Data(players, m) = Tree!Data(players, node)
    <3>1. target # NULL
      BY <1>1, <2>4
    <3>2. PICK s \in Nodes : s # target /\ Tree!Data(players, s) = Tree!Data(players, target)
      BY <1>2, <3>1
    <3>3. Numbers[s] = Sought
      BY <1>2, <1>7, <3>1, <3>2
    <3>4. s = node
      BY <1>7, <3>2, <3>3
    <3> QED
      BY <1>2, <3>1, <3>2, <3>4
  <2>5. \A m \in Nodes : m \in K \/ m = node
    OBVIOUS
  <2>6. ASSUME NEW p \in Stored, p.seq_num # player.seq_num PROVE p \in Stored'
    <3>1. PICK m \in Nodes : p = Tree!Data(players, m)
      BY <2>1
    <3> QED
      BY <2>2, <2>4, <2>5, <2>6, <3>1
  <2>7. ASSUME NEW p \in Stored' PROVE p \in Stored /\ p.seq_num # player.seq_num
    BY <2>1, <2>2, <2>3
  <2> QED
    BY <2>6, <2>7
<1>13. Waiting' = Waiting
  <2>1. CASE call = "remove"
    BY <1>12, <2>1 DEF Waiting
  <2>2. CASE call = "pop"
    <3>1. Waiting = Stored \union {player} /\ Waiting' = Stored' \union {player}
      BY <2>2 DEF Waiting
    <3>2. ASSUME NEW p \in Stored, p.seq_num = player.seq_num PROVE p = player
      <4>1. CASE target = NULL
        <5>1. player \in Stored
          BY <2>2, <4>1 DEF QueueInv, PopInv
        <5> QED
          BY <3>2, <5>1, OnePerNumber DEF QueueInv
      <4>2. CASE target # NULL
        <5>1. PICK m \in Nodes : p = Tree!Data(players, m) /\ p.seq_num = Numbers[m]
          BY OnePerNumber DEF QueueInv
        <5>2. m = target
          BY <1>2, <3>2, <4>2, <5>1, Distinct
        <5> QED
          BY <1>1, <1>2, <1>10, <3>2, <4>2, <5>1, <5>2
      <4> QED
        BY <4>1, <4>2
    <3> QED
      BY <1>12, <3>1, <3>2
  <2> QED
    BY <1>1, <2>1, <2>2
<1>14. TreeInv'
  <2>1. PICK lo3, hi3, up3 : Ordered(u, K, Numbers', lo3, hi3, up3, top)
    BY <1>11 DEF InOrder
  <2>2. pc' = "update" => node' \in K
    BY <1>1, ParentIs
  <2>3. Place(lo3, hi3)'
    BY <1>6, <2>2 DEF Place, AtInsert, AtMinimum, AtSuccessor, AtRemove, AtUpdate
  <2> QED
    BY <1>6, <2>1, <2>3 DEF TreeInv
<1>15. Control' /\ AddInv'
  BY <1>1 DEF QueueInv, Control, RemovePcs, AddInv
<1>16. Fresh'
  <2>1. Limit' = Limit
    BY <1>1 DEF Limit
  <2>2. \A m \in K : m < Limit /\ Tree!Data(u, m).seq_num < Limit
    BY <1>8 DEF QueueInv, Fresh
  <2> QED
    BY <1>6, <2>1, <2>2 DEF Fresh
<1>17. RemoveInv' /\ PopInv'
  BY <1>1, <1>12 DEF QueueInv, RemoveInv, PopInv
<1>18. TableInv' /\ Entries' = Entries
  BY <1>13, SameTable DEF QueueInv
<1> QED
  BY <1>13, <1>14, <1>15, <1>16, <1>17, <1>18 DEF QueueInv, Unseen, Size

\* One call of remove_node on its way down.
LEMMA RemoveNodeKeeps ==
  ASSUME QueueInv, remove_node
  PROVE  QueueInv' /\ Unseen
<1> DEFINE key == IF target = NULL THEN player ELSE Tree!Data(players, target)
           found == compare_players(key, Tree!Data(players, node)) = 0
           next == Tree!Next(players, node, key)
<1>1. /\ pc = "remove_node"
      /\ UNCHANGED <<setup, fd_seq_mapping, cur_size, seq_num, call, player>>
      /\ \/ ~found /\ next # NULL /\ node' = next /\ UNCHANGED <<players, pc, target>>
         \/ ~found /\ next = NULL /\ pc' = "update" /\ UNCHANGED <<players, node, target>>
         \/ /\ found /\ Tree!OneChild(players, node)
            /\ players' = Tree!Unlink(players, node)
            /\ IF node = players.root THEN pc' = "returned" /\ node' = NULL
               ELSE pc' = "update" /\ node' = Tree!Parent(players, node)
            /\ UNCHANGED target
         \/ /\ found /\ ~Tree!OneChild(players, node)
            /\ pc' = "successor" /\ target' = node /\ node' = Tree!Right(players, node)
            /\ UNCHANGED players
  BY DEF remove_node
<1>2. PICK lo, hi, up :
        Ordered(players, Nodes, Numbers, lo, hi, up, setup.adds + 1) /\ Place(lo, hi)
  BY DEF QueueInv, TreeInv
<1>3. /\ node \in Nodes /\ Sought \in Nat /\ lo[node] < Sought /\ Sought < hi[node]
      /\ Numbers[node] = Tree!Data(players, node).seq_num /\ Numbers[node] \in Nat
      /\ player.seq_num \in Nat
      /\ target # NULL =>
           /\ target \in Nodes /\ player.seq_num <= lo[node]
           /\ Sought = Tree!Data(players, target).seq_num
           /\ \A m \in Nodes : Numbers[m] <= player.seq_num \/ Sought <= Numbers[m]
           /\ \E s \in Nodes : /\ s # target
                               /\ Tree!Data(players, s) = Tree!Data(players, target)
  BY <1>1, <1>2, AtRemoveNode
<1>4. key.seq_num = Sought
  BY DEF Sought
<1>5. /\ found <=> Numbers[node] = Sought
      /\ next = IF Numbers[node] <= Sought THEN Tree!Right(players, node)
                ELSE Tree!Left(players, node)
  <2> HIDE DEF key
  <2> QED
    BY <1>3, <1>4, Comparison DEF Tree!Next
<1> HIDE DEF found, next, key
<1>6. ~found => /\ next = IF Numbers[node] < Sought THEN Tree!Right(players, node)
                          ELSE Tree!Left(players, node)
                /\ next # 0 => /\ next \in Nodes /\ lo[node] <= lo[next]
                               /\ lo[next] < Sought /\ Sought < hi[next]
                /\ next = 0 => \A m \in Nodes : Numbers[m] # Sought
  <2> SUFFICES ASSUME ~found
               PROVE  /\ next = IF Numbers[node] < Sought THEN Tree!Right(players, node)
                                ELSE Tree!Left(players, node)
                      /\ next # 0 => /\ next \in Nodes /\ lo[node] <= lo[next]
                                     /\ lo[next] < Sought /\ Sought < hi[next]
                      /\ next = 0 => \A m \in Nodes : Numbers[m] # Sought
    OBVIOUS
  <2>1. next = IF Numbers[node] < Sought THEN Tree!Right(players, node)
               ELSE Tree!Left(players, node)
    BY <1>3, <1>5
  <2>2. Sought # Numbers[node] /\ Sought \in Int
    BY <1>3, <1>5
  <2>3. /\ next # 0 => /\ next \in Nodes /\ lo[next] < Sought /\ Sought < hi[next]
                       /\ lo[node] <= lo[next]
        /\ next = 0 => \A m \in Nodes : Numbers[m] # Sought
    BY <1>2, <1>3, <2>1, <2>2, SearchStep
  <2> QED
    BY <2>1, <2>3
<1>7. CASE ~found /\ next # NULL /\ node' = next /\ UNCHANGED <<players, pc, target>>
  BY <1>1, <1>2, <1>6, <1>7, SearchKeeps DEF NULL, Tree!NULL
<1>8. CASE ~found /\ next = NULL /\ pc' = "update" /\ UNCHANGED <<players, node, target>>
  <2>1. \A m \in Nodes : Numbers[m] # Sought
    BY <1>6, <1>8 DEF NULL, Tree!NULL
  <2>2. target = NULL
    <3> SUFFICES ASSUME target # NULL PROVE FALSE
      OBVIOUS
    <3>1. PICK s \in Nodes : s # target /\ Tree!Data(players, s) = Tree!Data(players, target)
      BY <1>3
    <3>2. Numbers[s] = Sought
      BY <1>3, <3>1, TreeFacts DEF QueueInv
    <3> QED
      BY <2>1, <3>2
  <2> QED
    BY <1>1, <1>2, <1>3, <1>8, <2>1, <2>2, SearchKeeps
<1>9. CASE /\ found /\ Tree!OneChild(players, node)
           /\ players' = Tree!Unlink(players, node)
           /\ IF node = players.root THEN pc' = "returned" /\ node' = NULL
              ELSE pc' = "update" /\ node' = Tree!Parent(players, node)
           /\ UNCHANGED target
  BY <1>1, <1>2, <1>5, <1>9, UnlinkKeeps
<1>10. CASE /\ found /\ ~Tree!OneChild(players, node)
            /\ pc' = "successor" /\ target' = node /\ node' = Tree!Right(players, node)
            /\ UNCHANGED players
  <2>1. target = NULL
    <3> SUFFICES ASSUME target # NULL PROVE FALSE
      OBVIOUS
    <3> DEFINE left == Tree!Left(players, node)
    <3>1. left # 0 /\ left \in Nodes
      BY <1>3, <1>10, TreeFacts DEF QueueInv, Tree!OneChild, Tree!NULL
    <3>2. lo[left] = lo[node] /\ hi[left] = Numbers[node]
      BY <1>2, <1>3, <3>1 DEF Ordered, LeftSide
    <3>3. lo[left] < Numbers[left] /\ Numbers[left] < hi[left] /\ lo[left] \in Int
          /\ Numbers[left] \in Int
      BY <1>2, <3>1 DEF Ordered, Intervals
    <3>4. Numbers[left] <= player.seq_num \/ Sought <= Numbers[left]
      BY <1>3, <3>1
    <3>5. Numbers[node] = Sought
      BY <1>5, <1>10
    <3> QED
      BY <1>3, <3>2, <3>3, <3>4, <3>5
  <2> QED
    BY <1>1, <1>2, <1>5, <1>10, <2>1, DescendKeeps
<1> QED
  BY <1>1, <1>7, <1>8, <1>9, <1>10

-----------------------------------------------------------------------------
(* The whole queue.                                                          *)

\* A step that changes nothing.
LEMMA StandsStill ==
  ASSUME QueueInv, UNCHANGED vars
  PROVE  QueueInv' /\ Unseen
<1>1. UNCHANGED <<setup, players, fd_seq_mapping, cur_size, seq_num, call, pc, node, target, player>>
  BY DEF vars, queue, frames
<1>2. Nodes' = Nodes /\ Numbers' = Numbers /\ Stored' = Stored /\ Limit' = Limit
  BY <1>1 DEF Nodes, Numbers, Stored, Limit
<1>3. Waiting' = Waiting /\ Sought' = Sought
  BY <1>1, <1>2 DEF Waiting, Sought
<1>4. TreeInv'
  <2>1. PICK lo, hi, up :
          Ordered(players, Nodes, Numbers, lo, hi, up, setup.adds + 1) /\ Place(lo, hi)
    BY DEF QueueInv, TreeInv
  <2>2. Place(lo, hi)'
    BY <1>1, <1>2, <1>3, <2>1 DEF Place, AtInsert, AtMinimum, AtSuccessor, AtRemove, AtUpdate
  <2> QED
    BY <1>1, <1>2, <2>1, <2>2 DEF TreeInv
<1>5. Control' /\ Fresh' /\ AddInv' /\ RemoveInv' /\ PopInv'
  BY <1>1, <1>2, <1>3 DEF QueueInv, Control, Fresh, AddInv, RemoveInv, PopInv
<1>6. TableInv' /\ Entries' = Entries
  BY <1>1, <1>3 DEF QueueInv, TableInv, Entries
<1> QED
  BY <1>1, <1>3, <1>4, <1>5, <1>6 DEF QueueInv, Unseen, Size

\* What the abstract queue does not see is no step of it.
LEMMA Stutters == Unseen => UNCHANGED AbstractQueue!pq
BY DEF Unseen, AbstractQueue!pq, Entries, Size

\* Every step keeps the invariant, and is the step of the abstract queue that its
\* call ends in, or none.
LEMMA StepKeeps ==
  ASSUME QueueInv, [Next]_vars
  PROVE  QueueInv' /\ [AbstractQueue!QueueNext]_(AbstractQueue!pq)
<1>1. CASE UNCHANGED vars
  BY <1>1, StandsStill, Stutters
<1>2. ASSUME NEW f \in setup.callers, pq_add_player(f)
      PROVE  QueueInv' /\ [AbstractQueue!QueueNext]_(AbstractQueue!pq)
  BY <1>2, AddPlayerKeeps, Stutters
<1>3. ASSUME NEW f \in setup.callers, pq_remove_player(f)
      PROVE  QueueInv' /\ [AbstractQueue!QueueNext]_(AbstractQueue!pq)
  BY <1>3, RemovePlayerKeeps DEF AbstractQueue!QueueNext
<1>4. CASE pop_from_queue
  BY <1>4, PopKeeps, Stutters
<1>5. CASE minimum
  BY <1>5, MinimumKeeps, Stutters
<1>6. CASE insert_node
  BY <1>6, InsertKeeps, Stutters
<1>7. CASE remove_node
  BY <1>7, RemoveNodeKeeps, Stutters
<1>8. CASE Successor
  BY <1>8, SuccessorKeeps, Stutters
<1>9. CASE Update
  BY <1>9, UpdateKeeps, Stutters
<1>10. CASE BeginRechain
  BY <1>10, BeginRechainKeeps, Stutters
<1>11. CASE Rechain
  BY <1>11, RechainKeeps, Stutters
<1>12. CASE EndAdd
  <2>1. call = "add"
    BY <1>12 DEF EndAdd
  <2>2. player.fd \in Fd
    BY <2>1 DEF QueueInv, AddInv, Player
  <2> QED
    BY <1>12, <2>2, EndAddKeeps DEF AbstractQueue!QueueNext
<1>13. CASE EndRemove
  BY <1>13, EndRemoveKeeps, Stutters
<1>14. CASE EndPop
  BY <1>14, EndPopKeeps DEF AbstractQueue!QueueNext
<1> QED
  BY <1>1, <1>2, <1>3, <1>4, <1>5, <1>6, <1>7, <1>8, <1>9, <1>10, <1>11, <1>12, <1>13, <1>14
  DEF Next

\* No descriptor waits twice: what a setup says of its calls.
WaitsOnce == ~setup.waits_twice

\* However many players come and go, the pointers of tree.c lead to every player in
\* the order of seq_num, in the middle of a call as well, every call is where its
\* key belongs, and every entry of hashmap.c stands for a player who waits.
THEOREM QueueStaysInOrder == Spec /\ WaitsOnce => []QueueInv
<1>1. Init /\ WaitsOnce => QueueInv
  BY StartsInvariant DEF WaitsOnce
<1>2. QueueInv /\ [Next]_vars => QueueInv'
  BY StepKeeps
<1> QED
  BY <1>1, <1>2, PTL DEF Spec

\* players_queue.c over tree.c and hashmap.c does what PlayersQueue says, which the
\* lobby is built on, for queues and tables of every size: a player is added at the
\* end of pq_add_player, pq_remove_player takes out the player the descriptor
\* stands for, and pop_from_queue the one with the smallest seq_num.  A removal
\* that crashes in tree.c is not completed; nothing wrong is handed out.
THEOREM QueueImplemented == Spec /\ WaitsOnce => ImplementsPlayersQueue
<1>1. Init /\ WaitsOnce => QueueInv /\ AbstractQueue!pq_create
  BY StartsInvariant DEF WaitsOnce
<1>2. QueueInv /\ [Next]_vars =>
        QueueInv' /\ [AbstractQueue!QueueNext]_(AbstractQueue!pq)
  BY StepKeeps
<1> QED
  BY <1>1, <1>2, PTL DEF Spec, ImplementsPlayersQueue, AbstractQueue!QueueSpec
=============================================================================
