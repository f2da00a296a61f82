--------------------------- MODULE QueueContainers --------------------------
(***************************************************************************)
(* The players queue (players_queue.c) over its real containers: the AVL   *)
(* tree of tree.c and the hash table of hashmap.c.  PlayersQueue, which    *)
(* the lobby is built on, has a set and a sequence per descriptor in their *)
(* place; this module shows where that is right.                           *)
(*                                                                         *)
(* One thread uses the queue, one call after the other.  A call is taken   *)
(* apart where it recurs or loops: a step is one call of insert_node,      *)
(* remove_node or minimum on its way down, what is left of one on the way  *)
(* back up, or one node moved by rechain.                                  *)
(*                                                                         *)
(* A setup says which calls are made: the capacity and the first size of   *)
(* the table, the descriptors, whether one of them may wait twice, and how *)
(* many players are added.  Without removals ("grows") the queue only      *)
(* fills up.                                                               *)
(***************************************************************************)
EXTENDS Integers, FiniteSets, SequencesExt

CONSTANTS
  Setups,
  Fd,
  player_id,        \* the id of every player: nothing here looks at it
  MIX,              \* the 32 bits hash_fd mixes from a descriptor
  MAX_CAPACITY, SIZE_MAX

ASSUME ContainersAssumption ==
  /\ Setups \subseteq [capacity : 0 .. MAX_CAPACITY, table_size : Nat \ {0},
                       callers : SUBSET Fd, adds : Nat,
                       removals : BOOLEAN, waits_twice : BOOLEAN]
  /\ MIX \in [Fd -> Nat]
  /\ MAX_CAPACITY \in Nat /\ SIZE_MAX \in Nat

VARIABLES
  setup,
  players,          \* the tree
  fd_seq_mapping,   \* the hash table
  cur_size, seq_num,
  call,             \* the call under way
  pc,               \* the function of tree.c or hashmap.c it is in
  node,             \* the argument of the innermost call there
  target,           \* the node with two children that takes its successor's data
  player            \* the call's player: p, key or dest

queue == <<players, fd_seq_mapping, cur_size, seq_num>>
frames == <<call, pc, node, target, player>>
vars == <<setup, queue, frames>>

compare_players(left, right) ==
  IF left.seq_num < right.seq_num THEN -1 ELSE IF left.seq_num > right.seq_num THEN 1 ELSE 0

\* x & (table_size - 1), for the powers of two next_pow2 returns.
hash_fd(fd, table_size) == MIX[fd] % table_size

Tree == INSTANCE AvlTree WITH compare <- compare_players
Table == INSTANCE HashTable WITH hash_function <- hash_fd

NULL == Tree!NULL
Player == [seq_num : Nat, fd : Fd, player_id : {player_id}]
Nobody == [seq_num |-> 0, fd |-> 0, player_id |-> player_id]

Idle == call = "none" /\ pc = "idle" /\ node = NULL /\ target = NULL /\ player = Nobody
Up == pc # "crash"

Init ==
  /\ setup \in Setups
  /\ players = Tree!avl_create /\ fd_seq_mapping = Table!ht_create(setup.table_size)
  /\ cur_size = 0 /\ seq_num = 1
  /\ Idle

\* What is in the tree, and who waits: a player is added at the end of the call,
\* removed at its beginning, and popped at its end.
Stored == {Tree!Data(players, n) : n \in DOMAIN players.node}

Waiting ==
  CASE call = "add" -> Stored \ {player}
    [] call = "remove" -> {p \in Stored : p.seq_num # player.seq_num}
    [] call = "pop" /\ pc # "minimum" -> Stored \union {player}
    [] OTHER -> Stored

\* A call into the tree begins at the root and is over without one.
EnterTree(f) == node' = players.root /\ pc' = IF players.root = NULL THEN "returned" ELSE f

pq_add_player(f) ==
  /\ pc = "idle" /\ seq_num <= setup.adds
  /\ setup.waits_twice \/ ~\E p \in Waiting : p.fd = f
  /\ cur_size < setup.capacity
  /\ call' = "add"
  /\ player' = [seq_num |-> seq_num, fd |-> f, player_id |-> player_id]
  /\ EnterTree("insert_node")
  /\ players' = IF players.root # NULL THEN players
                ELSE [Tree!Allocate(players, seq_num, player') EXCEPT !.root = seq_num]
  /\ UNCHANGED <<setup, fd_seq_mapping, cur_size, seq_num, target>>

\* A node's address is the number of the player it was allocated for; it may hold
\* another one later.
insert_node ==
  /\ pc = "insert_node"
  /\ LET next == Tree!Next(players, node, player)
     IN IF next # NULL THEN node' = next /\ UNCHANGED <<players, pc>>
        ELSE /\ players' = Tree!Attach(players, node, player, player.seq_num)
             /\ pc' = "update" /\ UNCHANGED node
  /\ UNCHANGED <<setup, fd_seq_mapping, cur_size, seq_num, call, target, player>>

\* From below target the key is read in a node that has been freed.
Keys == IF target \in {NULL, node} THEN {player}
        ELSE {[seq_num |-> s] : s \in 0 .. setup.adds + 1}

\* The end of insert_node and remove_node: the height, the rotations, and the
\* return to the caller, which is the one for the parent.
Update ==
  /\ pc = "update"
  /\ \E key \in Keys :
       LET t == Tree!Measure(players, node)
       IN IF Tree!Faults(t, node, key)
          THEN pc' = "crash" /\ UNCHANGED <<players, node, target>>
          ELSE /\ players' = Tree!rebalance(t, node, key)
               /\ target' = IF node = target THEN NULL ELSE target
               /\ IF node = players.root THEN pc' = "returned" /\ node' = NULL
                  ELSE node' = Tree!Parent(players, node) /\ UNCHANGED pc
  /\ UNCHANGED <<setup, fd_seq_mapping, cur_size, seq_num, call, player>>

Return ==
  /\ call' = "none" /\ pc' = "idle" /\ node' = NULL /\ target' = NULL /\ player' = Nobody
  /\ UNCHANGED setup

BeginRechain ==
  /\ call = "add" /\ pc = "returned" /\ Table!Loaded(fd_seq_mapping)
  /\ fd_seq_mapping' = Table!Double(fd_seq_mapping)
  /\ pc' = "rechain"
  /\ UNCHANGED <<setup, players, cur_size, seq_num, call, node, target, player>>

Rechain ==
  /\ pc = "rechain" /\ Table!Unmoved(fd_seq_mapping) # {}
  /\ fd_seq_mapping' = Table!rechain(fd_seq_mapping)
  /\ UNCHANGED <<setup, players, cur_size, seq_num, frames>>

EndAdd ==
  /\ call = "add"
  /\ \/ pc = "returned" /\ ~Table!Loaded(fd_seq_mapping)
     \/ pc = "rechain" /\ Table!Unmoved(fd_seq_mapping) = {}
  /\ fd_seq_mapping' = Table!ht_insert(fd_seq_mapping, player.fd, player.seq_num)
  /\ cur_size' = cur_size + 1 /\ seq_num' = seq_num + 1
  /\ UNCHANGED players /\ Return

pq_remove_player(f) ==
  /\ pc = "idle" /\ setup.removals
  /\ Table!Found(fd_seq_mapping, f)
  /\ call' = "remove"
  /\ player' = [seq_num |-> Table!ht_get(fd_seq_mapping, f), fd |-> f, player_id |-> player_id]
  /\ fd_seq_mapping' = Table!ht_remove(fd_seq_mapping, f)
  /\ EnterTree("remove_node")
  /\ UNCHANGED <<setup, players, cur_size, seq_num, target>>

\* The key of the search below target is in target's successor, and the data of
\* the two are the same by then.
remove_node ==
  /\ pc = "remove_node"
  /\ LET key == IF target = NULL THEN player ELSE Tree!Data(players, target)
         found == compare_players(key, Tree!Data(players, node)) = 0
         next == Tree!Next(players, node, key)
     IN \/ ~found /\ next # NULL /\ node' = next /\ UNCHANGED <<players, pc, target>>
        \/ ~found /\ next = NULL /\ pc' = "update" /\ UNCHANGED <<players, node, target>>
        \/ /\ found /\ Tree!OneChild(players, node)
           /\ players' = Tree!Unlink(players, node)
           /\ IF node = players.root THEN pc' = "returned" /\ node' = NULL
              ELSE pc' = "update" /\ node' = Tree!Parent(players, node)
           /\ UNCHANGED target
        \/ /\ found /\ ~Tree!OneChild(players, node)
           /\ pc' = "successor" /\ target' = node /\ node' = Tree!Right(players, node)
           /\ UNCHANGED players
  /\ UNCHANGED <<setup, fd_seq_mapping, cur_size, seq_num, call, player>>

Successor ==
  /\ pc = "successor"
  /\ IF Tree!Left(players, node) # NULL
     THEN node' = Tree!Left(players, node) /\ UNCHANGED <<players, pc>>
     ELSE /\ players' = [players EXCEPT !.node[target].data = Tree!Data(players, node)]
          /\ pc' = "remove_node" /\ node' = Tree!Right(players, target)
  /\ UNCHANGED <<setup, fd_seq_mapping, cur_size, seq_num, call, target, player>>

\* cur_size-- on a size_t.
OneLess(size) == IF size = 0 THEN SIZE_MAX ELSE size - 1

EndRemove ==
  /\ call = "remove" /\ pc = "returned"
  /\ cur_size' = OneLess(cur_size)
  /\ UNCHANGED <<players, fd_seq_mapping, seq_num>> /\ Return

pop_from_queue ==
  /\ pc = "idle" /\ setup.removals
  /\ cur_size # 0 /\ players.root # NULL
  /\ call' = "pop" /\ EnterTree("minimum")
  /\ UNCHANGED <<setup, queue, target, player>>

minimum ==
  /\ pc = "minimum"
  /\ IF Tree!Left(players, node) # NULL
     THEN node' = Tree!Left(players, node) /\ UNCHANGED <<pc, player>>
     ELSE /\ player' = Tree!Data(players, node)
          /\ EnterTree("remove_node")
  /\ UNCHANGED <<setup, queue, call, target>>

EndPop ==
  /\ call = "pop" /\ pc = "returned"
  /\ fd_seq_mapping' = Table!ht_remove(fd_seq_mapping, player.fd)
  /\ cur_size' = OneLess(cur_size)
  /\ UNCHANGED <<players, seq_num>> /\ Return

Next ==
  \/ \E f \in setup.callers : pq_add_player(f) \/ pq_remove_player(f)
  \/ pop_from_queue \/ minimum \/ insert_node \/ remove_node \/ Successor \/ Update
  \/ BeginRechain \/ Rechain \/ EndAdd \/ EndRemove \/ EndPop

Spec == Init /\ [][Next]_vars

-----------------------------------------------------------------------------
\* The abstract queue: who waits, and for each descriptor the entries of the table
\* in the order in which they would be found.
AbstractQueue == INSTANCE PlayersQueue WITH
  Conn <- {player_id},
  PLAYERS_QUEUE_SIZE <- MAX_CAPACITY,
  players <- Waiting,
  fd_seq_mapping <- [f \in Fd |-> Table!ValuesOf(fd_seq_mapping, f)],
  cur_size <- IF call = "remove" THEN OneLess(cur_size) ELSE cur_size

\* Whatever the rotations do to the tree and doubling does to the table, every
\* call has the effect it has on a set of players and on entries of which the
\* newest comes first - also where a descriptor waits twice, as long as the
\* table is not doubled then.
ImplementsPlayersQueue == AbstractQueue!QueueSpec

\* pop_from_queue "removes and returns the player with the smallest sequence
\* number" (players_queue.h): taking a player out never fails in the tree.
RemovalReturns == Up
=============================================================================
