---------------------------- MODULE PlayersQueue ----------------------------
(***************************************************************************)
(* The matchmaker's queue of waiting players                               *)
(* (src/server/supervisor/src/matchmaker/players_queue.c): an AVL tree of  *)
(* players ordered by seq_num, a hash table from file descriptor to        *)
(* seq_num in which a new entry of a key hides the older ones, and the     *)
(* counter cur_size that pq_ready goes by.                                 *)
(*                                                                         *)
(* Nothing in the queue keeps the three together: a descriptor may be      *)
(* queued twice, and then the table names another player than the tree     *)
(* gives out.  The matchmaker thread is the only user.                     *)
(***************************************************************************)
EXTENDS Naturals, Sequences, FiniteSets

CONSTANTS
  Fd,                   \* file descriptors of client connections
  Conn,                 \* connections, each with the player_id drawn for it
  PLAYERS_QUEUE_SIZE,
  SIZE_MAX              \* the largest size_t

ASSUME QueueAssumption ==
  PLAYERS_QUEUE_SIZE \in Nat /\ SIZE_MAX \in Nat /\ PLAYERS_QUEUE_SIZE < SIZE_MAX

VARIABLES
  players,          \* the tree: a set of players
  fd_seq_mapping,   \* the seq_nums filed under a descriptor, newest first
  cur_size,
  seq_num           \* the next seq_num to give out

pq == <<players, fd_seq_mapping, cur_size, seq_num>>

Player == [seq_num : Nat, fd : Fd, player_id : Conn]

QueueTypeOK ==
  /\ players \in SUBSET Player
  /\ fd_seq_mapping \in [Fd -> Seq(Nat)]
  /\ cur_size \in 0..SIZE_MAX /\ seq_num \in Nat

pq_create ==
  /\ players = {} /\ fd_seq_mapping = [f \in Fd |-> <<>>]
  /\ cur_size = 0 /\ seq_num = 1

\* cur_size-- on a size_t wraps.
Decremented(n) == IF n = 0 THEN SIZE_MAX ELSE n - 1

AtCapacity == cur_size >= PLAYERS_QUEUE_SIZE

pq_add_player(f, c) ==
  /\ ~AtCapacity
  /\ players' = players \union {[seq_num |-> seq_num, fd |-> f, player_id |-> c]}
  /\ fd_seq_mapping' = [fd_seq_mapping EXCEPT ![f] = <<seq_num>> \o @]
  /\ cur_size' = cur_size + 1
  /\ seq_num' = seq_num + 1

NotFound(f) == fd_seq_mapping[f] = <<>>

\* The newest entry of f leaves the table, and the player it names the tree:
\* if it is there, for a seq_num that is not in the tree is no error.
pq_remove_player(f) ==
  /\ ~NotFound(f)
  /\ players' = {p \in players : p.seq_num # Head(fd_seq_mapping[f])}
  /\ fd_seq_mapping' = [fd_seq_mapping EXCEPT ![f] = Tail(@)]
  /\ cur_size' = Decremented(cur_size)
  /\ UNCHANGED seq_num

IsFirst(p) == p \in players /\ \A o \in players : p.seq_num <= o.seq_num

(* A pop that leaves the entry in the table.                               *)
PopKeepsEntry(p) ==
  /\ IsFirst(p)
  /\ players' = players \ {p}
  /\ cur_size' = Decremented(cur_size)
  /\ UNCHANGED <<fd_seq_mapping, seq_num>>

QueueEmpty == cur_size = 0 \/ players = {}

\* The first player p leaves the tree; the table loses the newest entry of
\* its descriptor, whoever that one stands for.
pop_from_queue(p) ==
  /\ IsFirst(p)
  /\ players' = players \ {p}
  /\ fd_seq_mapping' =
       [fd_seq_mapping EXCEPT ![p.fd] = IF @ = <<>> THEN @ ELSE Tail(@)]
  /\ cur_size' = Decremented(cur_size)
  /\ UNCHANGED seq_num

pq_ready(goal) == cur_size >= goal

\* The queue by itself: any caller's calls, one at a time.
QueueNext ==
  \/ \E f \in Fd : pq_remove_player(f) \/ \E c \in Conn : pq_add_player(f, c)
  \/ ~QueueEmpty /\ \E p \in players : pop_from_queue(p)

QueueSpec == pq_create /\ [][QueueNext]_pq

-----------------------------------------------------------------------------
\* Tree, table and counter agree on who waits.
QueueAgrees ==
  /\ cur_size = Cardinality(players)
  /\ \A f \in Fd : fd_seq_mapping[f] =
       IF \E p \in players : p.fd = f
       THEN <<(CHOOSE p \in players : p.fd = f).seq_num>> ELSE <<>>
=============================================================================
