# Crumbling Coffers: a TLA+ model of the game server and its clients

Crumbling Coffers is a four-player looting game: a Godot client
(`src/crumbling-coffers`) and a server written in C (`src/server`).  This
directory holds TLA+ models of the server's concurrent core and of the client
as far as it takes part in a match, the TLC configurations that check them on
small instances, and TLAPS proofs of their central invariants, and of the
refinements between them, for every value of the constants.

Paths below are relative to the repository, `src/`.

## The system

```
 client (Godot)                         supervisor process (C)
 +-----------------+  TCP: search  +----------------------------------------+
 | lobby.gd        |-------------->| orchestrator thread                     |
 | NetworkManager  |<--------------|   | ^   broker: two SPSC queues,        |
 +-----------------+  match result |   v |   one eventfd each                |
        |                          | matchmaker thread --- players queue     |
        | UDP: INIT, input, picks  |   |        \                            |
        v                          |   | fork    port manager + reaper thread|
 +-----------------+               +---|--------------------^----------------+
 | game process    |<--------------+ pipe: port, ids        | SIGCHLD
 |  net thread     |----------------------------------------+
 |  game thread    |
 +-----------------+
```

| Component | State | Operations | What is hard |
|---|---|---|---|
| SPSC ring buffer (`server/common/src/ds/spsc_queue.c`) | head, tail, slots | push, pop | lock-free; acquire loads may be stale; full versus empty on a ring |
| Net thread (`server/game/src/net`) | UDP socket, players registry, last sequence numbers | receive, acknowledge, register, broadcast | lost, repeated and reordered datagrams; what is read against what the other thread has done |
| Game thread (`server/game/src/game_thread.c`, `game.c`) | tick, status, roster, items, inventories | connection loop, game loop | its own numbering of players; clock; stop flags |
| Post office, heralds | mail drop (SPSC), a mailbox per player, two latest-value cells | push, pop, read, write | two threads, overwriting |
| Port manager (`server/supervisor/src/matchmaker/port_manager.c`) | queue of free ports, pid table, reaper thread | borrow, return, register, reap | signals coalesce; a child may exit at any point of `form_match` |
| Matchmaker (`matchmaker.c`) | place in its loop, players queue | broker messages, `form_match`, spawn | partial failure in the middle of a match; startup and shutdown |
| Players queue (`players_queue.c`), containers (`tree.c`, `hashmap.c`) | AVL tree by arrival, hash multimap by fd | add, remove, pop | two indices that must agree; rotations |
| Orchestrator (`orchestrator/*.c`) and broker (`broker.c`) | connections, fd to id, buffers | accept, read, send, disconnect | descriptors are reused while results are under way |
| Supervisor `main.c` | shutdown flag | start, stop | order of destruction and joins |
| Client network manager (`crumbling-coffers/Netcode`) | reliable packets not acknowledged, queues | send, resend, receive | retries against late acknowledgements |
| Client match (`game.gd`, `multiplayer_item_manager.gd`, `MatchManager.gd`) | phase, clock, active items | process packets | reordered state packets; reconciliation |

What makes each part correct:

* **Ring buffer**: it is a bounded first-in first-out queue, and the two copies
  never touch one slot at the same time.
* **Game process**: both threads number the players alike; input and picks are
  credited to their sender; items are neither lost nor duplicated and change
  hands only during the match; the process ends, unless picks keep it in one tick.
* **Ports**: a port is never given to two games, and comes back when its game
  has exited, whatever fails and however signals coalesce.
* **Lobby**: a player who searches gets at most one answer, on the connection it
  asked from; no request or result is stranded between the threads; a result
  does not reach somebody else who is still there; the three parts of the
  players queue agree.
* **Containers**: the tree and the hash table behave as the set and the newest
  entry the rest of the queue takes them for.
* **Client session**: a client that was matched gets its slot through a network
  that loses and repeats; the server credits it only with what its player took;
  what was taken does not come back on its map; it plays while the server's
  match runs and not longer.

## Modules

| Module | Models |
|---|---|
| `BoundedFifo` | what `spsc_queue.h` promises: a FIFO of at most `Bound` elements, a push or a pop in one step |
| `SpscQueue` | `spsc_queue.c`: `spscq_push` and `spscq_pop` split at the load of the other index, the memcpy and the release store |
| `SpscQueue_proofs` | its inductive invariant, and that it implements `BoundedFifo` |
| `GameServer` | one game process: `run_net_t`, `run_game_t` and what they share |
| `GameService` | what a game process promises: slots, clock and phases, picks granted, packets published; no threads, no mail drop |
| `GameServer_proofs` | the inductive invariant of `GameServer`, what follows from it, and that it implements `GameService` |
| `GameSession` | clients around `GameService`: lobby's loading phase, `game.gd`'s phases and clock, item tables, the reliable UDP layer, a lossy network |
| `GameSession_proofs` | its inductive invariant and what follows from it |
| `GameSystem` | a match from end to end: the game process of `GameServer` and the clients of `GameSession` with the network between them |
| `GameSystem_proofs` | that the two meet each other's assumptions, and what therefore holds of the whole |
| `PortManager` | the matchmaker's use of ports (`form_match`, `spawn_process`, start and exit), the reaper thread, the kernel's children and SIGCHLD |
| `PortPool` | what the port manager promises: free ports, and games that each have one |
| `PortManager_proofs` | its inductive invariant and what follows from it, and that it implements `PortPool` |
| `PlayersQueue` | `players_queue.c`: tree, table and counter, and the four operations on them |
| `Matchmaking` | what the supervisor promises to those who search: a line, matches of those who stand first in it, one answer for all of a match; no threads, queues or descriptors |
| `Lobby` | the orchestrator thread, the broker, the matchmaker thread on top of `PlayersQueue`, and their clients |
| `Lobby_proofs` | its inductive invariant and what follows from it |
| `LobbySearch_proofs` | what becomes of a search: requests, queue and outcome, for connections that are no heirs (see below), and that `Lobby` then implements `Matchmaking` |
| `QueueClients` | `PlayersQueue` with its callers and nothing between them, small enough to follow what reused descriptors do to it in the long run |
| `AvlTree`, `HashTable` | `tree.c` (nodes, pointers, heights, rotations) and `hashmap.c` (chains, doubling), as operators on values |
| `QueueContainers` | `players_queue.c` over these two, one recursive call or one iteration at a time |
| `QueueContainers_proofs` | its inductive invariant, and that it implements `PlayersQueue` |
| `MCSpscQueue`, `MCGameServer`, `MCGameSession`, `MCGameSystem`, `MCPortManager`, `MCLobby`, `MCQueueClients`, `MCQueueContainers` | the constants of the runs |

The modules compose by abstraction: `GameServer`'s mail drop and the queues of
the broker are used at the level of `BoundedFifo`, whose two steps `SpscQueue`
shows the ring buffer to have; a game process is to the port manager one child
that may exit, which `Terminates` of `GameServer` shows it does unless a drain of
its mail drop goes on for ever; the
port manager is to the lobby a number of free ports, which is that of `PortPool`,
implemented by `PortManager`; the queue of `PlayersQueue`, on which `Lobby` is built,
has a set and sequences where the code has a tree and a hash table, and
`QueueContainers` implements it as long as no removal crashes the tree (see
below).  The game process and its clients meet at `GameService`: `GameServer`
implements it under an assumption about what clients send (`CanArrive`), and
`GameSession` has the client around `GameService`.  That each may assume what it
does of the other is shown where they are put together: `GameSystem` has both
threads and the clients in one state, and implements both.  `GameService` itself makes no assumption:
it takes a pick from any registered player at any time.

A definition under a comment in `(* ... *)` and named like `...Late`,
`...Unchecked`, `...Keeps` stands beside the definition it varies and is no part
of any specification: it is the same code with a plausible bug, and shows that a
property notices it.

### SpscQueue

`ppc` and `cpc` are the places of producer and consumer.  An acquire load may
return any value the index has had since the thread last saw it; `Arc` is that
set, `headSeen` and `tailSeen` the last views.  A memcpy is under way while the
thread is at `copy`, so `NoSlotRace` says that no two of them meet in a slot.
The abstract queue (`Contents`) is the published slots less the one a pop has
copied and not yet released: a push takes effect at its release store, a pop at
its copy.

### GameServer

| Model | Code |
|---|---|
| `npc`, `room` | the net thread's place in `run_net_t`, and iterations left in `net_receive_packets` |
| `registry`, `seqnums` | `players_registry`: ids in the order of `next_index`, last sequence number per index |
| `mail_drop`, `mailbox` | `post_office`: the queue of reliable packets, the last regular packet per index |
| `herald`, `items_herald` | the two one-packet cells the game thread writes and the net thread reads |
| `stop` | `game_stop` and `net_stop`, which are only ever set and tested together |
| `gpc`, `slot` | the game thread's place in `run_connection_loop` and `run_game_loop` |
| `server_tick`, `start_tick`, `stop_tick`, `status` | its clock |
| `players`, `inventory`, `items`, `items_num` | `struct Game` |
| `pose` | a player's position, velocity and score, as the sequence number of their input |

A step is one shared access: one datagram with everything
`net_receive_packets` does to it (registering, acknowledging, testing, queueing
and storing the sequence number), one pop with what the game loop does to the
packet, one mailbox or herald under its lock.  The code between two accesses
touches only what the thread owns.

The network is any sequence of datagrams: every datagram of `Datagram` may
arrive at any time, any number of times or never, which covers loss,
repetition, delay and reordering.  One fact of the client is used: it sends
nothing but INIT before it has had the server's init packet, because its player
and the items do not exist before (`game.gd`, `init`).  It is the
guard `CanArrive` before `Refuse` and `Receive`, which are what the code does
with a datagram.  The roster depends on it: before the announcement the mail drop
holds nothing but INITs, so that none is ever turned away for want of room
(`Seating`).

Nothing bounds how many datagrams arrive, nor how fast.  One consequence is in
`Terminates`: the game loop drains the mail drop until it finds it empty
(`game_thread.c:164`), and while it does no tick passes.  If the net thread fills
the drop as fast as the game thread empties it, and never stops, the drain does
not end, and neither does the process.  `Terminates` says that this is the only
way for it not to end.

`Stranger` is an id that is in no list of the supervisor, `SeqNum` the sequence
numbers clients use: the Godot client always sends 0, the server's own
integration test (`server/test/integration/game/test_game.c`) counts up from 1.

### PortManager

The matchmaker is at `mpc`, the reaper at `rpc`; each lock is held for one
step.  What the ports do not depend on is a choice: whether enough players
wait, whether `pipe`, `fork`, `write`, `sigtimedwait`, `waitpid` or the
registration fails.  A child exits at any time, including before it is
registered; all exits until the reaper looks make one pending SIGCHLD, which
stays pending because `main` blocks it before any thread starts.  `registered`
is a history variable: children that `pm_register_port` has recorded and
`waitpid` has not returned.

The kernel may hand out a pid again once it was reaped, except between
`waitpid` and the lookup that follows it (`FreshPid`): pids are handed out in
sequence and do not come around so soon.  Without this exception the code would
give back the port of a running game.

### Lobby and PlayersQueue

| Model | Code |
|---|---|
| `players`, `fd_seq_mapping`, `cur_size`, `seq_num` | `struct PlayersQueue`; the table keeps all the seq_nums filed under a descriptor, newest first, as `hashmap.c` does |
| `owner`, `fdOf` | `ConnController.clients` and its inverse: the connection (and `client_id`) behind a descriptor, and the descriptor a connection was accepted on |
| `input`, `output` | the two buffers of `bc_add`: what has been read of a request, and the result still to be sent |
| `reading` | descriptors with `EPOLLIN` in their interest |
| `recv_queue`, `send_queue`, and `..._eventfd` | the two `FdQueue`s and their semaphores |
| `batch` | the array that `epoll_wait` filled, less the events already handled |
| `q_session_man`, `q_orch`, `matchmaker_eventfd`, `orch_eventfd` | the broker |
| `mpc`, `mbatch`, `match`, `found` | the matchmaker's place, its batch and the locals of `form_match` |
| `ports` | number of free ports |
| `peer`, `ui`, `wire`, `mail`, `backlog` | client, its lobby, the two directions of its connection, and the kernel's accept queue |
| `overflow`, `refused` | history: a push `fdq_push` dropped; a descriptor whose request found the broker full |
| `heirs` | history: connections accepted on a descriptor that something under way still named |
| `running` | the supervisor process: no SIGPIPE has ended it |

The orchestrator takes a batch of events and runs one handler per event.  The
order within a batch is free: the kernel's ready list depends on when each
event occurred.  Between two handlers the matchmaker and the clients move.
`accept_connections` is a step per connection, since its loop sees those that
arrive meanwhile, and no other handler of the batch runs in between.

A connection never comes back: a client that reconnects is a new connection
with a new `client_id`, possibly on a descriptor used before, and its lobby may
still be in a search or waiting for the answer to its cancel (`Connect`).  A
request is `SEG` parts long, the event type in the first one, and reads may take
any number of them; a result leaves whole, and `SendPart` is a send that did not
finish it.  `process_usr_request` uses a local it has not filled when the buffer
is empty, so its event type is then any (`EventType`).

Abstractions: which game and port a result names (all of one match get the
same); frames that a client had received and not looked at when its connection
broke are dropped; the client's messages that it queued while disconnected are
sent after the new connection, which is the same as asking then.  Failures of
`accept4`, `epoll_ctl`, eventfd writes and allocations are not modelled; a
failing `recv` or `send` is.

A `send` to a client that has gone fails in one of two ways.  With ECONNRESET the
orchestrator logs it and goes on (`SendFails`).  With EPIPE the kernel also raises
SIGPIPE: `tcp_send` passes no `MSG_NOSIGNAL`, and `main.c` handles SIGTERM only, so
the supervisor ends with all its threads (`Killed`; after it the state only
stutters).  Safety properties speak of the states up to there; the liveness
properties are about a process that runs.

**Heirs.**  The kernel gives a closed descriptor out again, and the supervisor
names clients by descriptor.  When a client disconnects, `disconnect_handler` frees
its buffers, but its descriptor may still be in `recv_queue`, and its player, its
request or its result with the matchmaker (`LeftOver`).  A connection accepted on
such a descriptor is an *heir*.  What a property promises in the presence of heirs
differs:

* `IndInv` with its parts (`SignalsMatchQueues`, `OutputWillBeSent`,
  `ReadingResumes`, `OwnResultWhileUp`) holds however descriptors are used.  An heir
  may get the result of a client that has gone; no promise is made about that.
* `RequestsStayWhole`, and the parts of `SearchInv` about requests, hold for every
  client that is no heir, whatever becomes of the others.  The request of an heir
  may be taken out of its buffer half read.
* `QueueAgreesWithoutHeirs`, `OneOutcome` and `ImplementsMatchmaking` hold as long
  as there is no heir (`NoHeirs`).  Descriptors may be used again meanwhile,
  generation after generation, as long as each finds the server done with the
  connection before.  With an heir they are false; `queue_wrap` shows what becomes
  of the queue.
* `ResultReachesClient` holds for clients that are no heirs: the output buffer of
  an heir may be taken by a result of the connection before.  Its other exceptions
  are a client that hangs up, a descriptor dropped by a full descriptor queue
  (`overflow`), and the end of the process.

`ImplementsMatchmaking` is what the two threads amount to while there are no heirs.
`Matchmaking` has a line of clients with their tickets; the mapping is

| `Matchmaking` | `Lobby` |
|---|---|
| `asking`, `leaving` | clients with a search or a cancel anywhere from their connection to the broker queue (`Stream`, `q_session_man`) |
| `line` | `players`, and the players already popped while `form_match` goes on (`mpc = "form"`) |
| `ticket` | `seq_num` |
| `told` | answers anywhere from the results that `form_match` still has to push, through broker and output buffer, to the client's `mail` |

`Form` takes effect when `form_match` knows whether there is a game: the pops
before it are stutters, and the pushes after it drop an answer at most
(`Forget`), one by one, when the broker is full.  `Form` takes a match's full
number of clients, all of whom asked before everybody who stays, and nothing
else but a cancel that was sent takes a client out of the line.  So a match that
is begun is finished: `pop_from_queue` does not fail in the middle of it, where
`form_match` would return with players who are in no queue.

`QueueClients` keeps the queue and shrinks the rest: a descriptor changes hands
in one step, a request reaches the queue at once, an answer waits in `mail`.

### GameService and GameSession

`GameService` has one step for what takes the two threads several: `Register`
(an INIT takes a slot), `TakeOver` (a pick is in the drop), `Decide` (a pick
leaves it and is granted or not), the clock (`Wait`, `Tick`) and the phases
(`Announce`, `Start`, `Finish`), and `Close`, after which nothing more is
received.  In `GameServer`'s refinement `pending` is the set of picks in `mail_drop`
and `closed` says that the net thread has left its loop; every other variable is
`GameServer`'s own.  A pick that waits twice in the drop is one element of
`pending`, so `Decide` may leave it there.

| Model | Code |
|---|---|
| `up`, `acks`, `published` | the network: datagrams to the server, clients with an ACK on its way, packets broadcast so far |
| `to_send`, `sent` | `_reliable_packets_to_send`, and the one entry of `_sent_reliable_packets`: every packet has sequence number 0 |
| `screen`, `seen_tick` | the lobby's `_loading_game` and `game_status`; `game.server_tick` |
| `match_over` | `MatchManager.current_state` is `ENDED`; an autoload, so a match may begin with what the last one left |
| `spawned`, `active` | `spawned_items`, `active_items` |
| `taken` | items `_give_item_to_player` has given (history) |

A datagram in `up`, an ACK and a published packet may arrive any number of times
in any order; `Lose` takes the first two away, and a published packet that never
arrives is one that is never chosen.  `Frame` is one `_process`: the packets of
`receive_udp`, of which the last one decides the clock and the last item list
the map (`Received`), then `_update_game_status` and `_sync_match_time`.  Players
outside `Client` stand for other copies of the program: they register at any
time and pick anything once an init packet was published.  `init` of `game.gd`
copies `start_tick` and `stop_tick` from the packet; the server does not change
them afterwards, so the session has no copies.

A tick and its packets are one step (`ServerNext`), except in a tick with an item
list: the two heralds are written one after the other, and the net thread may
broadcast the first before the second is formed.  `StateAhead` is that packet.

### GameSystem

The state is that of `GameServer`, of the network and of the clients.  The
datagrams of clients are what `ReadClient` and `ReadInput` give to the net
thread (`OnWire`: every header says sequence number 0); its ACK goes back when
`Acked` says so.  What `NetState` and `NetItems` broadcast is `published`, and
only that reaches clients.  `ReadOther` is a datagram of a player whose program
is not modelled, who may send an INIT at any time and anything once an init
packet was broadcast: who knows the game's port and id from the supervisor, and
whose program waits as the client's does.

`ProcessAsAssumed` says that the system is a `GameServer`, `ImplementsSession`
that it is a `GameSession`, in which a packet is published when the game thread
writes it (`written`): it may be late, and a packet that is overwritten in its
herald is one nobody reads.  Neither module's assumption is used to show the
other's.  That no client picks before the process has announced the match is
shown of the system itself, by induction over its steps (`AfterAnnouncement`).

### QueueContainers, AvlTree and HashTable

`AvlTree` has the tree as the code has it: a root and nodes with two pointers, a
height and a player.  A node's address is the number of the player it was
allocated for; after a removal by successor it holds another one.  The heights
are those of the code: a new leaf has height 0, as if it were not there, and
gets another when an operation passes through it.  So the tree is one level less
flat than an AVL tree, which `StaysFlat` allows for.

One thread uses the queue, so a call could be one step.  It is several, because
the code recurs: `insert_node`, `remove_node` and `minimum` take a step for each
call on the way down, `Successor` for each node it passes, `Update` is the rest
of one call on the way back (height, rotation, return), `Rechain` one node moved.
`node` is the argument of the innermost call; the caller of a call on `node` is
always the one on its parent, so no stack is kept, and `Store` writes what the
call returns into the parent at once, nothing being read in between.  `target`
is the node with two children that takes its successor's data: the removal goes
on with a key inside that successor, which is freed, and until the return to
`target` each comparison reads any value (`Keys`).  A rotation that reads a
missing child ends in `pc = "crash"`.

The hash table is an array of chains, and while it is doubled the old array is
there as well; `MIX` gives the 32 bits that `hash_fd` mixes from a descriptor,
so that collisions, and their end when the table is doubled, are chosen by the
instance.

`ImplementsPlayersQueue` maps the tree to the set of players in it, with the one
under way where `PlayersQueue` has it (`Waiting`: it comes at the end of an add,
goes at the beginning of a cancel and at the end of a pop), and the table to
the entries of each descriptor in the order in which a lookup finds them.
It is a refinement under a condition, which the setups (`Setups`) state:

* `rebalance` chooses the rotation by the side on which the key is, which is
  right after an insertion.  After a removal from the left subtree the key is
  always on the left of what stands on the right, and the double rotation is
  taken whether or not it has the nodes it needs.  With four players waiting
  this never goes wrong; with five (`tree_removal`) the first pop may crash the
  supervisor.
* `rechain` moves node after node to the head of its new chain.  Entries of
  different descriptors stay apart, so the refinement holds through any number
  of doublings while no descriptor waits twice, which `QueueImplemented` proves.  Of two entries of one
  descriptor the older one comes first after a doubling.  In the code this
  takes 96 entries in a table of 128.

No descriptor waits twice as long as there are no heirs: a search is in one
place then (`SearchInv` of `LobbySearch_proofs`).  So where `NoHeirs` holds, what
is proved of `Lobby` on `PlayersQueue` holds on the tree and the table, up to a
removal that crashes, where the supervisor ends.

## Runs

| Run | Instance | Shows |
|---|---|---|
| `spsc` | ring of 4 slots, 2 values | `NoSlotRace`, `IndInv`, and `ImplementsFifo`: the ring is a bounded FIFO |
| `game` | 2 players, a stranger, an item, match of 3 ticks, fairness | both rosters agree, mailboxes follow them, items are conserved and move only inside the match; `IndInv`; in the order of the broadcasts the clock never falls by more than `ITEMS_AUTH_RATE`; the process ends, or one drain of the mail drop never does; `ImplementsService` |
| `session` | a client and another player, an item, match of 4 ticks, 2 ticks to the second, fairness | credit only for what was taken; a taken item stays off the map; the client's match lies in the server's; an INIT leads to a slot |
| `system` | a client and another player, one of whom is awaited, an item, match of 2 ticks | `ProcessAsAssumed`, `ImplementsSession`: each half of the match meets what the other assumes |
| `init_once` | as `game`, 2 items | **violated**: two copies of one INIT take two slots |
| `ports` | 2 ports, 2 pids, fairness | no port in two places, room for every port that comes back, distinct ports for live games, no child forgotten, a registered game's port comes back; `ImplementsPool` |
| `lobby` | 3 connections on 2 descriptors, one hang-up, 4 requests, queues of 1 and 2 | `IndInv` and its parts; without heirs the parts of the queue agree and a search has one outcome; `SearchInv`, which these rest on; `ImplementsMatchmaking` |
| `lobby_live` | 2 connections, one hang-up, descriptor queues of 1, requests of 2 parts, 3 requests, fairness | requests keep their boundaries, are read, a possible match is formed, a result arrives, with the exceptions named above |
| `queue_wrap` | 4 connections on 2 descriptors, 6 searches, 3 places | **violated**: `pq_ready` is true for an empty queue, `cur_size` having wrapped |
| `containers` | fill up to 10; 4 players, 9 adds, table of 2 doubled twice, 3 colliding descriptors; 2 descriptors that wait twice | `ImplementsPlayersQueue`; the tree stays sorted and balanced |
| `tree_removal` | 5 players | **violated**: popping the first dereferences NULL |
| `port_lost` | 2 ports, 3 pids | **violated**: a game that exits before it is registered takes its port with it |

**Bounds.**  The ring of four slots is the least on which the indices wrap
while two elements are in it and each view can lag behind by several positions.
Two players are enough for two registry entries in either order, a duplicate,
a race for an item and a slot left empty; the mail drop of two usable places is
full as soon as both INITs wait, so drops happen.  Ticks run over the deadline,
the countdown (1) and the match (3), each reached and passed; with three ticks
there are two item broadcasts, so that the clock falls between the two heralds.
Picks arrive in any number.  `SeqNum` is {0}, what the Godot client sends;
with {0, 1} the instance passes five million states, and the proofs hold for
any set of numbers.  Two ports and two pids let one game hold a port while
another is born, exits unregistered, is reaped and its pid is used again.

The session has one modelled client, so that its resends, its stale packets and
a lost ACK all meet, and one other player to race with it for one item.  Items
are broadcast every second tick and a second has two ticks, so that item lists
go stale and the early end of the client's match is visible.  Deadlock is
unchecked there, for a session may end with nothing left to do.

`system` has the threads of `game` and the clients of `session` at once, so its
match is shorter: a countdown of one tick, two ticks of play with one item list,
and one slot for two players, one of whom is refused.

In the lobby two descriptors and three connections are the least with a reuse
while another client is there; a match takes two players.  Queues are shorter
than in the code (`FD_QUEUE_CAPACITY` 1, `BROKER_ROOM` 2, `PLAYERS_QUEUE_SIZE`
2) so that each of them is full at some time; `MaxRequest` of 4 lets two clients
search, one cancel and one search again.  `lobby_live` has descriptor queues of one
place, so that `fdq_push` does drop a descriptor; room in the broker for every
request; a second connection that may be the first one's heir; and it splits each
request in two.  `SIZE_MAX` is 9 so that the wrap
of `cur_size` is a state.  At most two clients wait, all that a match takes, so that
`ImplementsMatchmaking` shows here that a match is complete and answered alike;
that it takes those who came first is the theorem's.  `Conn` is a symmetry set where no liveness is
checked; descriptors are numbers, the kernel giving out the lowest.  In
`containers` the queue is filled to ten, and nine adds let the setups with
removals replace their players more than once; deadlock is not checked there,
since seq_nums run out.

**Fairness.**  `game` assumes weak fairness of each of the two threads:
they run on a preemptive scheduler, `epoll_wait` has a timeout of 100 ms and
the game thread only sleeps.  No fairness is assumed of the network or of any
player.  Fairness does not end a drain that picks keep going: the net thread may
take its turn as often as the game thread, and `Terminates` excepts this
(`DrainedForEver`).  `session` assumes weak fairness of `SendNew` and `Resend`, the network
thread of the client, which loops every tick, and strong fairness of
`ReceiveInit`: of an INIT that is sent again and again one copy arrives while
the server would take it.  `ports` assumes weak fairness of the reaper, whose wait has a timeout
of one second, and that `waitpid` does not pass over an exited child for ever:
the kernel walks the children in the order of their forks.  Nothing is assumed
of the matchmaker.  `lobby_live` assumes weak fairness of the orchestrator and
of the matchmaker, two threads that wait in `epoll_wait` with a timeout, and
strong fairness of `SendAll`: a client that stays reads, so that a send that is
tried again and again is finished some time.  Nothing is assumed of clients
beyond that, nor of the return of ports: `MatchIsFormed` asks for a match only
as long as a port is free.

## Where code and documentation disagree

* `init_once`: `how-to-use-network-manager.txt` says INIT must be delivered
  exactly once and sends it with retransmission.  `players_registry_add_next`
  takes an id it already has, so the copies fill the slots, and a player who
  comes later is refused; the match never starts and the process ends at the
  connection deadline, or starts with one player twice.
* `port_lost`: `ORCHESTRATOR.md` says that the port of a child that exits is
  pushed back.  It is not if the child is reaped before `pm_register_port`.
* `tree_removal`: `players_queue.h` says `pop_from_queue` removes and returns
  the first player.  With five players waiting, the removal calls
  `right_rotate` on a node without a left child.  A match takes four, so five
  wait when they arrive in one round or while no port is free.
* `queue_wrap`: `players_queue.h` says `pq_ready` checks that the queue contains
  at least `goal` players.  A client that hangs up while waiting is not removed;
  when its descriptor is given to a new client who also waits, `fd_seq_mapping`
  has two entries for it.  Popping the departed player takes the newest entry,
  which is the new player's; the new player's cancel then finds the old entry,
  removes nobody from the tree, and is answered.  An entry left over is counted
  down a second time, so that `cur_size` falls below the number of players, and
  at last below zero.  From then on every add is refused as over capacity and
  `pq_ready` is always true.
* Not a run: `multiplayer_item_manager.gd:57` calls ITEMS_AUTH "the server's
  authoritative item list" and removes what it does not name.
  `form_item_auth_packet` enumerates the ids below the number of items left, so
  after a pickup the list omits an item that is still on the map.  The models
  have it (`ListedItems`).
* Not a run: `GAME_PROCESS.md` says a packet is stored if it is the latest of
  its player.  The code tests reliable packets only.
* Not a run: `NetworkManager.gd:291` says a reliable packet is retransmitted
  until an ACK with the same sequence number comes.  Every packet has number 0:
  a newer one takes the place of an older one that is not acknowledged, and the
  ACK of one, even of the match before, ends the retransmission of another
  (`SendNew`, `AckArrives`).
* Not a run: `MatchManager.gd:3` says its timer logic is for singleplayer only.
  In a multiplayer match `_sync_match_time` calls `set_time` with whole seconds,
  which ends the match when less than one is left: the client stops up to a
  second before the server.  `ScreenFollowsMatch` says that it is not more.
* Not a run: `ORCHESTRATOR.md` describes an earlier design in some points.  It
  says the orchestrator closes the TCP connection once the port has been sent;
  the code keeps it open, and the client uses it for its next search.

The session shows more of which no document speaks.  Two clients may both keep
one item, for a pick is acknowledged before it is granted.  An item list that
arrives late puts items back on the map which others have taken.  A client that
misses every init broadcast stays in the loading phase, and one that misses the
last packets of a match never finishes: its clock moves with packets only.  The
retry of an INIT whose ACK was lost gets no ACK once the registry is full.

## Proofs

All proofs are for every value of the constants that satisfies the named
assumption of the module (`SpscAssumption`: at least two slots;
`GameAssumption`: natural numbers, at least one player, and a mail drop of at
least `players_num` usable places, of which the code has 99;
`SessionAssumption`: clients are players, counts are natural numbers;
`SystemAssumption`: clients are players, a countdown of at least one tick;
`PortAssumption`:
a finite pool whose ports are all different; `LobbyAssumption` and
`QueueAssumption`: descriptors are numbers, a match has at least one player, a
request at least one part, and every other size is any natural number;
`ContainersAssumption`: a table has at least one chain, and every other size is
any natural number).

* **`SpscQueue_proofs`**: `IndInv` is inductive (`Inductive`).  `NoSlotRace`
  alone is not: that the slots differ follows from how far each side's view can
  lag, so `ProducerView` bounds, seen from the producer's stale head, what the
  ring holds, `ConsumerView` keeps the consumer's view behind the tail, and
  `Published` says that the slots between are written.  `Refinement` maps every
  step to `Put`, `Take` or a stutter.
* **`GameServer_proofs`**: `IndInv` is inductive.  The roster invariant needs
  `Seating` (until every slot is taken, nothing is announced, no game loop
  runs, the drop holds exactly the INITs under way, and an index not handed out
  has no sequence number): then no INIT is ever dropped as outdated or for want
  of room, and INITs leave the drop in the order of the registry.  One lemma
  per part of the invariant (`RosterStep`, `SeatingStep`, `MailboxStep`,
  `ItemsStep`, `ClockStep`, `TypeStep`), each with one step per action that can
  disturb it; `Frame` disposes of the others.  `PicksInsideMatch` follows.
  `ClockFallsLittle`, which is about the order in which the server sends and not
  about what the network makes of it, needs `BroadcastClock`: a state
  packet in its herald is from this tick or the last, an item list at most one
  `ITEMS_AUTH_RATE` old.  `ServiceImplemented` maps every step to a step of
  `GameService` or a stutter; it needs `PicksInDrop`, that every pick in the
  drop is from a registered player.
* **`GameSession_proofs`**: `IndInv` is inductive (`SessionInductive`).  That the
  client sends what `GameServer` assumes (`AssumptionMet`) and that it is
  credited only with what it took (`CreditEarned`) need `PicksAreBacked`, which
  follows a pick through the queue, the packet kept, the network and the
  server's set of undecided picks; that a taken item stays away
  (`TakenForGood`) needs `ItemsLeaveTables`: it has left `spawned_items`, which
  no list refills; that the screen is right (`ScreenCorrect`) needs
  `ClocksBehind`: no packet, old or new, is ahead of the server.
* **`GameSystem_proofs`**: `SystemInv` is inductive (`SystemInductive`).  It is
  `GameServer`'s `IndInv` with two parts for the network: `AfterAnnouncement`
  (a client past its loading screen, and a pick anywhere on its way, mean that
  the init packet was broadcast) and `WrittenFirst` (what was broadcast or waits
  in a herald was written, and the state packet of a tick before its item
  list).  With the first, every step is a step of `GameServer`
  (`ProcessMeetsAssumption`); with the second, a step of `GameSession` or a
  stutter (`SessionImplemented`), one lemma per action of the system.  What is
  proved of the parts then holds of the whole: `ItemsEndToEnd`,
  `ClientsEndToEnd`.  `Shown` is `GameSession_proofs` with the system's
  variables, whose theorems are cited as they stand.
* **`PortManager_proofs`**: `IndInv` is inductive.  Four lemmas say what taking
  from and putting into the queue and the table does to the sets of free and of
  mapped ports (`TakeFront`, `PutBack`, `TakeEntry`, `PutEntry`); every step
  then leaves the ports where they are or moves one (`PlacesStep`).  That the
  queue has room (`RoomLeft`) is counting: what it holds is an injection into
  the ports less the one in somebody's hands.  `Holding` ties a registered
  game to its own entry, `Pending` extends `NoForgottenZombie` to the time
  before the reaper runs, and needs that the reaper is not there before
  `Create` (`NoReaperYet`).  `PoolImplemented` maps every step to a step of
  `PortPool` or a stutter: a port the matchmaker holds is still free, one the
  reaper holds not yet, and registering it is what gives it to a game.

* **`Lobby_proofs`**: `IndInv` is inductive.  The two threads meet in the
  middle of each other's batches, so it says first what a batch may still rely
  on: `EventsAreDue` (an event not handled yet is still due: no other handler
  has drained its counter or closed its descriptor) and `MatchmakerPlace` (the
  same for the matchmaker, and what it holds at each place).  `FreeIsClean` and
  `BacklogIsNew` make the state of a descriptor start afresh with each
  connection.  Then `OutputWillBeSent`, `ReadingResumes` and
  `SignalsMatchQueues` say of each buffer, connection and queue who will serve
  it.  `OwnResultWhileUp` is not inductive: it needs that a result names one
  connection by id and descriptor all the way through queue, match and broker
  (`IdentityTravels`), and that a descriptor's earlier connections have hung up
  (`OthersAreDown`).  One lemma per part of the invariant, with a frame lemma for
  each group of variables (`ConnectionFrame`, `MatchmakerFrame`,
  `OrchestratorFrame`, `BrokerFrame`) that disposes of the actions that do not
  touch it.
* **`LobbySearch_proofs`**: `SearchInv` is inductive with `IndInv`
  (`SearchesSettle`).  `OneOutcome` and `QueueAgreesWithoutHeirs` need each
  other, and `OneHolder`, that all that is under way about a descriptor concerns
  one connection: a cancel takes the player it answers because the entry of its
  descriptor is that player's (`EntriesFollowPlayers`), and a request finds no
  entry because its search is in one place.  `Settled` splits the places of a
  search into seven stages, from the request in the stream to the result in
  the mail, of which one at most is filled, with one place; a step moves a place
  one stage on or drops it (one lemma per kind of step: `ClientSettled`,
  `RequestSettled`, `OrchestratorSettled`, `MessageSettled`, `PopSettled`,
  `NotifySettled`).  The request taken off a stream is whole because a
  descriptor waits in `recv_queue` once, with a full buffer and reading off, unless
  its connection is an heir (`RequestsWait`); the lemmas about sequences (`Regroup`,
  `AskedLess`) say that a stream read in pieces is the stream that was sent.
  `RequestsCutRight` needs no condition but that the client itself is no heir.
  `HeirsStay` and `NoNewHeirs` make the condition of the others usable: an heir
  stays one, so `NoHeirs` held before whenever it holds after a step, and a step
  that accepts a connection then found its descriptor free.
  `MatchmakingImplemented` maps every step to a step of `Matchmaking` or a
  stutter (`ServiceStep`).  It needs `MatchIsFirst`, which holds with or without
  heirs: a match in the making has the first of the queue, each once, and
  `cur_size` counts those it lacks.  Most steps only move a request or an answer
  one place on or drop it; `Kept` and `Thins` say so of each place, and
  `LineStays` that the line is as it was.  That a client who asks neither waits
  already nor has an answer under way is `Settled` again.

* **`QueueContainers_proofs`**: `QueueInv` is inductive (`QueueStaysInOrder`), for
  every capacity, table size, `MIX` and number of adds, if no descriptor waits
  twice (`WaitsOnce`).  A search tree is usually defined by recursion, which is
  out of reach here; `Ordered` says instead that there is an interval for every
  node, that a child has the half of its parent's interval on its side, that a
  missing child leaves a gap without numbers, and that every node but the root
  hangs from one.  The operations are then shown twice: what they do to the
  pointers (`RotateRightView`, `AttachView`, `UnlinkView`), and that with new
  intervals the order holds again (`RightRotation`, `AttachKeepsOrder`,
  `UnlinkKeepsOrder`).  `RebalanceKeepsOrder` needs nothing of the key and
  nothing of the heights: a rotation chosen by the wrong key, or by freed memory,
  costs balance or crashes, but never the order.  `Place` says that a call is at
  a node whose interval holds the number it looks for, so that a search that
  ends has missed nothing (`SearchStep`).  The removal by successor is the
  hard part: between the copy and the unlinking two nodes hold one player;
  `Numbers` keeps the old number for `target` until then, so that the order
  holds in between, and `AtRemove` says that no number lies between the two.
  For the table, `TableOK` says that an entry lies in the chain of its key, alone
  of its key, and in one array only; every operation then has the effect it has
  on a function from descriptors to values (`RechainTable`, `InsertTable`,
  `RemoveTable`).  `QueueImplemented` maps every step to a step of `PlayersQueue`
  or a stutter: the last step of an add, the first of a cancel and the last of a
  pop.  That the popped player is the first is `AtMinimum`, the left edge of the
  tree, where intervals begin at 0.  The crash is in the model, as a stutter: that
  removals return is not proved but refuted (`tree_removal`).

Only model-checked: `Terminates`, `PortComesBack`, `ResultReachesClient`,
`RequestIsRead`, `MatchIsFormed`, `InitLeadsToSeat` (liveness, out of the
prover's reach); `StaysFlat`, which is about the depths of subtrees and so
recursive; and `ImplementsPlayersQueue` where a descriptor waits twice.

## Not modelled, and why

* Allocation failures after start (a failing `calloc` in `create_player` after
  the registry has taken the id) and failures of mutexes.
* Destruction of the containers, and allocations that fail in them.
* `Shutdown`: `main.c` destroys the broker, its eventfds and the log before it
  joins the threads that use them.  The end of the threads is in `PortManager`
  (`Exit`); what they read from a destroyed broker is undefined, and no document
  says what a shutdown must leave behind.
* The engine's scene tree and its deferred calls
  (`multiplayer_item_manager.gd:110` takes an item off the tree at the end of
  the frame), and the timers of a singleplayer match.
* Positions, velocities, scores; map parsing; the byte layout of packets.
* Signals other than SIGCHLD, and SIGPIPE from a `send` to a client (`Killed`).
  A write to the pipe of a child that is gone (`spawn_process`) raises SIGPIPE as
  well; `PortManager` has that write fail, and not the end of the supervisor.
* Client physics, animation, inventory widgets and menus: single-threaded
  callbacks of the engine.
* Vendored code (`addons/gut`) and assets.

## Plan

1. (done) `SpscQueue`, `GameServer`, `PortManager`, `Lobby` with
   `PlayersQueue`, each with its proofs.
2. (done) `AvlTree`, `HashTable` and `QueueContainers`, which implements
   `PlayersQueue`, with the proof for descriptors that wait once.
3. (done) `GameService`, which `GameServer` implements, and `GameSession` around
   it, with their proofs.
4. (done) Proofs of `RequestsStayWhole`, `QueueAgreesWithoutHeirs` and `OneOutcome`.
5. (done) `GameSystem`, in which the assumptions of `GameServer` and
   `GameSession` about each other are proved, and `PortPool`, which `PortManager`
   implements.
6. (done) `Matchmaking`, which `Lobby` implements as long as there are no heirs.
7. The order in which a shutdown destroys what the threads use, once the project
   says what it must leave behind.
