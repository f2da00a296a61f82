----------------------------- MODULE GameServer ----------------------------
(***************************************************************************)
(* One game process (src/server/game): the net thread, the game thread,    *)
(* and the structures they share - the post office (mail drop and          *)
(* mailboxes), the two heralds and the stop flags.                         *)
(*                                                                         *)
(* The network is any sequence of datagrams the players' clients may have  *)
(* produced: a datagram can arrive any number of times, late, out of order *)
(* or never.  A client talks only INIT until the server has broadcast an   *)
(* init packet (announced): items and the player's body do not exist on    *)
(* its side before (crumbling-coffers/Scripts/Game/game.gd, init).         *)
(*                                                                         *)
(* A step is one shared access: one datagram, one push or pop of the mail  *)
(* drop (SpscQueue shows a push and a pop are atomic), one locked access   *)
(* of a mailbox or a herald, one look at the stop flags.  game_stop and    *)
(* net_stop are set together and read together: they are the flag stop.    *)
(***************************************************************************)
EXTENDS Integers, Sequences, FiniteSets

CONSTANTS
  Player,       \* players_ids: the ids the supervisor put on the pipe
  Stranger,     \* ids that occur in datagrams and are not in players_ids
  SeqNum,       \* sequence numbers clients put in their headers
  players_num,
  ITEMS,        \* number of items create_game spawns, ids 0 .. ITEMS - 1
  MAIL_DROP_SIZE,
  CONNECTION_DEADLINE_TICKS,
  GAME_INIT_TICKS,
  GAME_DURATION_TICKS,
  ITEMS_AUTH_RATE,
  None          \* an empty mailbox or herald

ASSUME GameAssumption ==
  /\ players_num \in Nat \ {0}
  /\ MAIL_DROP_SIZE \in Nat /\ MAIL_DROP_SIZE > players_num
  /\ SeqNum \subseteq Nat /\ 0 \in SeqNum
  /\ ITEMS \in Nat
  /\ {CONNECTION_DEADLINE_TICKS, GAME_INIT_TICKS, GAME_DURATION_TICKS}
       \subseteq Nat
  /\ ITEMS_AUTH_RATE \in Nat \ {0}

Item == 0 .. ITEMS - 1
Slot == 1 .. players_num     \* C index + 1

(* struct Packet, as far as the server looks at it.  INIT and PICK carry    *)
(* CTRL_FLAG_RELIABLE; a regular packet has control 0.                      *)
InitPacket == [control : {"INIT"}, player_id : Player \union Stranger, seq_num : SeqNum]
PickPacket == [control : {"PICK"}, player_id : Player \union Stranger, seq_num : SeqNum,
               item_id : Item]
RegPacket  == [control : {"REG"}, player_id : Player \union Stranger, seq_num : SeqNum]
Reliable == InitPacket \union PickPacket
Datagram == Reliable \union RegPacket

(* control & CTRL_FLAG_RELIABLE                                             *)
IsReliable(d) == d.control \in {"INIT", "PICK"}

(* A packet of a herald: what the server broadcasts.                        *)
ServerPacket == [kind : {"INIT", "AUTH", "ITEMS"}, tick : Nat, items : SUBSET Item]

VARIABLES
  \* net thread
  npc,          \* its place in run_net_t
  room,         \* datagrams net_receive_packets may still read in this call
  registry,     \* player ids in the order they took an index
  seqnums,      \* last sequence number per index
  \* post office, heralds and flags
  mail_drop,
  mailbox,
  herald,
  items_herald,
  stop,
  \* game thread
  gpc,          \* its place in run_game_t
  slot,         \* mailbox the game loop reads next
  server_tick,
  start_tick,
  stop_tick,
  status,       \* game->status
  players,      \* game->players up to players_connected
  pose,         \* sequence number of the input a player's state comes from
  inventory,    \* player->items
  items,        \* game->items, by id
  items_num,
  \* history
  announced,    \* an init packet was broadcast
  last_sent     \* tick of the packet broadcast last

registryVars == <<registry, seqnums>>
postVars == <<mail_drop, mailbox>>
clockVars == <<server_tick, start_tick, stop_tick, status>>
worldVars == <<players, pose, inventory, items, items_num>>
netVars == <<npc, room, registryVars>>
gameVars == <<gpc, slot, clockVars, worldVars>>
history == <<announced, last_sent>>
vars == <<netVars, postVars, herald, items_herald, stop, gameVars, history>>

Init ==
  /\ npc = "start" /\ room = 0
  /\ registry = <<>> /\ seqnums = [i \in Slot |-> 0]
  /\ mail_drop = <<>> /\ mailbox = [i \in Slot |-> None]
  /\ herald = None /\ items_herald = None
  /\ stop = FALSE
  /\ gpc = "start" /\ slot = 1
  /\ server_tick = 0 /\ start_tick = 0 /\ stop_tick = 0
  /\ status = "NOT_READY"
  /\ players = <<>> /\ pose = [i \in Slot |-> 0]
  /\ inventory = [i \in Slot |-> {}]
  /\ items = Item /\ items_num = ITEMS
  /\ announced = FALSE /\ last_sent = 0

-----------------------------------------------------------------------------
(* Players registry and post office.                                        *)

(* A caller that goes on with index 0 when the id is unknown.                *)
IndexOfUnknownIsFirst(reg, id) ==
  LET found == {i \in DOMAIN reg : reg[i] = id}
  IN IF found = {} THEN 1 ELSE CHOOSE i \in found : \A j \in found : j <= i

(* players_registry_get_index: the hash table returns the newest entry.     *)
IndexOf(reg, id) ==
  LET found == {i \in DOMAIN reg : reg[i] = id}
  IN IF found = {} THEN 0 ELSE CHOOSE i \in found : \A j \in found : j <= i

(* An allowlist nobody looks at.                                             *)
AddNextAcceptsAnyId(id) == Len(registry) < players_num

(* players_registry_add_next accepts the id.                                *)
AddNextAccepts(id) == Len(registry) < players_num /\ id \in Player

(* post_office_mail_drop_push, whose result net_receive_packets ignores.    *)
MailDropPush(d) ==
  mail_drop' = IF Len(mail_drop) < MAIL_DROP_SIZE - 1
               THEN Append(mail_drop, d) ELSE mail_drop

-----------------------------------------------------------------------------
(* The net thread: run_net_t.                                               *)

NetStart ==
  /\ npc = "start"
  /\ npc' = "top"
  /\ UNCHANGED <<room, registryVars, postVars, herald, items_herald, stop, gameVars, history>>

(* players_registry_create, open_udp_socket, epoll_create1 or epoll_ctl     *)
(* fails, or later epoll_wait: goto exit.                                   *)
NetFails ==
  /\ npc \in {"start", "wait"}
  /\ npc' = "exit"
  /\ UNCHANGED <<room, registryVars, postVars, herald, items_herald, stop, gameVars, history>>

(* main could not create the net thread: it stops the game thread.          *)
NetNotCreated ==
  /\ npc = "start"
  /\ npc' = "done"
  /\ stop' = TRUE
  /\ UNCHANGED <<room, registryVars, postVars, herald, items_herald, gameVars, history>>

NetTop ==
  /\ npc = "top"
  /\ npc' = IF stop THEN "exit" ELSE "state"
  /\ UNCHANGED <<room, registryVars, postVars, herald, items_herald, stop, gameVars, history>>

(* herald_read(herald), then net_broadcast_state to every registered player.*)
NetState ==
  /\ npc = "state"
  /\ npc' = "items"
  /\ herald' = None
  /\ IF herald = None
     THEN UNCHANGED <<announced, last_sent>>
     ELSE /\ last_sent' = herald.tick
          /\ announced' = (announced \/ herald.kind = "INIT")
  /\ UNCHANGED <<room, registryVars, postVars, items_herald, stop, gameVars>>

(* herald_read(items_herald), then net_broadcast_state.                     *)
NetItems ==
  /\ npc = "items"
  /\ npc' = "wait"
  /\ items_herald' = None
  /\ last_sent' = IF items_herald = None THEN last_sent ELSE items_herald.tick
  /\ UNCHANGED <<room, registryVars, postVars, herald, stop, gameVars, announced>>

(* epoll_wait times out or is interrupted, or the socket is readable.       *)
NetWait ==
  /\ npc = "wait"
  /\ \/ npc' = "top" /\ UNCHANGED room
     \/ npc' = "recv" /\ room' = players_num
  /\ UNCHANGED <<registryVars, postVars, herald, items_herald, stop, gameVars, history>>

(* One iteration of the loop of net_receive_packets is over.                *)
NextIteration ==
  /\ npc = "recv"
  /\ room' = room - 1
  /\ npc' = IF room = 1 THEN "top" ELSE "recv"

(* udp_read fails: nothing left to read.                                    *)
NetReadNone ==
  /\ npc = "recv"
  /\ npc' = "top"
  /\ UNCHANGED <<room, registryVars, postVars, herald, items_herald, stop, gameVars, history>>

(* A datagram of the wrong size or of another game.                         *)
NetForeign ==
  /\ NextIteration
  /\ UNCHANGED <<registryVars, postVars, herald, items_herald, stop, gameVars, history>>

(* An INIT the registry does not accept is dropped without an ACK.          *)
Refused(d) == d.control = "INIT" /\ ~AddNextAccepts(d.player_id)

(* The header is acknowledged, whatever happens to the packet next.         *)
Acked(d) == IsReliable(d) /\ ~Refused(d)

(* A test that takes the first packet, or a repeated one, for an old one.    *)
OutdatedOrEqual(d, i) == IsReliable(d) /\ d.seq_num <= seqnums[i]

(* The packet of an index is outdated: only reliable packets are tested.    *)
Outdated(d, i) == IsReliable(d) /\ d.seq_num < seqnums[i]

Refuse(d) ==
  /\ Refused(d)
  /\ NextIteration
  /\ UNCHANGED <<registryVars, postVars, herald, items_herald, stop, gameVars, history>>

Receive(d) ==
  LET reg == IF d.control = "INIT" THEN Append(registry, d.player_id) ELSE registry
      idx == IndexOf(reg, d.player_id)
  IN
  /\ ~Refused(d)
  /\ NextIteration
  /\ registry' = reg
  /\ IF idx = 0 \/ Outdated(d, idx)
     THEN UNCHANGED <<seqnums, postVars>>
     ELSE /\ seqnums' = [seqnums EXCEPT ![idx] = d.seq_num]
          /\ IF IsReliable(d)
             THEN MailDropPush(d) /\ UNCHANGED mailbox
             ELSE mailbox' = [mailbox EXCEPT ![idx] = d] /\ UNCHANGED mail_drop
  /\ UNCHANGED <<herald, items_herald, stop, gameVars, announced, last_sent>>

(* The datagrams clients can have sent by now.                              *)
CanArrive(d) == d.control = "INIT" \/ announced

NetRefuse(d) == CanArrive(d) /\ Refuse(d)
NetReceive(d) == CanArrive(d) /\ Receive(d)

NetExit ==
  /\ npc = "exit"
  /\ npc' = "done"
  /\ stop' = TRUE
  /\ UNCHANGED <<room, registryVars, postVars, herald, items_herald, gameVars, history>>

NetNext ==
  \/ NetStart \/ NetFails \/ NetNotCreated \/ NetTop \/ NetState \/ NetItems
  \/ NetWait \/ NetReadNone \/ NetForeign
  \/ \E d \in Datagram : NetRefuse(d) \/ NetReceive(d)
  \/ NetExit

-----------------------------------------------------------------------------
(* The game thread: run_game_t.                                             *)

(* create_game succeeds, or fails and the thread cleans up.                 *)
GameStart ==
  /\ gpc = "start"
  /\ gpc' \in {"connect", "exit"}
  /\ UNCHANGED <<netVars, postVars, herald, items_herald, stop, slot, clockVars, worldVars, history>>

(* The loop conditions of run_connection_loop and run_game_loop.  Leaving   *)
(* the connection loop this way returns false.                              *)
ConnectTop ==
  /\ gpc = "connect"
  /\ gpc' = IF stop THEN "exit" ELSE "connect_drain"
  /\ UNCHANGED <<netVars, postVars, herald, items_herald, stop, slot, clockVars, worldVars, history>>

(* Pop one packet; handle_init_packet takes an INIT of a known player into  *)
(* the next slot of game->players; anything else is dropped.                *)
ConnectPop ==
  /\ gpc = "connect_drain"
  /\ mail_drop # <<>>
  /\ mail_drop' = Tail(mail_drop)
  /\ LET d == Head(mail_drop) IN
     players' = IF d.control = "INIT" /\ d.player_id \in Player
                THEN Append(players, d.player_id) ELSE players
  /\ UNCHANGED <<netVars, mailbox, herald, items_herald, stop, gpc, slot, clockVars,
                 pose, inventory, items, items_num, history>>

(* players_connected == players_num                                          *)
AllConnected == Len(players) = players_num

(* The drop is empty: everybody is there, or the deadline is reached, or    *)
(* the thread sleeps until the next tick.                                   *)
ConnectDecide ==
  /\ gpc = "connect_drain"
  /\ mail_drop = <<>>
  /\ \/ /\ AllConnected
        /\ start_tick' = server_tick + GAME_INIT_TICKS
        /\ stop_tick' = server_tick + GAME_INIT_TICKS + GAME_DURATION_TICKS
        /\ status' = "INIT"
        /\ gpc' = "play"
        /\ UNCHANGED server_tick
     \/ /\ ~AllConnected
        /\ server_tick >= CONNECTION_DEADLINE_TICKS
        /\ gpc' = "exit"
        /\ UNCHANGED clockVars
     \/ /\ ~AllConnected
        /\ server_tick < CONNECTION_DEADLINE_TICKS
        /\ server_tick' = server_tick + 1
        /\ gpc' = "connect"
        /\ UNCHANGED <<start_tick, stop_tick, status>>
  /\ UNCHANGED <<netVars, postVars, herald, items_herald, stop, slot, worldVars, history>>

(* A countdown that is over as soon as it begins.                            *)
StartedAtOnce == status = "STARTED" \/ server_tick >= 0

(* The match is under way, and over: update_game_status at the head of       *)
(* run_game_loop (and one tick too late).                                    *)
Started == status = "STARTED" \/ server_tick >= start_tick
FinishedLate == Started /\ server_tick > stop_tick
Finished == Started /\ server_tick >= stop_tick

(* The loop condition, the status changes and the test of a finished game.   *)
PlayTop ==
  /\ gpc = "play"
  /\ IF stop THEN gpc' = "exit" /\ UNCHANGED status
     ELSE /\ status' = IF Finished THEN "FINISHED" ELSE IF Started THEN "STARTED" ELSE status
          /\ gpc' = IF Finished THEN "exit" ELSE IF Started THEN "play_drain" ELSE "publish"
  /\ UNCHANGED <<netVars, postVars, herald, items_herald, stop, slot,
                 server_tick, start_tick, stop_tick, worldVars, history>>

(* The slot of game->players the loops of player_item_pickup and            *)
(* update_game stop at: the first with the id.                              *)
PlayerSlot(id) ==
  LET found == {i \in DOMAIN players : players[i] = id}
  IN IF found = {} THEN 0 ELSE CHOOSE i \in found : \A j \in found : i <= j

(* A pickup that does not look whether the item is still there.             *)
PickUpAgain(d) ==
  LET s == PlayerSlot(d.player_id)
  IN IF s # 0
     THEN /\ inventory' = [inventory EXCEPT ![s] = @ \union {d.item_id}]
          /\ items' = items \ {d.item_id}
          /\ items_num' = items_num - 1
     ELSE UNCHANGED <<inventory, items, items_num>>

(* player_item_pickup: the item moves from the table to the player.         *)
PickUp(d) ==
  LET s == PlayerSlot(d.player_id)
  IN IF s # 0 /\ d.item_id \in items
     THEN /\ inventory' = [inventory EXCEPT ![s] = @ \union {d.item_id}]
          /\ items' = items \ {d.item_id}
          /\ items_num' = items_num - 1
     ELSE UNCHANGED <<inventory, items, items_num>>

PlayPop ==
  /\ gpc = "play_drain"
  /\ mail_drop # <<>>
  /\ mail_drop' = Tail(mail_drop)
  /\ IF Head(mail_drop).control = "PICK"
     THEN PickUp(Head(mail_drop))
     ELSE UNCHANGED <<inventory, items, items_num>>
  /\ UNCHANGED <<netVars, mailbox, herald, items_herald, stop, gpc, slot, clockVars,
                 players, pose, history>>

PlayDrained ==
  /\ gpc = "play_drain"
  /\ mail_drop = <<>>
  /\ gpc' = "read"
  /\ slot' = 1
  /\ UNCHANGED <<netVars, postVars, herald, items_herald, stop, clockVars, worldVars, history>>

(* post_office_read of one mailbox and update_game with what it held.       *)
PlayRead ==
  /\ gpc = "read"
  /\ mailbox' = [mailbox EXCEPT ![slot] = None]
  /\ LET d == mailbox[slot]
         s == IF d = None THEN 0 ELSE PlayerSlot(d.player_id)
     IN pose' = IF s = 0 THEN pose ELSE [pose EXCEPT ![s] = d.seq_num]
  /\ IF slot = players_num
     THEN gpc' = "publish" /\ slot' = 1
     ELSE gpc' = gpc /\ slot' = slot + 1
  /\ UNCHANGED <<netVars, mail_drop, herald, items_herald, stop, clockVars,
                 players, inventory, items, items_num, history>>

(* form_item_auth_packet and form_init_packet look up ids below items_num.  *)
ListedItems == {i \in items : i < items_num}

ItemsDue == status = "STARTED" /\ server_tick % ITEMS_AUTH_RATE = 0

(* form_init_packet or form_auth_packet, and herald_write.                  *)
Publish ==
  /\ gpc = "publish"
  /\ herald' = IF status = "INIT"
               THEN [kind |-> "INIT", tick |-> server_tick, items |-> ListedItems]
               ELSE [kind |-> "AUTH", tick |-> server_tick, items |-> {}]
  /\ IF ItemsDue
     THEN gpc' = "publish_items" /\ UNCHANGED server_tick
     ELSE gpc' = "play" /\ server_tick' = server_tick + 1
  /\ UNCHANGED <<netVars, postVars, items_herald, stop, slot, start_tick, stop_tick,
                 status, worldVars, history>>

(* An item list whose tick was not filled in.                               *)
PublishItemsUnstamped ==
  /\ gpc = "publish_items"
  /\ items_herald' = [kind |-> "ITEMS", tick |-> 0, items |-> ListedItems]
  /\ gpc' = "play"
  /\ server_tick' = server_tick + 1
  /\ UNCHANGED <<netVars, postVars, herald, stop, slot, start_tick, stop_tick,
                 status, worldVars, history>>

(* form_item_auth_packet, herald_write(items_herald), and the next tick.    *)
PublishItems ==
  /\ gpc = "publish_items"
  /\ items_herald' = [kind |-> "ITEMS", tick |-> server_tick, items |-> ListedItems]
  /\ gpc' = "play"
  /\ server_tick' = server_tick + 1
  /\ UNCHANGED <<netVars, postVars, herald, stop, slot, start_tick, stop_tick,
                 status, worldVars, history>>

(* A game thread that ends on its own.                                       *)
GameExitAlone ==
  /\ gpc = "exit"
  /\ gpc' = "done"
  /\ UNCHANGED <<netVars, postVars, herald, items_herald, stop, slot, clockVars, worldVars, history>>

(* destroy_game and the flags.                                               *)
GameExit ==
  /\ gpc = "exit"
  /\ gpc' = "done"
  /\ stop' = TRUE
  /\ UNCHANGED <<netVars, postVars, herald, items_herald, slot, clockVars, worldVars, history>>

GameNext ==
  \/ GameStart \/ ConnectTop \/ ConnectPop \/ ConnectDecide
  \/ PlayTop \/ PlayPop \/ PlayDrained \/ PlayRead \/ Publish \/ PublishItems
  \/ GameExit

(* main has joined both threads: the process has returned. *)
Exited ==
  /\ npc = "done" /\ gpc = "done"
  /\ UNCHANGED vars

Next == NetNext \/ GameNext \/ Exited

Spec == Init /\ [][Next]_vars

(* Both threads are scheduled; the epoll timeout makes the net thread loop  *)
(* even when nothing arrives, and the game thread's sleep always ends.      *)
FairSpec == Spec /\ WF_vars(NetNext) /\ WF_vars(GameNext)

-----------------------------------------------------------------------------
TypeOK ==
  /\ npc \in {"start", "top", "state", "items", "wait", "recv", "exit", "done"}
  /\ gpc \in {"start", "connect", "connect_drain", "play", "play_drain", "read",
              "publish", "publish_items", "exit", "done"}
  /\ room \in 0 .. players_num /\ (npc = "recv" => room > 0)
  /\ registry \in Seq(Player)
  /\ seqnums \in [Slot -> SeqNum]
  /\ mail_drop \in Seq(Reliable)
  /\ mailbox \in [Slot -> RegPacket \union {None}]
  /\ herald \in ServerPacket \union {None}
  /\ items_herald \in ServerPacket \union {None}
  /\ stop \in BOOLEAN /\ announced \in BOOLEAN
  /\ slot \in Slot
  /\ {server_tick, start_tick, stop_tick, last_sent} \subseteq Nat
  /\ status \in {"NOT_READY", "INIT", "STARTED", "FINISHED"}
  /\ players \in Seq(Player)
  /\ pose \in [Slot -> SeqNum]
  /\ inventory \in [Slot -> SUBSET Item]
  /\ items \in SUBSET Item
  /\ items_num \in Int

(* game->players is filled by the game thread, the registry by the net       *)
(* thread, each counting on its own; yet slot i of both belongs to the same  *)
(* player: what the registry has and game->players has not is in the mail    *)
(* drop, in order, and no other INIT is.  In particular handle_init_packet,  *)
(* which does not test players_connected, never writes past the array.       *)
Unseated == Len(registry) - Len(players)

RosterFollowsRegistry ==
  /\ Len(registry) <= players_num
  /\ Unseated \in 0 .. Len(mail_drop)
  /\ \A i \in DOMAIN players : players[i] = registry[i]
  /\ \A k \in DOMAIN mail_drop :
       IF k <= Unseated
       THEN mail_drop[k].control = "INIT" /\ mail_drop[k].player_id = registry[Len(players) + k]
       ELSE mail_drop[k].control # "INIT"

(* Mailbox i holds input of the player in slot i only, although the net      *)
(* thread indexes it by its registry and the game thread by its own array.   *)
MailboxFollowsRoster ==
  \A i \in Slot : mailbox[i] # None =>
    i <= Len(players) /\ mailbox[i].player_id = players[i]

(* Whatever is repeated or raced for, an item is on the map or with exactly  *)
(* one player, and items_num counts the ones on the map.                     *)
ItemConservation ==
  /\ items \union UNION {inventory[i] : i \in Slot} = Item
  /\ \A i \in Slot : inventory[i] \intersect items = {}
  /\ \A i, j \in Slot : i # j => inventory[i] \intersect inventory[j] = {}
  /\ items_num = Cardinality(items)

(* Items change hands only inside the match: picks that arrive during the    *)
(* countdown wait in the drop, and none is applied at stop_tick or later.    *)
PicksInsideMatch ==
  [][status = "STARTED" /\ start_tick <= server_tick /\ server_tick < stop_tick]_inventory

(* The two heralds are read one after the other while the game thread goes   *)
(* on, so an items packet can leave after a newer state packet; it is never  *)
(* more than one items period older.  This is the order in which the server  *)
(* sends; the network may reorder it further (ScreenFollowsMatch, of         *)
(* GameSession, is about the clocks of the clients).                         *)
ClockFallsAtMostOnePeriod ==
  [][last_sent' >= last_sent - ITEMS_AUTH_RATE]_last_sent

(* The inductive invariant: the three relations above and what they rest on. *)
(* Nobody is announced, and no game loop runs, before every slot is taken;   *)
(* until then the drop holds just the INITs that wait for their slot, and an *)
(* index that was not handed out has no sequence number to be outdated by.   *)
InGameLoop == gpc \in {"play", "play_drain", "read", "publish", "publish_items"}

Seating ==
  /\ InGameLoop \/ announced \/ herald # None => AllConnected
  /\ ~AllConnected => Len(mail_drop) = Unseated
  /\ \A i \in Slot : i > Len(registry) => seqnums[i] = 0

(* The phase follows the game thread's loops: it drains and reads only while *)
(* the match is under way, and publishes in the countdown besides.           *)
MatchClock ==
  /\ gpc \in {"start", "connect", "connect_drain"} => status = "NOT_READY"
  /\ InGameLoop => status \in {"INIT", "STARTED"}
  /\ status = "STARTED" => start_tick <= server_tick
  /\ gpc \in {"play_drain", "read"} => status = "STARTED" /\ server_tick < stop_tick
  /\ gpc \in {"publish", "publish_items"} =>
       \/ status = "INIT" /\ server_tick < start_tick
       \/ status = "STARTED" /\ server_tick < stop_tick

(* No pick comes before the announcement, and a queued one has its player.   *)
PicksInDrop ==
  /\ gpc \in {"start", "connect", "connect_drain"} => ~announced /\ herald = None
  /\ \A k \in DOMAIN mail_drop : mail_drop[k].control = "PICK" =>
       announced /\ \E i \in DOMAIN registry : registry[i] = mail_drop[k].player_id

(* A herald's packet is of this tick or the last, a list of the last period,  *)
(* and nothing that was broadcast is from a tick to come.                    *)
BroadcastClock ==
  /\ last_sent <= server_tick
  /\ gpc = "publish_items" => ItemsDue /\ (herald # None => herald.tick = server_tick)
  /\ herald # None => herald.tick <= server_tick /\ server_tick <= herald.tick + 1
  /\ items_herald # None =>
       /\ status \in {"STARTED", "FINISHED"}
       /\ items_herald.tick % ITEMS_AUTH_RATE = 0
       /\ items_herald.tick <= server_tick
       /\ server_tick <= items_herald.tick + ITEMS_AUTH_RATE

IndInv ==
  /\ TypeOK
  /\ RosterFollowsRegistry
  /\ Seating
  /\ PicksInDrop
  /\ MailboxFollowsRoster
  /\ ItemConservation
  /\ MatchClock
  /\ BroadcastClock

(* Taken as one, the two threads and what they share are the service that    *)
(* GameService describes: the mail drop is the set of its picks, the game    *)
(* thread's roster is the registry, and a pick granted late, to a wrong slot *)
(* or a second time, a phase skipped or a tick too many, is none of its steps. *)
PickOf(d) == [player_id |-> d.player_id, item_id |-> d.item_id]
PicksIn(drop) == {PickOf(drop[k]) : k \in {j \in DOMAIN drop : drop[j].control = "PICK"}}
Closed == npc \in {"exit", "done"}

Service == INSTANCE GameService WITH pending <- PicksIn(mail_drop), closed <- Closed

ImplementsService == Service!Spec

(* The process returns: at the deadline if somebody is missing, at stop_tick *)
(* otherwise, or because one thread failed and took the other down.  It does *)
(* not if picks keep arriving so fast that one drain of the mail drop, whose *)
(* loop ends with an empty drop only, never ends: no tick would follow.      *)
DrainedForEver == <>[](gpc = "play_drain")

Terminates == <>(npc = "done" /\ gpc = "done") \/ DrainedForEver

-----------------------------------------------------------------------------
(* What the documentation says and the code does not do.                     *)

(* how-to-use-network-manager.txt: INIT "registers the client with the game  *)
(* server and must be delivered exactly once" - and is retransmitted, so the *)
(* server meets it more than once.                                           *)
OneSlotPerPlayer ==
  \A i, j \in DOMAIN players : players[i] = players[j] => i = j

=============================================================================
