----------------------------- MODULE GameService ----------------------------
(***************************************************************************)
(* What one game process promises its clients, without its threads, mail   *)
(* drop and mailboxes: who is in the match, the clock and the phases, and  *)
(* which picks are granted.  GameServer implements it; GameSession puts it *)
(* between the clients.                                                    *)
(***************************************************************************)
EXTENDS Integers, Sequences, FiniteSets

CONSTANTS
  Player,       \* the ids of this match
  players_num,
  ITEMS,        \* number of items, ids 0 .. ITEMS - 1
  CONNECTION_DEADLINE_TICKS,
  GAME_INIT_TICKS,
  GAME_DURATION_TICKS,
  ITEMS_AUTH_RATE

VARIABLES
  registry,     \* player ids in the order of their slots
  status,
  server_tick, start_tick, stop_tick,
  inventory,    \* items granted, by slot
  items,        \* items nobody has
  pending,      \* picks taken over and not decided, [player_id, item_id]
  closed        \* the process receives nothing any more

clock == <<server_tick, start_tick, stop_tick, status>>
world == <<inventory, items, pending>>
service == <<registry, clock, world, closed>>

Item == 0 .. ITEMS - 1
Slot == 1 .. players_num
Pick == [player_id : Player, item_id : Item]

Init ==
  /\ registry = <<>> /\ closed = FALSE
  /\ status = "NOT_READY"
  /\ server_tick = 0 /\ start_tick = 0 /\ stop_tick = 0
  /\ inventory = [i \in Slot |-> {}] /\ items = Item /\ pending = {}

Registered == {registry[i] : i \in DOMAIN registry}

\* An INIT of a player of the match takes the next slot, again if it is repeated.
Register(p) ==
  /\ ~closed /\ Len(registry) < players_num
  /\ registry' = Append(registry, p)
  /\ UNCHANGED <<clock, world, closed>>

\* A pick is acknowledged in any case, and taken over if there is room.
TakeOver(pick) ==
  /\ ~closed /\ pick.player_id \in Registered
  /\ pending' = pending \union {pick}
  /\ UNCHANGED <<registry, clock, inventory, items, closed>>

\* The process waits for players up to a deadline.
Wait ==
  /\ status = "NOT_READY" /\ server_tick < CONNECTION_DEADLINE_TICKS
  /\ server_tick' = server_tick + 1
  /\ UNCHANGED <<registry, start_tick, stop_tick, status, world, closed>>

Announce ==
  /\ status = "NOT_READY" /\ Len(registry) = players_num
  /\ status' = "INIT"
  /\ start_tick' = server_tick + GAME_INIT_TICKS
  /\ stop_tick' = server_tick + GAME_INIT_TICKS + GAME_DURATION_TICKS
  /\ UNCHANGED <<registry, server_tick, world, closed>>

Start ==
  /\ status = "INIT" /\ start_tick <= server_tick /\ server_tick < stop_tick
  /\ status' = "STARTED"
  /\ UNCHANGED <<registry, server_tick, start_tick, stop_tick, world, closed>>

Finish ==
  /\ status \in {"INIT", "STARTED"}
  /\ start_tick <= server_tick /\ stop_tick <= server_tick
  /\ status' = "FINISHED"
  /\ UNCHANGED <<registry, server_tick, start_tick, stop_tick, world, closed>>

\* A tick does not pass over the beginning or the end of the match.
Tick ==
  /\ \/ status = "INIT" /\ server_tick < start_tick
     \/ status = "STARTED" /\ server_tick < stop_tick
  /\ server_tick' = server_tick + 1
  /\ UNCHANGED <<registry, start_tick, stop_tick, status, world, closed>>

\* The first slot of a player.
SlotOf(p) ==
  LET found == {i \in DOMAIN registry : registry[i] = p}
  IN CHOOSE i \in found : \A j \in found : i <= j

(* An item goes to the first slot, whoever asked for it.                   *)
GrantFirst(pick) ==
  IF pick.item_id \in items
  THEN /\ inventory' = [inventory EXCEPT ![1] = @ \union {pick.item_id}]
       /\ items' = items \ {pick.item_id}
  ELSE UNCHANGED <<inventory, items>>

Grant(pick) ==
  IF pick.item_id \in items
  THEN /\ inventory' = [inventory EXCEPT ![SlotOf(pick.player_id)] = @ \union {pick.item_id}]
       /\ items' = items \ {pick.item_id}
  ELSE UNCHANGED <<inventory, items>>

\* A pick is decided while the match runs; a copy of it may wait behind it.
Decide(pick) ==
  /\ status = "STARTED" /\ start_tick <= server_tick /\ server_tick < stop_tick
  /\ pick \in pending
  /\ pending' \in {pending, pending \ {pick}}
  /\ Grant(pick)
  /\ UNCHANGED <<registry, clock, closed>>

Close ==
  /\ ~closed /\ closed' = TRUE
  /\ UNCHANGED <<registry, clock, world>>

Next ==
  \/ Wait \/ Announce \/ Start \/ Finish \/ Tick \/ Close
  \/ \E p \in Player : Register(p)
  \/ \E pick \in Pick : TakeOver(pick) \/ Decide(pick)

Spec == Init /\ [][Next]_service

\* The packets formed from this state (form_init_packet, form_auth_packet and
\* form_item_auth_packet).  Items are listed by id below the number of items left.
Listed == {i \in items : i < Cardinality(items)}

StatePacket ==
  IF status = "INIT"
  THEN [kind |-> "INIT", tick |-> server_tick, items |-> Listed]
  ELSE [kind |-> "AUTH", tick |-> server_tick, items |-> {}]

ItemsPacket ==
  [kind |-> "ITEMS", tick |-> server_tick, items |-> Listed]

ItemsDue == status = "STARTED" /\ server_tick % ITEMS_AUTH_RATE = 0

PacketsOfTick == {StatePacket} \union (IF ItemsDue THEN {ItemsPacket} ELSE {})
=============================================================================
