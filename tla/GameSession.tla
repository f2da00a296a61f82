---------------------------- MODULE GameSession -----------------------------
(***************************************************************************)
(* A match seen from its clients (src/crumbling-coffers): the loading      *)
(* phase of lobby.gd, the phases and the clock of game.gd, the item tables *)
(* of multiplayer_item_manager.gd and the reliable layer of                *)
(* NetworkManager.gd, around the service of GameService.                   *)
(*                                                                         *)
(* Datagrams are lost, repeated, delayed and reordered in both directions. *)
(* Players who are not in Client are other people's programs that keep to  *)
(* the protocol.  A client learns start_tick and stop_tick from the init   *)
(* packet it is launched by; the service never changes them after that, so *)
(* the client's copies are not variables of their own.                     *)
(***************************************************************************)
EXTENDS Integers, Sequences, FiniteSets

CONSTANTS
  Player,       \* the ids of this match
  Client,       \* the players whose program is modelled
  players_num, ITEMS, CONNECTION_DEADLINE_TICKS, GAME_INIT_TICKS,
  GAME_DURATION_TICKS, ITEMS_AUTH_RATE,
  SERVER_TICK_RATE,
  None          \* nothing to retransmit

ASSUME SessionAssumption ==
  /\ Client \subseteq Player
  /\ {players_num, GAME_INIT_TICKS, ITEMS_AUTH_RATE, SERVER_TICK_RATE} \subseteq Nat \ {0}
  /\ {ITEMS, CONNECTION_DEADLINE_TICKS, GAME_DURATION_TICKS} \subseteq Nat

VARIABLES
  \* the game process
  registry, status, server_tick, start_tick, stop_tick, inventory, items, pending, closed,
  \* the network
  up,           \* datagrams on their way to the server
  acks,         \* clients with an ACK on its way (every header has seq_num 0)
  published,    \* packets broadcast so far: each may arrive any number of times
  \* the clients
  to_send,      \* _reliable_packets_to_send
  sent,         \* _sent_reliable_packets[0]
  screen,       \* the lobby's loading phase, then game_status
  match_over,   \* MatchManager.current_state is ENDED
  seen_tick,    \* game.server_tick
  spawned,      \* ids in spawned_items
  active,       \* ids in active_items
  taken         \* items the player has been given

Server == INSTANCE GameService

serverVars == <<registry, status, server_tick, start_tick, stop_tick,
                inventory, items, pending, closed>>
networkVars == <<up, acks, published>>
reliableVars == <<to_send, sent>>
matchVars == <<screen, match_over, seen_tick>>
itemVars == <<spawned, active, taken>>
vars == <<serverVars, networkVars, reliableVars, matchVars, itemVars>>

InitOf(c) == [control |-> "INIT", player_id |-> c]
PickOf(c, i) == [control |-> "PICK", player_id |-> c, item_id |-> i]
Upward == {InitOf(c) : c \in Client} \union {PickOf(c, i) : c \in Client, i \in Server!Item}

\* _on_game_found has queued the INIT.  The match before this one may have
\* left MatchManager, which outlives the scenes, ENDED, and an ACK on its way.
Init ==
  /\ Server!Init
  /\ up = {} /\ acks \in SUBSET Client /\ published = {}
  /\ to_send = [c \in Client |-> <<InitOf(c)>>]
  /\ sent = [c \in Client |-> None]
  /\ screen = [c \in Client |-> "LOADING"]
  /\ match_over \in [Client -> BOOLEAN]
  /\ seen_tick = [c \in Client |-> 0]
  /\ spawned = [c \in Client |-> {}] /\ active = [c \in Client |-> {}]
  /\ taken = [c \in Client |-> {}]

-----------------------------------------------------------------------------
(* NetworkManager: the reliable layer.                                     *)

(* The packets are sent once and nothing is kept.                          *)
SendOnly(c) ==
  /\ to_send[c] # <<>>
  /\ up' = up \union {to_send[c][k] : k \in DOMAIN to_send[c]}
  /\ to_send' = [to_send EXCEPT ![c] = <<>>]
  /\ UNCHANGED <<sent, serverVars, acks, published, matchVars, itemVars>>

send_udp_reliable(c, packet) == to_send' = [to_send EXCEPT ![c] = Append(@, packet)]

(* The queue is drained.  Each packet is kept under its sequence number,    *)
(* the same for all, so the last one is what will be retransmitted.         *)
SendNew(c) ==
  /\ to_send[c] # <<>>
  /\ up' = up \union {to_send[c][k] : k \in DOMAIN to_send[c]}
  /\ sent' = [sent EXCEPT ![c] = to_send[c][Len(to_send[c])]]
  /\ to_send' = [to_send EXCEPT ![c] = <<>>]
  /\ UNCHANGED <<serverVars, acks, published, matchVars, itemVars>>

Resend(c) ==
  /\ sent[c] # None
  /\ up' = up \union {sent[c]}
  /\ UNCHANGED <<serverVars, acks, published, reliableVars, matchVars, itemVars>>

AckArrives(c) ==
  /\ c \in acks
  /\ sent' = [sent EXCEPT ![c] = None]
  /\ UNCHANGED <<serverVars, networkVars, to_send, matchVars, itemVars>>

-----------------------------------------------------------------------------
(* The client's scenes.                                                    *)

(* A game scene that is entered when the match was found.                  *)
LaunchAtOnce(c) ==
  /\ screen[c] = "LOADING"
  /\ screen' = [screen EXCEPT ![c] = "PREMATCH"]
  /\ spawned' = [spawned EXCEPT ![c] = Server!Item]
  /\ active' = [active EXCEPT ![c] = Server!Item]
  /\ UNCHANGED <<match_over, seen_tick, taken, serverVars, networkVars, reliableVars>>

\* Game.init: the items of the packet are spawned, and are on the map.
init(c, packet) ==
  /\ spawned' = [spawned EXCEPT ![c] = packet.items]
  /\ active' = [active EXCEPT ![c] = packet.items]

(* The lobby drops what it receives until an init packet comes, which is    *)
(* broadcast to registered addresses only.                                  *)
Launch(c) ==
  /\ screen[c] = "LOADING" /\ c \in Server!Registered
  /\ \E p \in published : p.kind = "INIT" /\ init(c, p)
  /\ screen' = [screen EXCEPT ![c] = "PREMATCH"]
  /\ UNCHANGED <<match_over, seen_tick, taken, serverVars, networkVars, reliableVars>>

\* What is on the map after an item list: of it, what the client still has.
update_active_items(c, list) == list.items \intersect spawned[c]

(* What _process_network leaves behind: the tick of the last packet it got, *)
(* and the map after the last item list.                                    *)
Received(c) ==
  LET lists == {p \in published : p.kind = "ITEMS"}
  IN {[tick |-> seen_tick[c], active |-> active[c]]}
     \union {[tick |-> p.tick, active |-> update_active_items(c, p)] : p \in lists}
     \union {[tick |-> p.tick, active |-> a] :
               p \in published \ lists,
               a \in {active[c]} \union {update_active_items(c, q) : q \in lists}}

Started(c, tick) ==
  screen[c] = "RUNNING" \/ (screen[c] = "PREMATCH" /\ tick >= start_tick)

(* MatchManager's state taken over as the match before left it.             *)
OverBeforeKept(c) == match_over[c]

(* What _update_game_status finds in MatchManager: RUNNING if it just set it.*)
OverBefore(c) == match_over[c] /\ screen[c] # "PREMATCH"

\* MatchManager.set_time ends the match when it is told of no whole second more.
TimeIsUp(tick) == (stop_tick - tick) \div SERVER_TICK_RATE <= 0

(* Game._process: the packets, _update_game_status, then _sync_match_time.  *)
Frame(c) ==
  /\ screen[c] # "LOADING"
  /\ \E r \in Received(c) :
       LET running  == Started(c, r.tick)
           finished == running /\ (r.tick >= stop_tick \/ OverBefore(c))
       IN /\ seen_tick' = [seen_tick EXCEPT ![c] = r.tick]
          /\ active' = [active EXCEPT ![c] = r.active]
          /\ screen' = [screen EXCEPT ![c] =
               IF finished THEN "FINISHED" ELSE IF running THEN "RUNNING" ELSE @]
          /\ match_over' = [match_over EXCEPT ![c] =
               IF running THEN finished \/ TimeIsUp(r.tick) ELSE @]
  /\ UNCHANGED <<spawned, taken, serverVars, networkVars, reliableVars>>

(* The item is only taken off the map, to come back with the next list.     *)
RemoveFromMap(c, i) ==
  /\ active' = [active EXCEPT ![c] = @ \ {i}]
  /\ UNCHANGED spawned

(* remove_item                                                              *)
Remove(c, i) ==
  /\ active' = [active EXCEPT ![c] = @ \ {i}]
  /\ spawned' = [spawned EXCEPT ![c] = @ \ {i}]

(* handle_player_pickup for an item on the map: the player is given it,     *)
(* the server is told, and the item is gone here.                           *)
PickUp(c, i) ==
  /\ screen[c] # "LOADING" /\ i \in active[c]
  /\ taken' = [taken EXCEPT ![c] = @ \union {i}]
  /\ send_udp_reliable(c, PickOf(c, i))
  /\ Remove(c, i)
  /\ UNCHANGED <<sent, serverVars, networkVars, matchVars>>

ClientNext(c) ==
  \/ SendNew(c) \/ Resend(c) \/ AckArrives(c)
  \/ Launch(c) \/ Frame(c)
  \/ \E i \in Server!Item : PickUp(c, i)

-----------------------------------------------------------------------------
(* The server and the network.                                             *)

(* A new INIT is acknowledged; one that finds the registry full is not, and  *)
(* changes nothing.                                                         *)
ReceiveInit(c) ==
  /\ InitOf(c) \in up
  /\ Server!Register(c)
  /\ acks' = acks \union {c}
  /\ UNCHANGED <<up, published, reliableVars, matchVars, itemVars>>

(* A pick is acknowledged before it is known whether there is room for it.  *)
ReceivePick(d) ==
  /\ d \in up /\ d.control = "PICK" /\ ~closed
  /\ \/ Server!TakeOver([player_id |-> d.player_id, item_id |-> d.item_id])
     \/ UNCHANGED serverVars
  /\ acks' = acks \union {d.player_id}
  /\ UNCHANGED <<up, published, reliableVars, matchVars, itemVars>>

(* The other players; they too have items only after an init packet.         *)
OthersNext ==
  /\ \E p \in Player \ Client :
       \/ Server!Register(p)
       \/ /\ \E q \in published : q.kind = "INIT"
          /\ \E i \in Server!Item : Server!TakeOver([player_id |-> p, item_id |-> i])
  /\ UNCHANGED <<networkVars, reliableVars, matchVars, itemVars>>

(* The game thread; a tick's packets go out as long as the net thread runs.  *)
ServerNext ==
  \/ /\ \/ Server!Wait \/ Server!Announce \/ Server!Start \/ Server!Finish \/ Server!Close
        \/ \E pick \in Server!Pick : Server!Decide(pick)
     /\ UNCHANGED <<networkVars, reliableVars, matchVars, itemVars>>
  \/ /\ Server!Tick
     /\ published' = IF closed THEN published ELSE published \union Server!PacketsOfTick
     /\ UNCHANGED <<up, acks, reliableVars, matchVars, itemVars>>

(* When an item list is due, the state packet may be out before the list is  *)
(* formed and the tick over.                                                *)
StateAhead ==
  /\ Server!ItemsDue /\ server_tick < stop_tick /\ ~closed
  /\ published' = published \union {Server!StatePacket}
  /\ UNCHANGED <<up, acks, serverVars, reliableVars, matchVars, itemVars>>

Lose ==
  /\ \/ \E d \in up : up' = up \ {d} /\ UNCHANGED acks
     \/ \E c \in acks : acks' = acks \ {c} /\ UNCHANGED up
  /\ UNCHANGED <<published, serverVars, reliableVars, matchVars, itemVars>>

Next ==
  \/ \E c \in Client : ClientNext(c) \/ ReceiveInit(c)
  \/ \E d \in up : ReceivePick(d)
  \/ OthersNext \/ ServerNext \/ StateAhead \/ Lose

Spec == Init /\ [][Next]_vars

(* The network thread of the client keeps looping, and of an INIT that is    *)
(* sent again and again one copy gets through to a server that takes it.     *)
FairSpec ==
  /\ Spec
  /\ \A c \in Client :
       WF_vars(SendNew(c)) /\ WF_vars(Resend(c)) /\ SF_vars(ReceiveInit(c))

-----------------------------------------------------------------------------
TypeOK ==
  /\ registry \in Seq(Player) /\ Len(registry) <= players_num
  /\ status \in {"NOT_READY", "INIT", "STARTED", "FINISHED"}
  /\ {server_tick, start_tick, stop_tick} \subseteq Nat
  /\ inventory \in [Server!Slot -> SUBSET Server!Item] /\ items \in SUBSET Server!Item
  /\ pending \in SUBSET Server!Pick /\ closed \in BOOLEAN
  /\ up \in SUBSET Upward /\ acks \in SUBSET Client
  /\ published \in SUBSET
       [kind : {"INIT", "AUTH", "ITEMS"}, tick : Nat, items : SUBSET Server!Item]
  /\ to_send \in [Client -> Seq(Upward)] /\ sent \in [Client -> Upward \union {None}]
  /\ screen \in [Client -> {"LOADING", "PREMATCH", "RUNNING", "FINISHED"}]
  /\ match_over \in [Client -> BOOLEAN] /\ seen_tick \in [Client -> Nat]
  /\ {spawned, active, taken} \subseteq [Client -> SUBSET Server!Item]

(* What GameServer assumes of its clients: a pick can reach the server only  *)
(* after an init packet was broadcast, and from a player with a slot.        *)
InitPublished == \E p \in published : p.kind = "INIT"

EnvironmentHolds ==
  \A d \in up : d.control = "PICK" =>
    InitPublished /\ d.player_id \in Server!Registered

(* The server never credits a client with an item its player did not take,   *)
(* through all repetitions, races with other players and stale item lists.   *)
CreditFollowsTaking ==
  \A k \in DOMAIN registry : registry[k] \in Client => inventory[k] \subseteq taken[registry[k]]

(* An item the player took is never on the player's map again, although late *)
(* item lists that still name it keep arriving: it cannot be taken twice.    *)
TakenStaysTaken == \A c \in Client : taken[c] \intersect active[c] = {}

(* The client plays only while the server's match is under way, and stops    *)
(* less than a second before the server does, whatever its packets do to the *)
(* clock and whatever the match before left behind.                          *)
ScreenFollowsMatch ==
  \A c \in Client :
    /\ screen[c] = "RUNNING" => status \in {"STARTED", "FINISHED"}
    /\ screen[c] = "FINISHED" => server_tick > stop_tick - SERVER_TICK_RATE

(* The inductive invariant.  What the server has of a client (credited items, *)
(* undecided picks) and what is on its way to it (kept, queued or in flight) *)
(* is backed by an item taken, by a player who was launched ...              *)
Backed(d) ==
  d.control = "PICK" => screen[d.player_id] # "LOADING" /\ d.item_id \in taken[d.player_id]

Held(c) == ({sent[c]} \ {None}) \union {to_send[c][k] : k \in DOMAIN to_send[c]}

PicksAreBacked ==
  /\ \A d \in up : Backed(d)
  /\ \A c \in Client : \A d \in Held(c) : Backed(d)
  /\ \A pick \in pending :
       /\ pick.player_id \in Server!Registered
       /\ pick.player_id \in Client => pick.item_id \in taken[pick.player_id]
  /\ \A k \in Server!Slot : k > Len(registry) => inventory[k] = {}

(* ... an item taken has left the tables, and nobody is launched unseated ... *)
ItemsLeaveTables ==
  \A c \in Client :
    /\ active[c] \subseteq spawned[c] /\ taken[c] \intersect spawned[c] = {}
    /\ IF screen[c] = "LOADING" THEN spawned[c] = {} /\ taken[c] = {}
       ELSE InitPublished /\ c \in Server!Registered

(* ... and no packet, hence no client's clock, is ahead of the server's.      *)
MatchUnderWay == status \in {"STARTED", "FINISHED"}

ClocksBehind ==
  /\ status = "NOT_READY" => published = {}
  /\ status # "NOT_READY" => start_tick > 0
  /\ \A p \in published :
       p.tick <= server_tick /\ (p.tick >= start_tick => MatchUnderWay)
  /\ \A c \in Client :
       /\ seen_tick[c] <= server_tick
       /\ screen[c] # "LOADING" /\ seen_tick[c] >= start_tick => MatchUnderWay
       /\ screen[c] = "LOADING" => seen_tick[c] = 0
       /\ screen[c] = "RUNNING" => MatchUnderWay
       /\ screen[c] = "FINISHED" \/ (screen[c] = "RUNNING" /\ match_over[c])
            => server_tick > stop_tick - SERVER_TICK_RATE

IndInv ==
  /\ TypeOK
  /\ PicksAreBacked
  /\ CreditFollowsTaking
  /\ ItemsLeaveTables
  /\ ClocksBehind

(* A client that holds an unacknowledged INIT gets a slot, unless the match  *)
(* fills up or the process ends first, or an ACK of the match before is      *)
(* still about to be taken for the one it waits for.                         *)
HoldsInit(c) ==
  sent[c] = InitOf(c) \/ \E k \in DOMAIN to_send[c] : to_send[c][k] = InitOf(c)

InitLeadsToSeat ==
  \A c \in Client :
    (HoldsInit(c) /\ c \notin acks) ~>
      (c \in Server!Registered \/ Len(registry) = players_num \/ closed)
=============================================================================
