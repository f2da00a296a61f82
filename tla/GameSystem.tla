----------------------------- MODULE GameSystem -----------------------------
(***************************************************************************)
(* One match from end to end: the game process of GameServer and the       *)
(* clients of GameSession, with the network between them.                  *)
(*                                                                         *)
(* GameServer takes any datagram that clients may send, and GameSession    *)
(* puts its clients around the service of GameService.  Here the clients'  *)
(* datagrams are what the net thread reads, and the heralds' packets, when *)
(* the net thread has got to them, are what the clients read.  What the    *)
(* modules assume of each other is then no assumption any more.            *)
(***************************************************************************)
EXTENDS GameServer

CONSTANTS
  Client,       \* the players whose program is modelled
  SERVER_TICK_RATE

ASSUME SystemAssumption ==
  /\ Client \subseteq Player
  /\ {GAME_INIT_TICKS, SERVER_TICK_RATE} \subseteq Nat \ {0}

VARIABLES
  up, acks, published,                              \* the network
  to_send, sent,                                    \* the clients
  screen, match_over, seen_tick,
  spawned, active, taken,
  written       \* history: packets put into a herald that the net thread may read

Clients == INSTANCE GameSession WITH pending <- PicksIn(mail_drop), closed <- Closed

networkVars == <<up, acks, published>>
clientVars == <<to_send, sent, screen, match_over, seen_tick, spawned, active, taken>>
systemVars == <<vars, networkVars, clientVars, written>>

SystemInit == Init /\ Clients!Init /\ written = {}

-----------------------------------------------------------------------------
(* The clients, with what has been broadcast to them.                      *)

ClientStep(c) == UNCHANGED <<vars, written>> /\ Clients!ClientNext(c)

Lose == UNCHANGED <<vars, written>> /\ Clients!Lose

-----------------------------------------------------------------------------
(* What the net thread reads.                                              *)

(* Every header of the client has sequence number 0.                       *)
OnWire(d) ==
  IF d.control = "PICK"
  THEN [control |-> "PICK", player_id |-> d.player_id, seq_num |-> 0, item_id |-> d.item_id]
  ELSE [control |-> d.control, player_id |-> d.player_id, seq_num |-> 0]

(* An INIT or a pick of a client, acknowledged or not.                     *)
ReadClient(d) ==
  /\ d \in up
  /\ Refuse(OnWire(d)) \/ Receive(OnWire(d))
  /\ acks' = IF Acked(OnWire(d)) THEN acks \union {d.player_id} ELSE acks
  /\ UNCHANGED <<up, published, clientVars, written>>

(* The state of a client's player, who is there since the init packet.     *)
ReadInput(c) ==
  /\ screen[c] # "LOADING"
  /\ Receive([control |-> "REG", player_id |-> c, seq_num |-> 0])
  /\ UNCHANGED <<networkVars, clientVars, written>>

(* A datagram of somebody else, who has seen an init packet, or sends INIT. *)
ReadOther(d) ==
  /\ d.player_id \notin Client
  /\ d.control = "INIT" \/ Clients!InitPublished
  /\ Refuse(d) \/ Receive(d)
  /\ UNCHANGED <<networkVars, clientVars, written>>

-----------------------------------------------------------------------------
(* What it broadcasts, and what the game thread gives it to broadcast.     *)

Broadcast ==
  /\ \/ NetState /\ published' = published \union ({herald} \ {None})
     \/ NetItems /\ published' = published \union ({items_herald} \ {None})
  /\ UNCHANGED <<up, acks, clientVars, written>>

Write ==
  /\ \/ Publish /\ written' = IF Closed THEN written ELSE written \union {herald'}
     \/ PublishItems /\ written' = IF Closed THEN written ELSE written \union {items_herald'}
  /\ UNCHANGED <<networkVars, clientVars>>

(* Neither thread reads or writes a packet.                                *)
Internal ==
  /\ \/ NetStart \/ NetFails \/ NetNotCreated \/ NetTop \/ NetWait \/ NetReadNone
     \/ NetForeign \/ NetExit
     \/ GameStart \/ ConnectTop \/ ConnectPop \/ ConnectDecide
     \/ PlayTop \/ PlayPop \/ PlayDrained \/ PlayRead \/ GameExit
  /\ UNCHANGED <<networkVars, clientVars, written>>

SystemNext ==
  \/ \E c \in Client : ClientStep(c) \/ ReadInput(c)
  \/ \E d \in up : ReadClient(d)
  \/ \E d \in Datagram : ReadOther(d)
  \/ Broadcast \/ Write \/ Internal \/ Lose

SystemSpec == SystemInit /\ [][SystemNext]_systemVars

-----------------------------------------------------------------------------
(* The game process meets only what GameServer allows for: no pick and no   *)
(* input of a player reaches it before it has broadcast an init packet.     *)
ProcessAsAssumed == Spec

(* And the clients meet a service as GameSession describes it: what they    *)
(* are sent is published with the tick it is formed in.                     *)
Session == INSTANCE GameSession WITH
             pending <- PicksIn(mail_drop), closed <- Closed, published <- written

ImplementsSession == Session!Spec

(* The inductive invariant, with that of the game process.  A client is      *)
(* launched, and so has a pick on its way, after the announcement only ...   *)
NetworkTypeOK ==
  /\ up \in SUBSET Clients!Upward
  /\ to_send \in [Client -> Seq(Clients!Upward)]
  /\ sent \in [Client -> Clients!Upward \union {None}]
  /\ DOMAIN screen = Client

AfterAnnouncement ==
  /\ announced <=> Clients!InitPublished
  /\ \A c \in Client : screen[c] # "LOADING" => announced
  /\ \A d \in up : d.control = "PICK" => announced
  /\ \A c \in Client : \A d \in Clients!Held(c) : d.control = "PICK" => announced
  /\ items_herald # None => items_herald.kind = "ITEMS"

(* ... and a packet is written before it is broadcast: with the item list of *)
(* a tick comes its state packet.                                            *)
WrittenFirst ==
  /\ published \subseteq written
  /\ ~Closed =>
       /\ ({herald, items_herald} \ {None}) \subseteq written
       /\ gpc = "publish_items" =>
            [kind |-> "AUTH", tick |-> server_tick, items |-> {}] \in written

SystemInv ==
  /\ IndInv
  /\ NetworkTypeOK
  /\ AfterAnnouncement
  /\ WrittenFirst

=============================================================================
