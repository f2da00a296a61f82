-------------------------- MODULE GameSession_proofs ------------------------
(***************************************************************************)
(* Proofs about GameSession, for every set of players and clients, number  *)
(* of items and length of the match, and any loss, delay, repetition and   *)
(* reordering of datagrams.                                                *)
(***************************************************************************)
EXTENDS GameSession, WellFoundedInduction, TLAPS

USE DEF serverVars, networkVars, reliableVars, matchVars, itemVars,
        Server!clock, Server!world

LEMMA Constants ==
  /\ Client \subseteq Player
  /\ players_num \in Nat \ {0} /\ GAME_INIT_TICKS \in Nat \ {0}
  /\ ITEMS_AUTH_RATE \in Nat \ {0} /\ SERVER_TICK_RATE \in Nat \ {0}
  /\ ITEMS \in Nat /\ CONNECTION_DEADLINE_TICKS \in Nat /\ GAME_DURATION_TICKS \in Nat
BY SessionAssumption

-----------------------------------------------------------------------------
(* The service's steps, as far as the session is concerned with them.       *)

(* A slot is taken at the end of the registry.                              *)
LEMMA RegisterEffect ==
  ASSUME TypeOK, NEW p \in Player, Server!Register(p)
  PROVE  /\ registry' \in Seq(Player) /\ Len(registry') = Len(registry) + 1
         /\ Len(registry) < players_num
         /\ \A k \in DOMAIN registry : registry'[k] = registry[k]
         /\ registry'[Len(registry) + 1] = p
         /\ Server!Registered' = Server!Registered \union {p}
         /\ UNCHANGED <<status, server_tick, start_tick, stop_tick, inventory, items,
                        pending, closed>>
<1>1. /\ registry \in Seq(Player) /\ registry' = Append(registry, p)
      /\ Len(registry) < players_num
      /\ UNCHANGED <<status, server_tick, start_tick, stop_tick, inventory, items, pending, closed>>
  BY DEF TypeOK, Server!Register
<1>2. /\ registry' \in Seq(Player) /\ Len(registry') = Len(registry) + 1
      /\ \A k \in DOMAIN registry : registry'[k] = registry[k]
      /\ registry'[Len(registry) + 1] = p
      /\ DOMAIN registry' = DOMAIN registry \union {Len(registry) + 1}
  BY <1>1
<1>3. Server!Registered' = Server!Registered \union {p}
  BY <1>2 DEF Server!Registered
<1> QED
  BY <1>1, <1>2, <1>3

(* A set of slots has a first one.                                          *)
LEMMA FirstOf ==
  ASSUME NEW T \in SUBSET Nat, T # {}
  PROVE  \E x \in T : \A y \in T : x <= y
<1>1. PICK x \in T : \A y \in T : ~(<<y, x>> \in OpToRel(<, Nat))
  BY NatLessThanWellFounded, WFMin
<1>2. ASSUME NEW y \in T PROVE x <= y
  <2>1. x \in Nat /\ y \in Nat
    OBVIOUS
  <2>2. <<y, x>> \in OpToRel(<, Nat) <=> y < x
    BY <2>1 DEF OpToRel
  <2>3. ~(y < x)
    BY <1>1, <2>2
  <2> QED
    BY <2>1, <2>3
<1> QED
  BY <1>2

(* The slot a grant goes to belongs to the player who asked.                *)
LEMMA SlotIsTheirs ==
  ASSUME TypeOK, NEW p \in Server!Registered
  PROVE  Server!SlotOf(p) \in DOMAIN registry /\ registry[Server!SlotOf(p)] = p
<1> DEFINE found == {i \in DOMAIN registry : registry[i] = p}
<1>1. found # {} /\ found \in SUBSET Nat
  BY DEF TypeOK, Server!Registered
<1>2. Server!SlotOf(p) = CHOOSE i \in found : \A j \in found : i <= j
  BY DEF Server!SlotOf
<1>3. Server!SlotOf(p) \in found
  <2> HIDE DEF found
  <2>1. \E i \in found : \A j \in found : i <= j
    BY <1>1, FirstOf
  <2> QED
    BY <1>2, <2>1
<1> QED
  BY <1>3

(* A decided pick changes at most the inventory of the slot of its player.   *)
LEMMA DecideEffect ==
  ASSUME TypeOK, NEW pick \in Server!Pick, Server!Decide(pick),
         pick.player_id \in Server!Registered
  PROVE  /\ inventory' \in [Server!Slot -> SUBSET Server!Item] /\ items' \in SUBSET Server!Item
         /\ pending' \subseteq pending
         /\ \A k \in Server!Slot : inventory'[k] \subseteq inventory[k] \union
              (IF k \in DOMAIN registry /\ registry[k] = pick.player_id
               THEN {pick.item_id} ELSE {})
         /\ UNCHANGED <<registry, status, server_tick, start_tick, stop_tick, closed>>
<1> DEFINE s == Server!SlotOf(pick.player_id)
<1>1. s \in DOMAIN registry /\ registry[s] = pick.player_id
  BY SlotIsTheirs
<1>2. s \in Server!Slot
  BY <1>1, Constants DEF TypeOK, Server!Slot
<1>3. pick.item_id \in Server!Item
  BY DEF Server!Pick
<1>4. Server!Grant(pick) /\ pending' \subseteq pending
      /\ UNCHANGED <<registry, status, server_tick, start_tick, stop_tick, closed>>
  BY DEF Server!Decide
<1>5. inventory \in [Server!Slot -> SUBSET Server!Item] /\ items \in SUBSET Server!Item
  BY DEF TypeOK
<1>6. CASE pick.item_id \in items
  <2>1. /\ inventory' = [inventory EXCEPT ![s] = @ \union {pick.item_id}]
        /\ items' = items \ {pick.item_id}
    BY <1>4, <1>6 DEF Server!Grant
  <2> HIDE DEF s
  <2> QED
    BY <1>1, <1>2, <1>3, <1>4, <1>5, <2>1
<1>7. CASE pick.item_id \notin items
  <2>1. UNCHANGED <<inventory, items>>
    BY <1>4, <1>7 DEF Server!Grant
  <2> QED
    BY <1>4, <1>5, <2>1
<1> QED
  BY <1>6, <1>7

(* What any other step of the service may do.                               *)
LEMMA PhaseEffect ==
  ASSUME TypeOK,
         Server!Wait \/ Server!Announce \/ Server!Start \/ Server!Finish \/ Server!Close \/ Server!Tick
  PROVE  /\ UNCHANGED <<registry, inventory, items, pending>>
         /\ {server_tick', start_tick', stop_tick'} \subseteq Nat /\ closed' \in BOOLEAN
         /\ status' \in {"NOT_READY", "INIT", "STARTED", "FINISHED"}
         /\ server_tick' >= server_tick
         /\ status' = "NOT_READY" => status = "NOT_READY"
         /\ MatchUnderWay => MatchUnderWay'
         /\ status # "NOT_READY" => UNCHANGED <<start_tick, stop_tick>>
         /\ status # "NOT_READY" /\ start_tick > 0 => start_tick' > 0
         /\ status = "NOT_READY" /\ status' # "NOT_READY" => start_tick' > 0
<1>0. /\ {server_tick, start_tick, stop_tick} \subseteq Nat /\ closed \in BOOLEAN
      /\ status \in {"NOT_READY", "INIT", "STARTED", "FINISHED"}
  BY DEF TypeOK
<1>1. CASE Server!Wait
  BY <1>0, <1>1 DEF Server!Wait, MatchUnderWay
<1>2. CASE Server!Announce
  BY <1>0, <1>2, Constants DEF Server!Announce, MatchUnderWay
<1>3. CASE Server!Start
  BY <1>0, <1>3 DEF Server!Start, MatchUnderWay
<1>4. CASE Server!Finish
  BY <1>0, <1>4 DEF Server!Finish, MatchUnderWay
<1>5. CASE Server!Close
  BY <1>0, <1>5 DEF Server!Close, MatchUnderWay
<1>6. CASE Server!Tick
  BY <1>0, <1>6 DEF Server!Tick, MatchUnderWay
<1> QED
  BY <1>1, <1>2, <1>3, <1>4, <1>5, <1>6

(* The packets of a tick carry it, and do not speak of a match to come as of *)
(* one that runs.                                                           *)
LEMMA TickPackets ==
  ASSUME TypeOK, Server!Tick \/ Server!ItemsDue, NEW p \in Server!PacketsOfTick
  PROVE  /\ p \in [kind : {"INIT", "AUTH", "ITEMS"}, tick : Nat, items : SUBSET Server!Item]
         /\ p.tick = server_tick
         /\ p.tick >= start_tick => status = "STARTED"
<1>1. Server!Listed \in SUBSET Server!Item /\ server_tick \in Nat
  BY DEF TypeOK, Server!Listed
<1>2. (status = "INIT" /\ server_tick < start_tick) \/ status = "STARTED"
  BY DEF Server!Tick, Server!ItemsDue
<1>0. /\ Server!StatePacket =
           IF status = "INIT" THEN [kind |-> "INIT", tick |-> server_tick, items |-> Server!Listed]
                              ELSE [kind |-> "AUTH", tick |-> server_tick, items |-> {}]
      /\ Server!ItemsPacket = [kind |-> "ITEMS", tick |-> server_tick, items |-> Server!Listed]
  BY DEF Server!StatePacket, Server!ItemsPacket
<1>3. CASE p = Server!StatePacket
  <2>1. \/ p = [kind |-> "INIT", tick |-> server_tick, items |-> Server!Listed]
        \/ p = [kind |-> "AUTH", tick |-> server_tick, items |-> {}]
    BY <1>0, <1>3
  <2> QED
    BY <1>1, <1>2, <2>1 DEF TypeOK
<1>4. CASE p # Server!StatePacket
  <2>1. Server!ItemsDue /\ p = Server!ItemsPacket
    BY <1>4 DEF Server!PacketsOfTick
  <2>2. p = [kind |-> "ITEMS", tick |-> server_tick, items |-> Server!Listed] /\ status = "STARTED"
    BY <1>0, <2>1 DEF Server!ItemsDue
  <2> QED
    BY <1>1, <2>2
<1> QED
  BY <1>3, <1>4

(* A pick that is taken over joins those that are undecided.                *)
LEMMA TakeOverEffect ==
  ASSUME NEW pick, Server!TakeOver(pick)
  PROVE  /\ pick.player_id \in Server!Registered
         /\ pending' = pending \union {pick}
         /\ UNCHANGED <<registry, status, server_tick, start_tick, stop_tick, inventory, items,
                        closed>>
BY DEF Server!TakeOver

-----------------------------------------------------------------------------
(* Nobody leaves the registry or the loading phase, and no packet or taken   *)
(* item is forgotten.                                                       *)
LEMMA Monotone ==
  ASSUME IndInv, Next
  PROVE  /\ Server!Registered \subseteq Server!Registered'
         /\ published \subseteq published'
         /\ \A c \in Client :
              taken[c] \subseteq taken'[c] /\ (screen'[c] = "LOADING" => screen[c] = "LOADING")
<1>0. TypeOK
  BY DEF IndInv
<1> DEFINE Kept == /\ UNCHANGED <<registry, published>>
                   /\ \A e \in Client : taken[e] \subseteq taken'[e]
                   /\ \A e \in Client : screen'[e] = "LOADING" => screen[e] = "LOADING"
<1>1. ASSUME NEW c \in Client, ClientNext(c)
      PROVE  Kept
  <2>1. CASE SendNew(c) \/ Resend(c) \/ AckArrives(c)
    BY <2>1 DEF SendNew, Resend, AckArrives
  <2>2. CASE Launch(c)
    BY <1>0, <2>2 DEF Launch, init, TypeOK
  <2>3. CASE Frame(c)
    BY <1>0, <2>3 DEF Frame, TimeIsUp, TypeOK
  <2>4. ASSUME NEW i \in Server!Item, PickUp(c, i)
        PROVE  Kept
    BY <1>0, <2>4 DEF PickUp, send_udp_reliable, TypeOK
  <2> QED
    BY <1>1, <2>1, <2>2, <2>3, <2>4 DEF ClientNext
<1>2. ASSUME NEW c \in Client, ReceiveInit(c)
      PROVE  Server!Registered \subseteq Server!Registered' /\ UNCHANGED <<published, taken, screen>>
  <2>1. Server!Register(c) /\ c \in Player
    BY <1>2, Constants DEF ReceiveInit
  <2> QED
    BY <1>0, <1>2, <2>1, RegisterEffect DEF ReceiveInit
<1>3. ASSUME NEW d \in up, ReceivePick(d)
      PROVE  UNCHANGED <<registry, published, taken, screen>>
  BY <1>3, TakeOverEffect DEF ReceivePick
<1>4. CASE OthersNext
  <2>1. PICK p \in Player \ Client :
          \/ Server!Register(p)
          \/ \E i \in Server!Item : Server!TakeOver([player_id |-> p, item_id |-> i])
    BY <1>4 DEF OthersNext
  <2>2. UNCHANGED <<published, taken, screen>>
    BY <1>4 DEF OthersNext
  <2>3. Server!Registered \subseteq Server!Registered'
    <3>1. CASE Server!Register(p)
      BY <1>0, <3>1, RegisterEffect
    <3>2. CASE \E i \in Server!Item : Server!TakeOver([player_id |-> p, item_id |-> i])
      BY <3>2, TakeOverEffect DEF Server!Registered
    <3> QED
      BY <2>1, <3>1, <3>2
  <2> QED
    BY <2>2, <2>3
<1>5. CASE ServerNext
  <2>1. registry' = registry
    <3>1. ASSUME NEW pick \in Server!Pick, Server!Decide(pick) PROVE registry' = registry
      BY <3>1 DEF Server!Decide
    <3> QED
      BY <1>0, <1>5, <3>1, PhaseEffect DEF ServerNext
  <2>2. published \subseteq published' /\ UNCHANGED <<taken, screen>>
    BY <1>5 DEF ServerNext
  <2> QED
    BY <2>1, <2>2 DEF Server!Registered
<1>6. CASE StateAhead \/ Lose
  BY <1>6 DEF StateAhead, Lose, Server!Registered
<1> QED
  <2>1. ASSUME NEW c \in Client, ClientNext(c)
        PROVE  Server!Registered \subseteq Server!Registered'
    BY <1>1, <2>1 DEF Server!Registered
  <2>2. ASSUME NEW d \in up, ReceivePick(d)
        PROVE  Server!Registered \subseteq Server!Registered'
    BY <1>3, <2>2 DEF Server!Registered
  <2> QED
    BY <1>1, <1>2, <1>3, <1>4, <1>5, <1>6, <2>1, <2>2 DEF Next

-----------------------------------------------------------------------------
(* The five parts of the invariant, one at a time.                          *)

LEMMA HeldType ==
  ASSUME TypeOK, NEW c \in Client
  PROVE  Held(c) \subseteq Upward /\ (to_send[c] # <<>> => to_send[c][Len(to_send[c])] \in Held(c))
<1>1. to_send[c] \in Seq(Upward) /\ sent[c] \in Upward \union {None}
  BY DEF TypeOK
<1> DEFINE q == to_send[c]
<1>2. \A k \in DOMAIN q : q[k] \in Upward
  BY <1>1
<1>3. q # <<>> => Len(q) \in DOMAIN q
  BY <1>1
<1> QED
  BY <1>1, <1>2, <1>3 DEF Held

(* A pick in flight is a client's.                                          *)
LEMMA PickInFlight ==
  ASSUME TypeOK, NEW d \in up, d.control = "PICK"
  PROVE  /\ d.player_id \in Client /\ d.item_id \in Server!Item
         /\ d = PickOf(d.player_id, d.item_id)
         /\ [player_id |-> d.player_id, item_id |-> d.item_id] \in Server!Pick
<1>1. d \in Upward
  BY DEF TypeOK
<1>2. PICK c \in Client, i \in Server!Item : d = PickOf(c, i)
  BY <1>1 DEF Upward, InitOf
<1> QED
  BY <1>2, Constants DEF PickOf, Server!Pick

(* What the packets of a frame leave behind has its type.                   *)
LEMMA ReceivedType ==
  ASSUME TypeOK, NEW c \in Client, NEW r \in Received(c)
  PROVE  r.tick \in Nat /\ r.active \in SUBSET Server!Item
<1>1. /\ seen_tick[c] \in Nat /\ active[c] \in SUBSET Server!Item
      /\ \A p \in published : p.tick \in Nat /\ p.items \in SUBSET Server!Item
  BY DEF TypeOK
<1> QED
  BY <1>1 DEF Received, update_active_items

LEMMA TypeStep ==
  ASSUME IndInv, [Next]_vars
  PROVE  TypeOK'
<1>0. TypeOK
  BY DEF IndInv
<1>1. CASE UNCHANGED vars
  BY <1>0, <1>1 DEF TypeOK, vars
<1>2. ASSUME NEW c \in Client, ClientNext(c) PROVE TypeOK'
  <2>1. to_send[c] \in Seq(Upward) /\ sent[c] \in Upward \union {None}
    BY <1>0 DEF TypeOK
  <2>2. CASE SendNew(c)
    <3>1. {to_send[c][k] : k \in DOMAIN to_send[c]} \subseteq Upward
          /\ to_send[c][Len(to_send[c])] \in Upward
      BY <1>0, <2>1, <2>2, HeldType DEF Held, SendNew
    <3>2. up' \in SUBSET Upward
      BY <1>0, <2>2, <3>1 DEF SendNew, TypeOK
    <3>3. /\ sent' = [sent EXCEPT ![c] = to_send[c][Len(to_send[c])]]
          /\ to_send' = [to_send EXCEPT ![c] = <<>>]
          /\ UNCHANGED <<serverVars, acks, published, matchVars, itemVars>>
      BY <2>2 DEF SendNew
    <3>4. sent' \in [Client -> Upward \union {None}] /\ to_send' \in [Client -> Seq(Upward)]
      BY <1>0, <3>1, <3>3 DEF TypeOK
    <3> QED
      BY <1>0, <3>2, <3>3, <3>4 DEF TypeOK
  <2>3. CASE Resend(c)
    BY <1>0, <2>1, <2>3 DEF Resend, TypeOK
  <2>4. CASE AckArrives(c)
    BY <1>0, <2>4 DEF AckArrives, TypeOK
  <2>5. CASE Launch(c)
    BY <1>0, <2>5 DEF Launch, init, TypeOK
  <2>6. CASE Frame(c)
    <3>1. PICK r \in Received(c) :
            /\ seen_tick' = [seen_tick EXCEPT ![c] = r.tick]
            /\ active' = [active EXCEPT ![c] = r.active]
            /\ \E s \in {screen[c], "RUNNING", "FINISHED"} : screen' = [screen EXCEPT ![c] = s]
            /\ \E b \in BOOLEAN : match_over' = [match_over EXCEPT ![c] = b]
      <4>1. PICK r \in Received(c) :
              LET running  == Started(c, r.tick)
                  finished == running /\ (r.tick >= stop_tick \/ OverBefore(c))
                  no_time  == (stop_tick - r.tick) \div SERVER_TICK_RATE <= 0
              IN /\ seen_tick' = [seen_tick EXCEPT ![c] = r.tick]
                 /\ active' = [active EXCEPT ![c] = r.active]
                 /\ screen' = [screen EXCEPT ![c] =
                      IF finished THEN "FINISHED" ELSE IF running THEN "RUNNING" ELSE @]
                 /\ match_over' = [match_over EXCEPT ![c] =
                      IF running THEN finished \/ no_time ELSE @]
        BY <2>6 DEF Frame, TimeIsUp
      <4>2. match_over[c] \in BOOLEAN
        BY <1>0 DEF TypeOK
      <4> QED
        BY <4>1, <4>2
    <3>2. r.tick \in Nat /\ r.active \in SUBSET Server!Item
      BY <1>0, ReceivedType
    <3>3. UNCHANGED <<spawned, taken, serverVars, networkVars, reliableVars>>
      BY <2>6 DEF Frame, TimeIsUp
    <3> QED
      BY <1>0, <3>1, <3>2, <3>3 DEF TypeOK
  <2>7. ASSUME NEW i \in Server!Item, PickUp(c, i) PROVE TypeOK'
    <3>1. PickOf(c, i) \in Upward
      BY DEF Upward
    <3>2. Append(to_send[c], PickOf(c, i)) \in Seq(Upward)
      BY <2>1, <3>1
    <3>3. to_send' \in [Client -> Seq(Upward)]
      BY <1>0, <2>7, <3>2 DEF TypeOK, PickUp, send_udp_reliable
    <3>4. {spawned', active', taken'} \subseteq [Client -> SUBSET Server!Item]
      BY <1>0, <2>7 DEF TypeOK, PickUp, send_udp_reliable, Remove
    <3> QED
      BY <1>0, <2>7, <3>3, <3>4 DEF TypeOK, PickUp, send_udp_reliable
  <2> QED
    BY <1>2, <2>2, <2>3, <2>4, <2>5, <2>6, <2>7 DEF ClientNext
<1>3. ASSUME NEW c \in Client, ReceiveInit(c) PROVE TypeOK'
  <2>1. Server!Register(c) /\ c \in Player /\ acks' = acks \union {c}
        /\ UNCHANGED <<up, published, reliableVars, matchVars, itemVars>>
    BY <1>3, Constants DEF ReceiveInit
  <2> QED
    BY <1>0, <2>1, RegisterEffect, Constants DEF TypeOK
<1>4. ASSUME NEW d \in up, ReceivePick(d) PROVE TypeOK'
  <2>1. d.player_id \in Client /\ [player_id |-> d.player_id, item_id |-> d.item_id] \in Server!Pick
    BY <1>0, <1>4, PickInFlight DEF ReceivePick
  <2>2. CASE UNCHANGED serverVars
    BY <1>0, <1>4, <2>1, <2>2 DEF TypeOK, ReceivePick
  <2>3. CASE Server!TakeOver([player_id |-> d.player_id, item_id |-> d.item_id])
    BY <1>0, <1>4, <2>1, <2>3, TakeOverEffect DEF TypeOK, ReceivePick
  <2> QED
    BY <1>4, <2>2, <2>3 DEF ReceivePick
<1>5. CASE OthersNext
  <2>1. PICK p \in Player \ Client :
          \/ Server!Register(p)
          \/ \E i \in Server!Item : Server!TakeOver([player_id |-> p, item_id |-> i])
    BY <1>5 DEF OthersNext
  <2>2. UNCHANGED <<networkVars, reliableVars, matchVars, itemVars>>
    BY <1>5 DEF OthersNext
  <2>3. CASE Server!Register(p)
    BY <1>0, <2>2, <2>3, RegisterEffect, Constants DEF TypeOK
  <2>4. ASSUME NEW i \in Server!Item, Server!TakeOver([player_id |-> p, item_id |-> i])
        PROVE  TypeOK'
    <3>1. [player_id |-> p, item_id |-> i] \in Server!Pick
      BY DEF Server!Pick
    <3> QED
      BY <1>0, <2>2, <2>4, <3>1, TakeOverEffect DEF TypeOK
  <2> QED
    BY <2>1, <2>3, <2>4
<1>6. CASE ServerNext
  <2>1. ASSUME NEW pick \in Server!Pick, Server!Decide(pick),
               UNCHANGED <<networkVars, reliableVars, matchVars, itemVars>>
        PROVE  TypeOK'
    <3>1. pick.player_id \in Server!Registered
      BY <2>1 DEF IndInv, PicksAreBacked, Server!Decide
    <3> QED
      BY <1>0, <2>1, <3>1, DecideEffect DEF TypeOK
  <2>2. CASE /\ Server!Wait \/ Server!Announce \/ Server!Start \/ Server!Finish \/ Server!Close
             /\ UNCHANGED <<networkVars, reliableVars, matchVars, itemVars>>
    BY <1>0, <2>2, PhaseEffect DEF TypeOK
  <2>3. CASE /\ Server!Tick
             /\ published' = IF closed THEN published ELSE published \union Server!PacketsOfTick
             /\ UNCHANGED <<up, acks, reliableVars, matchVars, itemVars>>
    <3>1. published' \in SUBSET
             [kind : {"INIT", "AUTH", "ITEMS"}, tick : Nat, items : SUBSET Server!Item]
      BY <1>0, <2>3, TickPackets DEF TypeOK
    <3> QED
      BY <1>0, <2>3, <3>1, PhaseEffect DEF TypeOK
  <2> QED
    BY <1>6, <2>1, <2>2, <2>3 DEF ServerNext
<1>7. CASE Lose
  BY <1>0, <1>7 DEF TypeOK, Lose
<1>8. CASE StateAhead
  <2>1. published' \in SUBSET
          [kind : {"INIT", "AUTH", "ITEMS"}, tick : Nat, items : SUBSET Server!Item]
    BY <1>0, <1>8, TickPackets DEF TypeOK, StateAhead, Server!PacketsOfTick
  <2> QED
    BY <1>0, <1>8, <2>1 DEF TypeOK, StateAhead
<1> QED
  BY <1>1, <1>2, <1>3, <1>4, <1>5, <1>6, <1>7, <1>8 DEF Next

(* What is in flight was held by a client, and what a client holds anew is a *)
(* pick of an item it has just been given.                                  *)
LEMMA Origins ==
  ASSUME IndInv, Next
  PROVE  /\ \A d \in up' : d \in up \/ \E c \in Client : d \in Held(c)
         /\ \A c \in Client : \A d \in Held(c)' :
              d \in Held(c) \/ \E i \in Server!Item :
                d = PickOf(c, i) /\ screen'[c] # "LOADING" /\ i \in taken'[c]
<1>0. TypeOK
  BY DEF IndInv
<1> DEFINE Anew(c, d) == \E i \in Server!Item :
             d = PickOf(c, i) /\ screen'[c] # "LOADING" /\ i \in taken'[c]
           Goal == /\ \A d \in up' : d \in up \/ \E c \in Client : d \in Held(c)
                   /\ \A c \in Client : \A d \in Held(c)' : d \in Held(c) \/ Anew(c, d)
<1>1. ASSUME up' \subseteq up, UNCHANGED reliableVars PROVE Goal
  BY <1>1 DEF Held
<1>2. ASSUME NEW c \in Client, SendNew(c) PROVE Goal
  <2>1. /\ sent' = [sent EXCEPT ![c] = to_send[c][Len(to_send[c])]]
        /\ to_send' = [to_send EXCEPT ![c] = <<>>]
        /\ up' = up \union {to_send[c][k] : k \in DOMAIN to_send[c]}
        /\ to_send[c][Len(to_send[c])] \in Held(c)
    BY <1>0, <1>2, HeldType DEF SendNew
  <2>2. ASSUME NEW e \in Client PROVE Held(e)' \subseteq Held(e)
    <3>1. CASE e = c
      <4>1. sent'[c] = to_send[c][Len(to_send[c])] /\ to_send'[c] = <<>>
        BY <1>0, <2>1 DEF TypeOK
      <4> QED
        BY <2>1, <3>1, <4>1 DEF Held
    <3>2. CASE e # c
      <4>1. sent'[e] = sent[e] /\ to_send'[e] = to_send[e]
        BY <1>0, <2>1, <3>2 DEF TypeOK
      <4> QED
        BY <4>1 DEF Held
    <3> QED
      BY <3>1, <3>2
  <2>3. \A d \in up' : d \in up \/ d \in Held(c)
    BY <2>1 DEF Held
  <2> QED
    BY <2>2, <2>3
<1>3. ASSUME NEW c \in Client, Resend(c) PROVE Goal
  BY <1>3 DEF Resend, Held
<1>4. ASSUME NEW c \in Client, AckArrives(c) PROVE Goal
  <2>1. \A e \in Client : (sent'[e] = sent[e] \/ sent'[e] = None) /\ to_send'[e] = to_send[e]
    BY <1>0, <1>4 DEF AckArrives, TypeOK
  <2>2. \A e \in Client : Held(e)' \subseteq Held(e)
    BY <2>1 DEF Held
  <2> QED
    BY <1>4, <2>2 DEF AckArrives
<1>5. ASSUME NEW c \in Client, NEW i \in Server!Item, PickUp(c, i) PROVE Goal
  <2>1. /\ \A e \in Client : e # c => to_send'[e] = to_send[e]
        /\ to_send'[c] = Append(to_send[c], PickOf(c, i))
        /\ sent' = sent /\ up' = up
        /\ screen'[c] # "LOADING" /\ i \in taken'[c]
    BY <1>0, <1>5 DEF PickUp, send_udp_reliable, TypeOK
  <2>2. \A d \in Held(c)' : d \in Held(c) \/ Anew(c, d)
    <3> DEFINE q == to_send[c]
               r == to_send'[c]
    <3>1. q \in Seq(Upward) /\ r = Append(q, PickOf(c, i))
      BY <1>0, <2>1 DEF TypeOK
    <3>2. \A k \in DOMAIN r : (k \in DOMAIN q /\ r[k] = q[k]) \/ r[k] = PickOf(c, i)
      BY <3>1
    <3>3. \A k \in DOMAIN r : (\E j \in DOMAIN q : r[k] = q[j]) \/ Anew(c, r[k])
      BY <2>1, <3>2
    <3> HIDE DEF Anew
    <3> QED
      BY <2>1, <3>3 DEF Held
  <2>3. \A e \in Client : e # c => Held(e)' = Held(e)
    BY <2>1 DEF Held
  <2> QED
    BY <2>1, <2>2, <2>3
<1>6. ASSUME NEW c \in Client, ClientNext(c) PROVE Goal
  <2>1. CASE Launch(c) \/ Frame(c)
    BY <1>1, <2>1 DEF Launch, init, Frame
  <2> QED
    BY <1>2, <1>3, <1>4, <1>5, <1>6, <2>1 DEF ClientNext
<1>7. CASE \/ \E c \in Client : ReceiveInit(c)
           \/ \E d \in up : ReceivePick(d)
           \/ OthersNext \/ ServerNext \/ StateAhead \/ Lose
  <2>1. up' \subseteq up /\ UNCHANGED reliableVars
    BY <1>7 DEF ReceiveInit, ReceivePick, OthersNext, ServerNext, StateAhead, Lose
  <2> QED
    BY <1>1, <2>1
<1> QED
  BY <1>6, <1>7 DEF Next

(* An undecided pick comes from a datagram, or from another program.         *)
LEMMA PendingOrigin ==
  ASSUME IndInv, Next, NEW pick \in pending', pick \notin pending
  PROVE  \/ \E d \in up : /\ d.control = "PICK" /\ pick = [player_id |-> d.player_id, item_id |-> d.item_id]
                          /\ Server!TakeOver(pick)
         \/ pick.player_id \notin Client /\ Server!TakeOver(pick)
<1>0. TypeOK
  BY DEF IndInv
<1>1. ~\E c \in Client : ClientNext(c)
  BY DEF ClientNext, SendNew, Resend, AckArrives, Launch, init, Frame, PickUp,
       send_udp_reliable
<1>2. ~\E c \in Client : ReceiveInit(c)
  BY DEF ReceiveInit, Server!Register
<1>3. ~ServerNext /\ ~StateAhead /\ ~Lose
  <2>1. ASSUME NEW q \in Server!Pick, Server!Decide(q) PROVE FALSE
    BY <2>1 DEF Server!Decide
  <2>2. ~StateAhead /\ ~Lose
    BY DEF StateAhead, Lose
  <2> QED
    BY <1>0, <2>1, <2>2, PhaseEffect DEF ServerNext
<1>4. CASE \E d \in up : ReceivePick(d)
  <2>1. PICK d \in up : ReceivePick(d)
    BY <1>4
  <2>2. Server!TakeOver([player_id |-> d.player_id, item_id |-> d.item_id]) /\ d.control = "PICK"
    BY <2>1 DEF ReceivePick
  <2> DEFINE new == [player_id |-> d.player_id, item_id |-> d.item_id]
  <2>3. pending' = pending \union {new}
    BY <2>2, TakeOverEffect
  <2>4. pick = new
    BY <2>3
  <2> QED
    BY <2>2, <2>4
<1>5. CASE OthersNext
  <2>1. PICK p \in Player \ Client :
          \/ Server!Register(p)
          \/ \E i \in Server!Item : Server!TakeOver([player_id |-> p, item_id |-> i])
    BY <1>5 DEF OthersNext
  <2>2. ~Server!Register(p)
    BY DEF Server!Register
  <2>3. PICK i \in Server!Item : Server!TakeOver([player_id |-> p, item_id |-> i])
    BY <2>1, <2>2
  <2> DEFINE new == [player_id |-> p, item_id |-> i]
  <2>4. pending' = pending \union {new}
    BY <2>3, TakeOverEffect
  <2>5. pick = new
    BY <2>4
  <2> QED
    BY <2>3, <2>5
<1> QED
  BY <1>1, <1>2, <1>3, <1>4, <1>5 DEF Next

(* What changes in the registry and the inventories: one slot more, empty and *)
(* with its player, or one item more for the player of a slot who asked.     *)
LEMMA LedgerStep ==
  ASSUME IndInv, Next
  PROVE  /\ \A k \in Server!Slot : k > Len(registry') => inventory'[k] = {}
         /\ \A k \in DOMAIN registry' :
              \/ k \notin DOMAIN registry /\ inventory'[k] = {}
              \/ /\ k \in DOMAIN registry /\ registry'[k] = registry[k]
                 /\ \A i \in inventory'[k] : i \in inventory[k] \/
                      \E pick \in pending : pick.player_id = registry[k] /\ pick.item_id = i
<1>0. TypeOK /\ TypeOK' /\ PicksAreBacked
  BY TypeStep DEF IndInv
<1>1. /\ registry \in Seq(Player) /\ Len(registry) <= players_num
      /\ registry' \in Seq(Player) /\ Len(registry') <= players_num
      /\ DOMAIN registry \subseteq Server!Slot /\ DOMAIN registry' \subseteq Server!Slot
      /\ \A k \in Server!Slot : k > Len(registry) => inventory[k] = {}
  BY <1>0, Constants DEF TypeOK, PicksAreBacked, Server!Slot
<1> DEFINE Goal ==
         /\ \A k \in Server!Slot : k > Len(registry') => inventory'[k] = {}
         /\ \A k \in DOMAIN registry' :
              \/ k \notin DOMAIN registry /\ inventory'[k] = {}
              \/ /\ k \in DOMAIN registry /\ registry'[k] = registry[k]
                 /\ \A i \in inventory'[k] : i \in inventory[k] \/
                      \E pick \in pending : pick.player_id = registry[k] /\ pick.item_id = i
<1>2. ASSUME UNCHANGED <<registry, inventory>> PROVE Goal
  BY <1>1, <1>2
<1>3. ASSUME NEW p \in Player, Server!Register(p) PROVE Goal
  <2>1. /\ Len(registry') = Len(registry) + 1 /\ inventory' = inventory
        /\ \A k \in DOMAIN registry : registry'[k] = registry[k]
    BY <1>0, <1>3, RegisterEffect
  <2>2. \A k \in DOMAIN registry' : k \in DOMAIN registry \/ (k > Len(registry) /\ k \in Server!Slot)
    BY <1>1, <2>1
  <2>3. \A k \in Server!Slot : k > Len(registry') => k > Len(registry)
    BY <1>1, <2>1 DEF Server!Slot
  <2> QED
    BY <1>1, <2>1, <2>2, <2>3
<1>4. ASSUME NEW pick \in Server!Pick, Server!Decide(pick) PROVE Goal
  <2>1. pick \in pending /\ pick.player_id \in Server!Registered
    BY <1>0, <1>4 DEF PicksAreBacked, Server!Decide
  <2>2. /\ registry' = registry
        /\ \A k \in Server!Slot : inventory'[k] \subseteq inventory[k] \union
              (IF k \in DOMAIN registry /\ registry[k] = pick.player_id
               THEN {pick.item_id} ELSE {})
    BY <1>0, <1>4, <2>1, DecideEffect
  <2>3. \A k \in Server!Slot : k > Len(registry) => k \notin DOMAIN registry
    BY <1>1
  <2>4. \A k \in Server!Slot : k > Len(registry) => inventory'[k] = {}
    BY <1>1, <2>2, <2>3
  <2>5. \A k \in DOMAIN registry : \A i \in inventory'[k] : i \in inventory[k] \/
            (pick.player_id = registry[k] /\ pick.item_id = i)
    BY <1>1, <2>2
  <2> QED
    BY <2>1, <2>2, <2>4, <2>5
<1>5. ASSUME NEW c \in Client, ClientNext(c) PROVE Goal
  <2>1. UNCHANGED <<registry, inventory>>
    BY <1>5 DEF ClientNext, SendNew, Resend, AckArrives, Launch, init, Frame, PickUp,
         send_udp_reliable
  <2> QED
    BY <1>2, <2>1
<1>6. ASSUME NEW c \in Client, ReceiveInit(c) PROVE Goal
  BY <1>3, <1>6, Constants DEF ReceiveInit
<1>7. CASE OthersNext
  BY <1>2, <1>3, <1>7, TakeOverEffect DEF OthersNext
<1>8. CASE ServerNext
  BY <1>0, <1>2, <1>4, <1>8, PhaseEffect DEF ServerNext
<1>9. CASE StateAhead \/ Lose \/ \E d \in up : ReceivePick(d)
  BY <1>2, <1>9, TakeOverEffect DEF StateAhead, Lose, ReceivePick
<1>10. \/ \E c \in Client : ClientNext(c)
       \/ \E c \in Client : ReceiveInit(c)
       \/ OthersNext \/ ServerNext
       \/ StateAhead \/ Lose \/ \E d \in up : ReceivePick(d)
  BY DEF Next
<1> QED
  BY <1>5, <1>6, <1>7, <1>8, <1>9, <1>10

LEMMA BackedStep ==
  ASSUME IndInv, [Next]_vars
  PROVE  PicksAreBacked'
<1>0. TypeOK /\ PicksAreBacked
  BY DEF IndInv
<1>1. CASE UNCHANGED vars
  BY <1>0, <1>1 DEF PicksAreBacked, Backed, Held, vars, Server!Registered
<1>2. CASE Next
  <2>1. ASSUME NEW d \in Upward, Backed(d) PROVE Backed(d)'
    <3>1. d.control = "PICK" => d.player_id \in Client
      BY DEF Upward, InitOf, PickOf
    <3> QED
      BY <1>2, <2>1, <3>1, Monotone DEF Backed
  <2>2. ASSUME NEW d \in up' PROVE Backed(d)'
    <3>1. CASE d \in up
      BY <1>0, <2>1, <3>1 DEF PicksAreBacked, TypeOK
    <3>2. ASSUME NEW c \in Client, d \in Held(c) PROVE Backed(d)'
      BY <1>0, <2>1, <3>2, HeldType DEF PicksAreBacked
    <3> QED
      BY <1>2, <3>1, <3>2, Origins
  <2>3. ASSUME NEW c \in Client, NEW d \in Held(c)' PROVE Backed(d)'
    <3>1. CASE d \in Held(c)
      BY <1>0, <2>1, <3>1, HeldType DEF PicksAreBacked
    <3>2. CASE d \notin Held(c)
      <4>1. PICK i \in Server!Item : d = PickOf(c, i) /\ screen'[c] # "LOADING" /\ i \in taken'[c]
        BY <1>2, <3>2, Origins
      <4> QED
        BY <4>1 DEF Backed, PickOf
    <3> QED
      BY <3>1, <3>2
  <2>4. ASSUME NEW pick \in pending'
        PROVE  /\ pick.player_id \in Server!Registered'
               /\ pick.player_id \in Client => pick.item_id \in taken'[pick.player_id]
    <3>1. CASE pick \in pending
      BY <1>0, <1>2, <3>1, Monotone DEF PicksAreBacked
    <3>2. CASE pick \notin pending
      <4>1. \/ \E d \in up : /\ d.control = "PICK" /\ pick = [player_id |-> d.player_id, item_id |-> d.item_id]
                             /\ Server!TakeOver(pick)
            \/ pick.player_id \notin Client /\ Server!TakeOver(pick)
        BY <1>2, <3>2, PendingOrigin
      <4>2. pick.player_id \in Server!Registered'
        BY <1>2, <4>1, TakeOverEffect, Monotone
      <4>3. ASSUME pick.player_id \in Client PROVE pick.item_id \in taken'[pick.player_id]
        <5>1. PICK d \in up : d.control = "PICK" /\ pick = [player_id |-> d.player_id, item_id |-> d.item_id]
          BY <4>1, <4>3
        <5>2. Backed(d)'
          <6>1. d \in Upward /\ Backed(d)
            BY <1>0 DEF PicksAreBacked, TypeOK
          <6> QED
            BY <2>1, <6>1
        <5> QED
          BY <5>1, <5>2 DEF Backed
      <4> QED
        BY <4>2, <4>3
    <3> QED
      BY <3>1, <3>2
  <2>5. ASSUME NEW k \in Server!Slot, k > Len(registry') PROVE inventory'[k] = {}
    BY <1>0, <1>2, <2>5, LedgerStep
  <2> QED
    BY <2>2, <2>3, <2>4, <2>5 DEF PicksAreBacked
<1> QED
  BY <1>1, <1>2

LEMMA CreditStep ==
  ASSUME IndInv, [Next]_vars
  PROVE  CreditFollowsTaking'
<1>0. TypeOK /\ PicksAreBacked /\ CreditFollowsTaking
  BY DEF IndInv
<1>1. CASE UNCHANGED vars
  BY <1>0, <1>1 DEF CreditFollowsTaking, vars
<1>2. CASE Next
  <2> SUFFICES ASSUME NEW k \in DOMAIN registry', registry'[k] \in Client,
                      NEW i \in inventory'[k]
               PROVE  i \in taken'[registry'[k]]
    BY DEF CreditFollowsTaking
  <2>1. /\ k \in DOMAIN registry /\ registry'[k] = registry[k]
        /\ i \in inventory[k] \/ \E pick \in pending : pick.player_id = registry[k] /\ pick.item_id = i
    BY <1>2, LedgerStep
  <2>2. i \in taken[registry[k]]
    BY <1>0, <2>1 DEF CreditFollowsTaking, PicksAreBacked
  <2> QED
    BY <1>2, <2>1, <2>2, Monotone
<1> QED
  BY <1>1, <1>2

LEMMA ItemsStep ==
  ASSUME IndInv, [Next]_vars
  PROVE  ItemsLeaveTables'
<1>0. TypeOK /\ ItemsLeaveTables
  BY DEF IndInv
<1>1. CASE UNCHANGED vars
  BY <1>0, <1>1 DEF ItemsLeaveTables, InitPublished, Server!Registered, vars
<1> DEFINE InTables(c) ==
             /\ active[c] \subseteq spawned[c] /\ taken[c] \intersect spawned[c] = {}
             /\ IF screen[c] = "LOADING" THEN spawned[c] = {} /\ taken[c] = {}
                ELSE InitPublished /\ c \in Server!Registered
<1>2. ASSUME Next, NEW e \in Client PROVE InTables(e)'
  <2>1. InTables(e)
    BY <1>0 DEF ItemsLeaveTables
  <2>2. InitPublished /\ e \in Server!Registered => InitPublished' /\ e \in Server!Registered'
    BY <1>2, Monotone DEF InitPublished
  <2>3. ASSUME spawned'[e] = spawned[e], taken'[e] = taken[e], active'[e] \subseteq spawned[e],
               screen'[e] = "LOADING" <=> screen[e] = "LOADING"
        PROVE  InTables(e)'
    BY <2>1, <2>2, <2>3
  <2>4. CASE UNCHANGED <<screen, itemVars>>
    BY <2>1, <2>3, <2>4
  <2>5. ASSUME NEW c \in Client, Launch(c) PROVE InTables(e)'
    <3>1. CASE c = e
      <4>1. PICK p \in published :
              /\ p.kind = "INIT"
              /\ spawned' = [spawned EXCEPT ![c] = p.items]
              /\ active' = [active EXCEPT ![c] = p.items]
        BY <2>5 DEF Launch, init
      <4>2. /\ active'[c] = p.items /\ spawned'[c] = p.items /\ taken'[c] = {}
            /\ screen'[c] = "PREMATCH"
        BY <1>0, <2>1, <2>5, <3>1, <4>1 DEF Launch, init, TypeOK
      <4>3. InitPublished /\ c \in Server!Registered
        BY <2>5, <4>1 DEF Launch, init, InitPublished
      <4> QED
        BY <2>2, <3>1, <4>2, <4>3
    <3>2. CASE c # e
      <4>1. spawned'[e] = spawned[e] /\ taken'[e] = taken[e] /\ active'[e] = active[e]
            /\ screen'[e] = screen[e]
        BY <1>0, <2>5, <3>2 DEF Launch, init, TypeOK
      <4> QED
        BY <2>1, <2>3, <4>1
    <3> QED
      BY <3>1, <3>2
  <2>6. ASSUME NEW c \in Client, Frame(c) PROVE InTables(e)'
    <3>1. spawned' = spawned /\ taken' = taken
      BY <2>6 DEF Frame
    <3>2. screen'[e] = "LOADING" <=> screen[e] = "LOADING"
      BY <1>0, <2>6 DEF Frame, TimeIsUp, TypeOK
    <3>3. active'[e] \subseteq spawned[e]
      <4>1. PICK r \in Received(c) : active' = [active EXCEPT ![c] = r.active]
        BY <2>6 DEF Frame
      <4>2. c = e => r.active \subseteq spawned[e]
        BY <2>1 DEF Received, update_active_items
      <4> QED
        BY <1>0, <2>1, <4>1, <4>2 DEF TypeOK
    <3> QED
      BY <2>3, <3>1, <3>2, <3>3
  <2>7. ASSUME NEW c \in Client, NEW i \in Server!Item, PickUp(c, i) PROVE InTables(e)'
    <3>1. screen' = screen /\ screen[c] # "LOADING" /\ i \in active[c]
      BY <2>7 DEF PickUp, send_udp_reliable
    <3>2. CASE c = e
      <4>1. /\ spawned'[c] = spawned[c] \ {i} /\ active'[c] = active[c] \ {i}
            /\ taken'[c] = taken[c] \union {i}
        BY <1>0, <2>7 DEF PickUp, send_udp_reliable, Remove, TypeOK
      <4> QED
        BY <2>1, <2>2, <3>1, <3>2, <4>1
    <3>3. CASE c # e
      <4>1. spawned'[e] = spawned[e] /\ taken'[e] = taken[e] /\ active'[e] = active[e]
        BY <1>0, <2>7, <3>3 DEF PickUp, send_udp_reliable, Remove, TypeOK
      <4> QED
        BY <2>1, <2>3, <3>1, <4>1
    <3> QED
      BY <3>2, <3>3
  <2>8. ASSUME NEW c \in Client, SendNew(c) \/ Resend(c) \/ AckArrives(c) \/ ReceiveInit(c)
        PROVE  InTables(e)'
    <3>1. UNCHANGED <<screen, itemVars>>
      BY <2>8 DEF SendNew, Resend, AckArrives, ReceiveInit
    <3> QED
      BY <2>4, <3>1
  <2>9. CASE OthersNext \/ ServerNext \/ StateAhead \/ Lose \/ \E d \in up : ReceivePick(d)
    <3>1. UNCHANGED <<screen, itemVars>>
      BY <2>9 DEF OthersNext, ServerNext, StateAhead, Lose, ReceivePick
    <3> QED
      BY <2>4, <3>1
  <2> QED
    BY <1>2, <2>5, <2>6, <2>7, <2>8, <2>9 DEF Next, ClientNext
<1> QED
  BY <1>1, <1>2 DEF ItemsLeaveTables

(* Less than a second is left when the division of game.gd gives zero.       *)
LEMMA NoTimeLeft ==
  ASSUME NEW left \in Int, left \div SERVER_TICK_RATE <= 0
  PROVE  left < SERVER_TICK_RATE
BY Constants

(* The server's clock and what it has broadcast go on together.              *)
LEMMA ServerClockStep ==
  ASSUME IndInv, Next
  PROVE  /\ server_tick' >= server_tick
         /\ MatchUnderWay => MatchUnderWay'
         /\ status # "NOT_READY" =>
              status' # "NOT_READY" /\ UNCHANGED <<start_tick, stop_tick>>
         /\ status' # "NOT_READY" => start_tick' > 0
         /\ \A p \in published' : p \in published \/
              (status # "NOT_READY" /\ p.tick = server_tick /\ (p.tick >= start_tick => MatchUnderWay))
<1>0. TypeOK /\ ClocksBehind /\ PicksAreBacked
  BY DEF IndInv
<1> DEFINE Goal ==
         /\ server_tick' >= server_tick
         /\ MatchUnderWay => MatchUnderWay'
         /\ status # "NOT_READY" =>
              status' # "NOT_READY" /\ UNCHANGED <<start_tick, stop_tick>>
         /\ status' # "NOT_READY" => start_tick' > 0
         /\ \A p \in published' : p \in published \/
              (status # "NOT_READY" /\ p.tick = server_tick /\ (p.tick >= start_tick => MatchUnderWay))
<1>1. ASSUME UNCHANGED <<status, server_tick, start_tick, stop_tick, published>> PROVE Goal
  BY <1>0, <1>1 DEF TypeOK, ClocksBehind, MatchUnderWay
<1>2. CASE ServerNext
  <2>1. ASSUME NEW pick \in Server!Pick, Server!Decide(pick), UNCHANGED published
        PROVE  Goal
    BY <1>1, <2>1 DEF Server!Decide
  <2>2. ASSUME Server!Wait \/ Server!Announce \/ Server!Start \/ Server!Finish \/ Server!Close,
               UNCHANGED published
        PROVE  Goal
    BY <1>0, <2>2, PhaseEffect DEF ClocksBehind
  <2>3. ASSUME Server!Tick,
               published' = IF closed THEN published ELSE published \union Server!PacketsOfTick
        PROVE  Goal
    <3>1. status # "NOT_READY"
      BY <2>3 DEF Server!Tick
    <3>2. \A p \in published' : p \in published \/
              (p.tick = server_tick /\ (p.tick >= start_tick => MatchUnderWay))
      BY <1>0, <2>3, TickPackets DEF MatchUnderWay
    <3> QED
      BY <1>0, <2>3, <3>1, <3>2, PhaseEffect DEF ClocksBehind
  <2> QED
    BY <1>2, <2>1, <2>2, <2>3 DEF ServerNext
<1>3. ASSUME NEW c \in Client, ClientNext(c) PROVE Goal
  <2>1. UNCHANGED <<status, server_tick, start_tick, stop_tick, published>>
    BY <1>3 DEF ClientNext, SendNew, Resend, AckArrives, Launch, init, Frame, PickUp,
         send_udp_reliable
  <2> QED
    BY <1>1, <2>1
<1>4. ASSUME NEW c \in Client, ReceiveInit(c) PROVE Goal
  BY <1>1, <1>4 DEF ReceiveInit, Server!Register
<1>5. CASE OthersNext
  BY <1>1, <1>5 DEF OthersNext, Server!Register, Server!TakeOver
<1>6. CASE Lose \/ \E d \in up : ReceivePick(d)
  BY <1>1, <1>6, TakeOverEffect DEF Lose, ReceivePick
<1>8. CASE StateAhead
  <2>1. /\ Server!ItemsDue /\ published' = published \union {Server!StatePacket}
        /\ UNCHANGED <<status, server_tick, start_tick, stop_tick>>
    BY <1>8 DEF StateAhead
  <2>2. status # "NOT_READY" /\ Server!StatePacket \in Server!PacketsOfTick
    BY <2>1 DEF Server!ItemsDue, Server!PacketsOfTick
  <2>3. /\ Server!StatePacket.tick = server_tick
        /\ Server!StatePacket.tick >= start_tick => MatchUnderWay
    BY <1>0, <2>1, <2>2, TickPackets DEF MatchUnderWay
  <2> QED
    BY <1>0, <2>1, <2>2, <2>3 DEF TypeOK, ClocksBehind, MatchUnderWay
<1>7. \/ \E c \in Client : ClientNext(c)
      \/ \E c \in Client : ReceiveInit(c)
      \/ OthersNext \/ ServerNext \/ StateAhead
      \/ Lose \/ \E d \in up : ReceivePick(d)
  BY DEF Next
<1> QED
  BY <1>2, <1>3, <1>4, <1>5, <1>6, <1>7, <1>8

(* A client's clock after a frame is one the server had before.              *)
LEMMA ReceivedBehind ==
  ASSUME TypeOK, ClocksBehind, NEW c \in Client, screen[c] # "LOADING", NEW r \in Received(c)
  PROVE  /\ r.tick \in Nat /\ r.tick <= server_tick
         /\ r.tick >= start_tick => MatchUnderWay
<1>1. r.tick \in Nat
  BY ReceivedType
<1>2. r.tick = seen_tick[c] \/ \E p \in published : r.tick = p.tick
  BY DEF Received, update_active_items
<1> QED
  BY <1>1, <1>2 DEF ClocksBehind

LEMMA ClocksStep ==
  ASSUME IndInv, [Next]_vars
  PROVE  ClocksBehind'
<1>0. TypeOK /\ ClocksBehind /\ ItemsLeaveTables
  BY DEF IndInv
<1>1. CASE UNCHANGED vars
  BY <1>0, <1>1 DEF ClocksBehind, MatchUnderWay, vars
<1> DEFINE Behind(c) ==
       /\ seen_tick[c] <= server_tick
       /\ screen[c] # "LOADING" /\ seen_tick[c] >= start_tick => MatchUnderWay
       /\ screen[c] = "LOADING" => seen_tick[c] = 0
       /\ screen[c] = "RUNNING" => MatchUnderWay
       /\ screen[c] = "FINISHED" \/ (screen[c] = "RUNNING" /\ match_over[c])
            => server_tick > stop_tick - SERVER_TICK_RATE
<1>2. ASSUME Next
      PROVE  /\ status' = "NOT_READY" => published' = {}
             /\ status' # "NOT_READY" => start_tick' > 0
             /\ \A p \in published' :
                  p.tick <= server_tick' /\ (p.tick >= start_tick' => MatchUnderWay')
  <2>0. {server_tick, start_tick, server_tick', start_tick'} \subseteq Nat
    BY <1>0, TypeStep DEF TypeOK
  <2>1. status' = "NOT_READY" => published' = {}
    BY <1>0, <1>2, ServerClockStep DEF ClocksBehind
  <2>2. ASSUME NEW p \in published'
        PROVE  p.tick <= server_tick' /\ (p.tick >= start_tick' => MatchUnderWay')
    <3>1. p.tick \in Nat
      BY <2>2, TypeStep DEF TypeOK
    <3>2. status # "NOT_READY" /\ p.tick <= server_tick /\ (p.tick >= start_tick => MatchUnderWay)
      BY <1>0, <1>2, <2>0, <2>2, <3>1, ServerClockStep DEF ClocksBehind
    <3> QED
      BY <1>2, <2>0, <3>1, <3>2, ServerClockStep
  <2> QED
    BY <1>2, <2>1, <2>2, ServerClockStep
<1>3. ASSUME Next, NEW e \in Client PROVE Behind(e)'
  <2>0. /\ {server_tick, start_tick, stop_tick, seen_tick[e]} \subseteq Nat
        /\ {server_tick', start_tick', stop_tick', seen_tick'[e]} \subseteq Nat
        /\ screen[e] \in {"LOADING", "PREMATCH", "RUNNING", "FINISHED"}
    BY <1>0, TypeStep DEF TypeOK
  <2>1. Behind(e)
    BY <1>0 DEF ClocksBehind
  <2>2. screen[e] # "LOADING" => status # "NOT_READY"
    BY <1>0 DEF ItemsLeaveTables, InitPublished, ClocksBehind
  <2>3. ASSUME UNCHANGED <<screen[e], seen_tick[e], match_over[e]>> PROVE Behind(e)'
    BY <1>3, <2>0, <2>1, <2>2, <2>3, Constants, ServerClockStep
  <2>4. ASSUME NEW c \in Client, Launch(c) PROVE Behind(e)'
    <3>1. CASE c = e
      <4>1. screen'[e] = "PREMATCH" /\ seen_tick'[e] = 0
            /\ UNCHANGED <<status, server_tick, start_tick, stop_tick>>
        BY <1>0, <2>1, <2>4, <3>1 DEF Launch, init, TypeOK
      <4>2. start_tick > 0
        BY <1>0, <2>4 DEF Launch, init, ClocksBehind
      <4> QED
        BY <2>0, <4>1, <4>2
    <3>2. CASE c # e
      BY <1>0, <2>3, <2>4, <3>2 DEF Launch, init, TypeOK
    <3> QED
      BY <3>1, <3>2
  <2>5. ASSUME NEW c \in Client, Frame(c) PROVE Behind(e)'
    <3>1. CASE c = e
      <4>1. PICK r \in Received(c) :
              LET running  == Started(c, r.tick)
                  finished == running /\ (r.tick >= stop_tick \/ OverBefore(c))
                  no_time  == (stop_tick - r.tick) \div SERVER_TICK_RATE <= 0
              IN /\ seen_tick' = [seen_tick EXCEPT ![c] = r.tick]
                 /\ active' = [active EXCEPT ![c] = r.active]
                 /\ screen' = [screen EXCEPT ![c] =
                      IF finished THEN "FINISHED" ELSE IF running THEN "RUNNING" ELSE @]
                 /\ match_over' = [match_over EXCEPT ![c] =
                      IF running THEN finished \/ no_time ELSE @]
        BY <2>5 DEF Frame, TimeIsUp
      <4> DEFINE running  == Started(c, r.tick)
                 finished == running /\ (r.tick >= stop_tick \/ OverBefore(c))
                 no_time  == (stop_tick - r.tick) \div SERVER_TICK_RATE <= 0
      <4>2. /\ r.tick \in Nat /\ r.tick <= server_tick
            /\ r.tick >= start_tick => MatchUnderWay
            /\ screen[c] # "LOADING"
            /\ UNCHANGED <<status, server_tick, start_tick, stop_tick>>
        BY <1>0, <2>5, ReceivedBehind DEF Frame, TimeIsUp
      <4>3. running => MatchUnderWay
        BY <2>1, <3>1, <4>2 DEF Started
      <4>4. finished => server_tick > stop_tick - SERVER_TICK_RATE
        BY <2>0, <2>1, <3>1, <4>2, Constants DEF Started, OverBefore
      <4>5. no_time => server_tick > stop_tick - SERVER_TICK_RATE
        BY <2>0, <4>2, NoTimeLeft, Constants
      <4>6. /\ seen_tick'[c] = r.tick
            /\ screen'[c] = IF finished THEN "FINISHED" ELSE IF running THEN "RUNNING" ELSE screen[c]
            /\ match_over'[c] = IF running THEN finished \/ no_time ELSE match_over[c]
        BY <1>0, <4>1 DEF TypeOK
      <4>7. running \/ screen[c] # "RUNNING"
        BY DEF Started
      <4> HIDE DEF running, finished, no_time
      <4>8. (finished => running) /\ MatchUnderWay' = MatchUnderWay
        BY <4>2 DEF finished, MatchUnderWay
      <4>9. /\ screen'[c] # "LOADING"
            /\ screen'[c] = "RUNNING" => running
            /\ screen'[c] = "FINISHED" => finished \/ screen[c] = "FINISHED"
            /\ screen'[c] = "RUNNING" /\ match_over'[c] => no_time \/ finished
        BY <4>2, <4>6, <4>7, <4>8
      <4> QED
        BY <2>0, <2>1, <3>1, <4>2, <4>3, <4>4, <4>5, <4>6, <4>8, <4>9
    <3>2. CASE c # e
      BY <1>0, <2>3, <2>5, <3>2 DEF Frame, TimeIsUp, TypeOK
    <3> QED
      BY <3>1, <3>2
  <2>6. CASE UNCHANGED matchVars
    BY <2>3, <2>6
  <2>7. \/ \E c \in Client : Launch(c) \/ Frame(c)
        \/ UNCHANGED matchVars
    BY <1>3 DEF Next, ClientNext, SendNew, Resend, AckArrives, PickUp, send_udp_reliable,
         ReceiveInit, ReceivePick,
         OthersNext, ServerNext, StateAhead, Lose
  <2> QED
    BY <2>4, <2>5, <2>6, <2>7
<1> QED
  BY <1>1, <1>2, <1>3 DEF ClocksBehind

-----------------------------------------------------------------------------
(* The invariant of the session is inductive.                               *)
THEOREM SessionInductive == Spec => []IndInv
<1>1. Init => IndInv
  <2> SUFFICES ASSUME Init PROVE IndInv
    OBVIOUS
  <2>1. TypeOK
    <3>1. \A c \in Client : <<InitOf(c)>> \in Seq(Upward)
      BY DEF Upward
    <3>2. /\ registry = <<>> /\ registry \in Seq(Player) /\ Len(registry) <= players_num
      BY Constants DEF Init, Server!Init
    <3>3. /\ to_send \in [Client -> Seq(Upward)] /\ sent \in [Client -> Upward \union {None}]
          /\ screen \in [Client -> {"LOADING", "PREMATCH", "RUNNING", "FINISHED"}]
          /\ match_over \in [Client -> BOOLEAN] /\ seen_tick \in [Client -> Nat]
      BY <3>1 DEF Init
    <3>4. {spawned, active, taken} \subseteq [Client -> SUBSET Server!Item]
      BY DEF Init
    <3>5. /\ status = "NOT_READY" /\ closed = FALSE /\ {server_tick, start_tick, stop_tick} \subseteq Nat
          /\ pending = {} /\ up = {} /\ published = {} /\ acks \in SUBSET Client
      BY DEF Init, Server!Init
    <3>6. inventory \in [Server!Slot -> SUBSET Server!Item] /\ items \in SUBSET Server!Item
      BY DEF Init, Server!Init
    <3> QED
      BY <3>2, <3>3, <3>4, <3>5, <3>6 DEF TypeOK
  <2>2. Server!Registered = {}
    BY DEF Init, Server!Init, Server!Registered
  <2>3. PicksAreBacked
    BY <2>2 DEF Init, Server!Init, PicksAreBacked, Backed, Held, InitOf
  <2>4. CreditFollowsTaking
    BY DEF Init, Server!Init, CreditFollowsTaking
  <2>5. ItemsLeaveTables
    BY DEF Init, ItemsLeaveTables
  <2>6. ClocksBehind
    BY DEF Init, Server!Init, ClocksBehind
  <2> QED
    BY <2>1, <2>3, <2>4, <2>5, <2>6 DEF IndInv
<1>2. IndInv /\ [Next]_vars => IndInv'
  BY TypeStep, BackedStep, CreditStep, ItemsStep, ClocksStep DEF IndInv
<1> QED
  BY <1>1, <1>2, PTL DEF Spec

(* GameServer's assumption on its clients is met: no pick reaches a server    *)
(* before its init packet, or from a player without a slot.                  *)
THEOREM AssumptionMet == Spec => []EnvironmentHolds
<1>1. IndInv => EnvironmentHolds
  <2> SUFFICES ASSUME IndInv, NEW d \in up, d.control = "PICK"
               PROVE  InitPublished /\ d.player_id \in Server!Registered
    BY DEF EnvironmentHolds
  <2>1. d.player_id \in Client
    BY PickInFlight DEF IndInv
  <2>2. screen[d.player_id] # "LOADING"
    BY DEF IndInv, PicksAreBacked, Backed
  <2> QED
    BY <2>1, <2>2 DEF IndInv, ItemsLeaveTables
<1> QED
  BY <1>1, SessionInductive, PTL

(* The server credits a client only with items its player took.              *)
THEOREM CreditEarned == Spec => []CreditFollowsTaking
<1>1. IndInv => CreditFollowsTaking
  BY DEF IndInv
<1> QED
  BY <1>1, SessionInductive, PTL

(* No late item list brings a taken item back.                               *)
THEOREM TakenForGood == Spec => []TakenStaysTaken
<1>1. IndInv => TakenStaysTaken
  BY DEF IndInv, ItemsLeaveTables, TakenStaysTaken
<1> QED
  BY <1>1, SessionInductive, PTL

(* A client plays while the match is under way, and stops at most a second    *)
(* before it ends.                                                          *)
THEOREM ScreenCorrect == Spec => []ScreenFollowsMatch
<1>1. IndInv => ScreenFollowsMatch
  BY DEF IndInv, ClocksBehind, ScreenFollowsMatch, MatchUnderWay
<1> QED
  BY <1>1, SessionInductive, PTL

=============================================================================
