--------------------------- MODULE GameSystem_proofs -------------------------
(***************************************************************************)
(* Proofs about GameSystem, for every set of players and clients, number   *)
(* of items, size of the mail drop and length of the match.                *)
(*                                                                         *)
(* Two modules are put together, each of which assumes something of the    *)
(* other.  SystemInv breaks the circle: it is shown one step at a time,    *)
(* first that the step is one of GameServer's, hence keeps its invariant,  *)
(* then that it keeps the rest.  With it every step is one of GameSession's *)
(* too, and what is proved of the two modules apart holds of the whole.    *)
(***************************************************************************)
EXTENDS GameSystem, GameServer_proofs

USE DEF systemVars, networkVars, clientVars

-----------------------------------------------------------------------------
(* Every step is a step of the game process.                                *)

(* What a client sends is a datagram of its player.                         *)
LEMMA OnTheWire ==
  ASSUME NEW d \in Clients!Upward
  PROVE  /\ d.player_id \in Client /\ d.control \in {"INIT", "PICK"}
         /\ OnWire(d) \in Datagram
         /\ OnWire(d).control = d.control /\ OnWire(d).player_id = d.player_id
         /\ d.control = "INIT" => d = Clients!InitOf(d.player_id)
         /\ d.control = "PICK" =>
              /\ d.item_id \in Item
              /\ PickOf(OnWire(d)) = [player_id |-> d.player_id, item_id |-> d.item_id]
<1>0. Client \subseteq Player /\ 0 \in SeqNum
  BY GameAssumption, SystemAssumption
<1>1. CASE \E c \in Client : d = Clients!InitOf(c)
  BY <1>0, <1>1 DEF Clients!InitOf, OnWire, Datagram, Reliable, InitPacket
<1>2. CASE \E c \in Client, i \in Clients!Server!Item : d = Clients!PickOf(c, i)
  <2>1. PICK c \in Client, i \in Item : d = [control |-> "PICK", player_id |-> c, item_id |-> i]
    BY <1>2 DEF Clients!PickOf, Clients!Server!Item, Item
  <2>2. OnWire(d) = [control |-> "PICK", player_id |-> c, seq_num |-> 0, item_id |-> i]
    BY <2>1 DEF OnWire
  <2>3. OnWire(d) \in PickPacket
    BY <1>0, <2>1, <2>2 DEF PickPacket
  <2> QED
    BY <2>1, <2>2, <2>3 DEF PickOf, Datagram, Reliable
<1> QED
  BY <1>1, <1>2 DEF Clients!Upward

(* An input packet is a datagram.                                           *)
LEMMA InputDatagram ==
  ASSUME NEW c \in Client
  PROVE  [control |-> "REG", player_id |-> c, seq_num |-> 0] \in Datagram
BY GameAssumption, SystemAssumption DEF Datagram, RegPacket

(* Where a step of the system leaves the process: with a datagram that may   *)
(* come, in a step of its own, or alone.                                     *)
LEMMA ProcessStep ==
  ASSUME SystemInv, [SystemNext]_systemVars
  PROVE  [Next]_vars
<1>0. AfterAnnouncement /\ up \subseteq Clients!Upward
  BY DEF SystemInv, NetworkTypeOK
<1>1. CASE UNCHANGED vars
  BY <1>1
<1>2. ASSUME NEW d \in up, ReadClient(d)
      PROVE  NetNext
  <2>1. OnWire(d) \in Datagram /\ OnWire(d).control = d.control /\ d.control \in {"INIT", "PICK"}
    BY <1>0, OnTheWire
  <2>2. CanArrive(OnWire(d))
    BY <1>0, <2>1 DEF CanArrive, AfterAnnouncement
  <2> QED
    BY <1>2, <2>1, <2>2 DEF ReadClient, NetRefuse, NetReceive, NetNext
<1>3. ASSUME NEW c \in Client, ReadInput(c)
      PROVE  NetNext
  <2> DEFINE d == [control |-> "REG", player_id |-> c, seq_num |-> 0]
  <2>1. d \in Datagram
    BY InputDatagram
  <2>2. CanArrive(d) /\ Receive(d)
    BY <1>0, <1>3 DEF ReadInput, CanArrive, AfterAnnouncement
  <2> HIDE DEF d
  <2> QED
    BY <2>1, <2>2 DEF NetReceive, NetNext
<1>4. ASSUME NEW d \in Datagram, ReadOther(d)
      PROVE  NetNext
  <2>1. CanArrive(d)
    BY <1>0, <1>4 DEF ReadOther, CanArrive, AfterAnnouncement
  <2> QED
    BY <1>4, <2>1 DEF ReadOther, NetRefuse, NetReceive, NetNext
<1>5. CASE Broadcast
  BY <1>5 DEF Broadcast, NetNext, Next
<1>6. CASE Write
  BY <1>6 DEF Write, GameNext, Next
<1>7. CASE Internal
  BY <1>7 DEF Internal, GameNext, NetNext, Next
<1> QED
  BY <1>1, <1>2, <1>3, <1>4, <1>5, <1>6, <1>7 DEF SystemNext, ClientStep, Lose, Next

(* So the invariant of the process is kept.                                 *)
LEMMA ProcessInvStep ==
  ASSUME SystemInv, [SystemNext]_systemVars
  PROVE  IndInv'
<1>1. IndInv /\ [Next]_vars
  BY ProcessStep DEF SystemInv
<1> QED
  BY <1>1, TypeStep, RosterStep, SeatingStep, PicksStep, MailboxStep, ItemsStep, ClockStep,
     BroadcastStep DEF IndInv

-----------------------------------------------------------------------------
(* What the clients do keeps the rest of it.                                *)
LEMMA ClientTypeStep ==
  ASSUME NetworkTypeOK, NEW c \in Client, Clients!ClientNext(c)
  PROVE  NetworkTypeOK'
<1> USE DEF NetworkTypeOK, Clients!reliableVars, Clients!networkVars, Clients!matchVars
<1>0. /\ up \in SUBSET Clients!Upward /\ to_send \in [Client -> Seq(Clients!Upward)]
      /\ sent \in [Client -> Clients!Upward \union {None}] /\ DOMAIN screen = Client
  OBVIOUS
<1>1. CASE Clients!SendNew(c)
  <2>1. /\ to_send[c] \in Seq(Clients!Upward) /\ to_send[c] # <<>>
        /\ Len(to_send[c]) \in DOMAIN to_send[c]
        /\ \A k \in DOMAIN to_send[c] : to_send[c][k] \in Clients!Upward
    BY <1>0, <1>1 DEF Clients!SendNew
  <2>2. up' \in SUBSET Clients!Upward
    BY <1>0, <1>1, <2>1 DEF Clients!SendNew
  <2>3. sent' \in [Client -> Clients!Upward \union {None}]
    BY <1>0, <1>1, <2>1 DEF Clients!SendNew
  <2>4. <<>> \in Seq(Clients!Upward)
    OBVIOUS
  <2>5. to_send' \in [Client -> Seq(Clients!Upward)]
    BY <1>0, <1>1, <2>4 DEF Clients!SendNew
  <2> QED
    BY <1>1, <2>2, <2>3, <2>5 DEF Clients!SendNew
<1>2. CASE Clients!Resend(c)
  BY <1>0, <1>2 DEF Clients!Resend
<1>3. CASE Clients!AckArrives(c)
  BY <1>0, <1>3 DEF Clients!AckArrives
<1>4. CASE Clients!Launch(c)
  BY <1>0, <1>4 DEF Clients!Launch
<1>5. CASE Clients!Frame(c)
  BY <1>0, <1>5 DEF Clients!Frame
<1>6. ASSUME NEW i \in Clients!Server!Item, Clients!PickUp(c, i)
      PROVE  NetworkTypeOK'
  <2>1. Clients!PickOf(c, i) \in Clients!Upward
    BY DEF Clients!Upward
  <2>2. Append(to_send[c], Clients!PickOf(c, i)) \in Seq(Clients!Upward)
    BY <1>0, <2>1
  <2> QED
    BY <1>0, <1>6, <2>2 DEF Clients!PickUp, Clients!send_udp_reliable
<1> QED
  BY <1>1, <1>2, <1>3, <1>4, <1>5, <1>6 DEF Clients!ClientNext

LEMMA ClientAnnouncedStep ==
  ASSUME NetworkTypeOK, AfterAnnouncement, NEW c \in Client, ClientStep(c)
  PROVE  AfterAnnouncement'
<1> USE DEF Clients!reliableVars, Clients!networkVars, Clients!matchVars
<1> DEFINE Fits(d) == d.control = "PICK" => announced
<1>0. /\ to_send \in [Client -> Seq(Clients!Upward)]
      /\ sent \in [Client -> Clients!Upward \union {None}] /\ DOMAIN screen = Client
      /\ announced <=> Clients!InitPublished
      /\ \A e \in Client : screen[e] # "LOADING" => announced
      /\ \A d \in up : Fits(d)
      /\ \A e \in Client : \A d \in Clients!Held(e) : Fits(d)
      /\ items_herald # None => items_herald.kind = "ITEMS"
  BY DEF NetworkTypeOK, AfterAnnouncement
<1>1. /\ announced' = announced /\ items_herald' = items_herald /\ published' = published
      /\ Clients!ClientNext(c)
  BY DEF ClientStep, vars, history, Clients!ClientNext, Clients!SendNew, Clients!Resend,
         Clients!AckArrives, Clients!Launch, Clients!Frame, Clients!PickUp
<1>2. Clients!InitPublished' = Clients!InitPublished
  BY <1>1 DEF Clients!InitPublished
<1> HIDE DEF Fits
<1>3. ASSUME \A e \in Client : screen'[e] # "LOADING" => announced,
             \A d \in up' : Fits(d),
             \A e \in Client : \A d \in Clients!Held(e)' : Fits(d)
      PROVE  AfterAnnouncement'
  <2>1. \A d : Fits(d) => (d.control = "PICK" => announced')
    BY <1>1 DEF Fits
  <2>2. \A e \in Client : \A d \in Clients!Held(e)' : d.control = "PICK" => announced'
    BY <1>3, <2>1
  <2> HIDE DEF Clients!Held
  <2> QED
    BY <1>0, <1>1, <1>2, <1>3, <2>1, <2>2 DEF AfterAnnouncement
<1>4. CASE Clients!SendNew(c)
  <2>1. /\ screen' = screen
        /\ up' = up \union {to_send[c][k] : k \in DOMAIN to_send[c]}
        /\ sent' = [sent EXCEPT ![c] = to_send[c][Len(to_send[c])]]
        /\ to_send' = [to_send EXCEPT ![c] = <<>>] /\ to_send[c] # <<>>
    BY <1>4 DEF Clients!SendNew
  <2>2. \A k \in DOMAIN to_send[c] : Fits(to_send[c][k])
    BY <1>0 DEF Clients!Held
  <2>3. Len(to_send[c]) \in DOMAIN to_send[c]
    BY <1>0, <2>1
  <2>4. ASSUME NEW e \in Client, NEW d \in Clients!Held(e)'
        PROVE  Fits(d)
    <3>1. d \in Clients!Held(e) \/ d = to_send[c][Len(to_send[c])]
      BY <1>0, <2>1, <2>4 DEF Clients!Held
    <3> QED
      BY <1>0, <2>2, <2>3, <3>1
  <2> QED
    BY <1>0, <1>3, <2>1, <2>2, <2>4
<1>5. CASE Clients!Resend(c)
  <2>1. Fits(sent[c])
    BY <1>0, <1>5 DEF Clients!Held, Clients!Resend
  <2>2. \A e \in Client : Clients!Held(e)' = Clients!Held(e)
    BY <1>5 DEF Clients!Held, Clients!Resend
  <2> QED
    BY <1>0, <1>3, <1>5, <2>1, <2>2 DEF Clients!Resend
<1>6. CASE Clients!AckArrives(c)
  <2>1. \A e \in Client : Clients!Held(e)' \subseteq Clients!Held(e)
    BY <1>0, <1>6 DEF Clients!Held, Clients!AckArrives
  <2> QED
    BY <1>0, <1>3, <1>6, <2>1 DEF Clients!AckArrives
<1>7. CASE Clients!Launch(c) \/ Clients!Frame(c)
  <2>1. announced
    BY <1>0, <1>7 DEF Clients!Launch, Clients!Frame, Clients!InitPublished
  <2>2. \A e \in Client : Clients!Held(e)' = Clients!Held(e)
    BY <1>7 DEF Clients!Held, Clients!Launch, Clients!Frame
  <2>3. up' = up
    BY <1>7 DEF Clients!Launch, Clients!Frame
  <2> QED
    BY <1>0, <1>3, <2>1, <2>2, <2>3
<1>8. ASSUME NEW i \in Clients!Server!Item, Clients!PickUp(c, i)
      PROVE  AfterAnnouncement'
  <2>1. announced
    BY <1>0, <1>8 DEF Clients!PickUp
  <2>2. \A d : Fits(d)
    BY <2>1 DEF Fits
  <2>3. screen' = screen
    BY <1>8 DEF Clients!PickUp
  <2> QED
    BY <1>0, <1>3, <2>2, <2>3
<1> QED
  BY <1>1, <1>4, <1>5, <1>6, <1>7, <1>8 DEF Clients!ClientNext

-----------------------------------------------------------------------------
(* What is broadcast and written keeps it too.                              *)

(* Reading a datagram is nothing to the broadcasts.                         *)
LEMMA ReadFrame ==
  ASSUME NEW d, Refuse(d) \/ Receive(d)
  PROVE  /\ UNCHANGED <<herald, items_herald, announced, gpc, server_tick>>
         /\ npc = "recv" /\ ~Closed /\ ~Closed'
<1>1. npc = "recv" /\ npc' \in {"top", "recv"}
  BY DEF Refuse, Receive, NextIteration
<1> QED
  BY <1>1 DEF Refuse, Receive, gameVars, clockVars, history, Closed

LEMMA InternalFrame ==
  ASSUME Internal
  PROVE  /\ UNCHANGED <<herald, items_herald, announced>> /\ (Closed => Closed')
         /\ gpc' = "publish_items" => UNCHANGED <<gpc, server_tick>>
<1>1. CASE NetStart \/ NetFails \/ NetNotCreated \/ NetTop \/ NetWait \/ NetReadNone
           \/ NetForeign \/ NetExit
  BY <1>1 DEF NetStart, NetFails, NetNotCreated, NetTop, NetWait, NetReadNone, NetForeign,
       NextIteration, NetExit, gameVars, clockVars, history, Closed
<1>2. CASE GameStart \/ ConnectTop \/ ConnectPop \/ ConnectDecide
           \/ PlayTop \/ PlayPop \/ PlayDrained \/ PlayRead \/ GameExit
  BY <1>2 DEF GameStart, ConnectTop, ConnectPop, ConnectDecide, PlayTop, PlayPop, PlayDrained,
       PlayRead, GameExit, netVars, clockVars, history, Closed
<1> QED
  BY <1>1, <1>2 DEF Internal

LEMMA NetworkTypeStep ==
  ASSUME SystemInv, [SystemNext]_systemVars
  PROVE  NetworkTypeOK'
<1>0. NetworkTypeOK
  BY DEF SystemInv
<1>1. CASE UNCHANGED <<up, to_send, sent, screen>>
  BY <1>0, <1>1 DEF NetworkTypeOK
<1>2. CASE Lose
  BY <1>0, <1>2 DEF NetworkTypeOK, Lose, Clients!Lose, Clients!reliableVars, Clients!matchVars
<1>3. ASSUME NEW c \in Client, ClientStep(c)
      PROVE  NetworkTypeOK'
  BY <1>0, <1>3, ClientTypeStep DEF ClientStep
<1> QED
  BY <1>1, <1>2, <1>3 DEF SystemNext, ReadClient, ReadInput, ReadOther, Broadcast, Write, Internal

LEMMA AnnouncementStep ==
  ASSUME SystemInv, [SystemNext]_systemVars
  PROVE  AfterAnnouncement'
<1>0. /\ AfterAnnouncement /\ NetworkTypeOK
      /\ announced \in BOOLEAN
  BY DEF SystemInv, IndInv, TypeOK
<1>1. ASSUME UNCHANGED <<up, published, to_send, sent, screen, announced>>,
             items_herald' \in {None, items_herald}
      PROVE  AfterAnnouncement'
  BY <1>0, <1>1 DEF AfterAnnouncement, Clients!InitPublished, Clients!Held
<1>2. CASE Lose
  BY <1>0, <1>2 DEF Lose, Clients!Lose, Clients!reliableVars, Clients!matchVars, vars, history,
       AfterAnnouncement, Clients!InitPublished, Clients!Held
<1>3. ASSUME NEW c \in Client, ClientStep(c)
      PROVE  AfterAnnouncement'
  BY <1>0, <1>3, ClientAnnouncedStep
<1>4. CASE (\E d \in up : ReadClient(d)) \/ (\E c \in Client : ReadInput(c))
           \/ (\E d \in Datagram : ReadOther(d))
  BY <1>1, <1>4, ReadFrame DEF ReadClient, ReadInput, ReadOther
<1>5. CASE Internal
  BY <1>1, <1>5, InternalFrame DEF Internal
<1>6. CASE Write
  <2>1. UNCHANGED <<up, published, to_send, sent, screen, announced>>
    BY <1>6 DEF Write, Publish, PublishItems, history
  <2>2. items_herald' # None => items_herald'.kind = "ITEMS"
    BY <1>0, <1>6 DEF Write, Publish, PublishItems, AfterAnnouncement
  <2> QED
    BY <1>0, <2>1, <2>2 DEF AfterAnnouncement, Clients!InitPublished, Clients!Held
<1>7. CASE Broadcast
  <2>1. UNCHANGED <<up, to_send, sent, screen>>
    BY <1>7 DEF Broadcast
  <2>2. (announced => announced') /\ items_herald' \in {None, items_herald}
    BY <1>0, <1>7 DEF Broadcast, NetState, NetItems
  <2>3. announced' <=> Clients!InitPublished'
    <3>1. CASE NetState /\ published' = published \union ({herald} \ {None})
      BY <1>0, <3>1 DEF NetState, AfterAnnouncement, Clients!InitPublished
    <3>2. CASE NetItems /\ published' = published \union ({items_herald} \ {None})
      BY <1>0, <3>2 DEF NetItems, AfterAnnouncement, Clients!InitPublished
    <3> QED
      BY <1>7, <3>1, <3>2 DEF Broadcast
  <2>4. \A c \in Client : Clients!Held(c)' = Clients!Held(c)
    BY <2>1 DEF Clients!Held
  <2> QED
    BY <1>0, <2>1, <2>2, <2>3, <2>4 DEF AfterAnnouncement
<1>8. CASE UNCHANGED systemVars
  BY <1>1, <1>8 DEF vars, history
<1> QED
  BY <1>2, <1>3, <1>4, <1>5, <1>6, <1>7, <1>8 DEF SystemNext

LEMMA WrittenStep ==
  ASSUME SystemInv, [SystemNext]_systemVars
  PROVE  WrittenFirst'
<1>0. WrittenFirst
  BY DEF SystemInv
<1>1. ASSUME UNCHANGED <<published, written, herald, items_herald>>, Closed => Closed',
             gpc' = "publish_items" => UNCHANGED <<gpc, server_tick>>
      PROVE  WrittenFirst'
  BY <1>0, <1>1 DEF WrittenFirst
<1>2. CASE (\E c \in Client : ClientStep(c)) \/ Lose \/ UNCHANGED systemVars
  <2>1. UNCHANGED <<vars, written>>
    BY <1>2 DEF ClientStep, Lose
  <2>2. UNCHANGED published
    BY <1>2 DEF ClientStep, Lose, Clients!Lose, Clients!ClientNext, Clients!SendNew, Clients!Resend,
         Clients!AckArrives, Clients!Launch, Clients!Frame, Clients!PickUp, Clients!networkVars
  <2> QED
    BY <1>1, <2>1, <2>2 DEF vars, netVars, gameVars, clockVars, Closed
<1>3. CASE (\E d \in up : ReadClient(d)) \/ (\E c \in Client : ReadInput(c))
           \/ (\E d \in Datagram : ReadOther(d))
  BY <1>1, <1>3, ReadFrame DEF ReadClient, ReadInput, ReadOther
<1>4. CASE Internal
  BY <1>1, <1>4, InternalFrame DEF Internal
<1>5. CASE Write
  <2>1. published' = published /\ npc' = npc /\ Closed' = Closed
    BY <1>5 DEF Write, Publish, PublishItems, netVars, Closed
  <2>2. CASE Publish
    <3>1. written' = IF Closed THEN written ELSE written \union {herald'}
      BY <1>5, <2>2 DEF Write, Publish, PublishItems
    <3>2. items_herald' = items_herald
      BY <2>2 DEF Publish
    <3>3. gpc' = "publish_items" =>
            herald' = [kind |-> "AUTH", tick |-> server_tick', items |-> {}]
      BY <2>2 DEF Publish, ItemsDue
    <3> QED
      BY <1>0, <2>1, <3>1, <3>2, <3>3 DEF WrittenFirst
  <2>3. CASE PublishItems
    <3>1. written' = IF Closed THEN written ELSE written \union {items_herald'}
      BY <1>5, <2>3 DEF Write, Publish, PublishItems
    <3>2. herald' = herald /\ gpc' = "play"
      BY <2>3 DEF PublishItems
    <3> QED
      BY <1>0, <2>1, <3>1, <3>2 DEF WrittenFirst
  <2> QED
    BY <1>5, <2>2, <2>3 DEF Write
<1>6. CASE Broadcast
  <2>1. ~Closed /\ ~Closed' /\ UNCHANGED <<gpc, server_tick, written>>
    BY <1>6 DEF Broadcast, NetState, NetItems, gameVars, clockVars, Closed
  <2>2. /\ published' \subseteq published \union ({herald, items_herald} \ {None})
        /\ ({herald', items_herald'} \ {None}) \subseteq ({herald, items_herald} \ {None})
    BY <1>6 DEF Broadcast, NetState, NetItems
  <2> QED
    BY <1>0, <2>1, <2>2 DEF WrittenFirst
<1> QED
  BY <1>2, <1>3, <1>4, <1>5, <1>6 DEF SystemNext

LEMMA SystemInit_Inv == SystemInit => SystemInv
<1> SUFFICES ASSUME SystemInit
             PROVE  SystemInv
  OBVIOUS
<1>1. IndInv
  BY InitInd DEF SystemInit
<1>2. NetworkTypeOK
  <2>1. \A c \in Client : <<Clients!InitOf(c)>> \in Seq(Clients!Upward)
    BY DEF Clients!Upward
  <2> QED
    BY <2>1 DEF SystemInit, Clients!Init, NetworkTypeOK
<1>3. AfterAnnouncement
  BY DEF SystemInit, Init, Clients!Init, AfterAnnouncement, Clients!InitPublished, Clients!Held,
     Clients!InitOf
<1>4. WrittenFirst
  BY DEF SystemInit, Init, Clients!Init, WrittenFirst
<1> QED
  BY <1>1, <1>2, <1>3, <1>4 DEF SystemInv

(* The invariant of the whole is inductive.                                 *)
THEOREM SystemInductive == SystemSpec => []SystemInv
<1>1. SystemInv /\ [SystemNext]_systemVars => SystemInv'
  BY ProcessInvStep, NetworkTypeStep, AnnouncementStep, WrittenStep DEF SystemInv
<1> QED
  BY <1>1, SystemInit_Inv, PTL DEF SystemSpec

(* The game process meets only what GameServer allows for.                  *)
THEOREM ProcessMeetsAssumption == SystemSpec => ProcessAsAssumed
<1>1. SystemInit => Init
  BY DEF SystemInit
<1>2. SystemInv /\ [SystemNext]_systemVars => [Next]_vars
  BY ProcessStep
<1> QED
  BY <1>1, <1>2, SystemInductive, PTL DEF SystemSpec, ProcessAsAssumed, Spec

-----------------------------------------------------------------------------
(* Every step is a step of the session.                                     *)

USE DEF Session!serverVars, Session!networkVars, Session!reliableVars, Session!matchVars,
        Session!itemVars, Clients!serverVars, Clients!networkVars, Clients!reliableVars,
        Clients!matchVars, Clients!itemVars

(* A client that reads what was broadcast reads what was written.           *)
LEMMA SessionClientStep ==
  ASSUME SystemInv, NEW c \in Client, ClientStep(c)
  PROVE  Session!ClientNext(c)
<1>0. /\ Clients!ClientNext(c) /\ UNCHANGED <<vars, written>> /\ published \subseteq written
  BY DEF ClientStep, SystemInv, WrittenFirst
<1>1. /\ UNCHANGED Session!serverVars
  BY <1>0 DEF vars, netVars, registryVars, postVars, gameVars, clockVars, worldVars, Closed
<1>2. CASE Clients!SendNew(c) \/ Clients!Resend(c) \/ Clients!AckArrives(c)
  BY <1>0, <1>1, <1>2 DEF Clients!SendNew, Clients!Resend, Clients!AckArrives,
     Session!ClientNext, Session!SendNew, Session!Resend, Session!AckArrives
<1>3. CASE Clients!Launch(c)
  <2>1. Session!Launch(c)
    BY <1>0, <1>1, <1>3 DEF Clients!Launch, Clients!init, Clients!Server!Registered,
       Session!Launch, Session!init, Session!Server!Registered
  <2> QED
    BY <2>1 DEF Session!ClientNext
<1>4. CASE Clients!Frame(c)
  <2>1. Clients!Received(c) \subseteq Session!Received(c)
    BY <1>0 DEF Clients!Received, Session!Received, Clients!update_active_items,
       Session!update_active_items
  <2>2. Session!Frame(c)
    <3> HIDE DEF Clients!Received, Session!Received
    <3> QED
      BY <1>0, <1>1, <1>4, <2>1 DEF Clients!Frame, Clients!Started, Clients!OverBefore,
         Clients!TimeIsUp, Session!Frame, Session!Started, Session!OverBefore, Session!TimeIsUp
  <2> QED
    BY <2>2 DEF Session!ClientNext
<1>5. ASSUME NEW i \in Clients!Server!Item, Clients!PickUp(c, i)
      PROVE  Session!ClientNext(c)
  <2>1. i \in Session!Server!Item
    BY DEF Clients!Server!Item, Session!Server!Item
  <2>2. Session!PickUp(c, i)
    BY <1>0, <1>1, <1>5 DEF Clients!PickUp, Clients!send_udp_reliable, Clients!PickOf,
       Clients!Remove, Session!PickUp, Session!send_udp_reliable, Session!PickOf, Session!Remove
  <2> QED
    BY <2>1, <2>2 DEF Session!ClientNext
<1> QED
  BY <1>0, <1>2, <1>3, <1>4, <1>5 DEF Clients!ClientNext

(* The two mapped services are the same.                                    *)
LEMMA ServiceIsServer ==
  /\ Service!Pick = Session!Server!Pick
  /\ \A p : Service!Register(p) <=> Session!Server!Register(p)
  /\ \A pick : Service!TakeOver(pick) <=> Session!Server!TakeOver(pick)
  /\ \A pick : Service!Decide(pick) <=> Session!Server!Decide(pick)
  /\ Service!Wait <=> Session!Server!Wait
  /\ Service!Announce <=> Session!Server!Announce
  /\ Service!Start <=> Session!Server!Start
  /\ Service!Finish <=> Session!Server!Finish
  /\ Service!Tick <=> Session!Server!Tick
  /\ Service!Close <=> Session!Server!Close
  /\ Abstract' = Abstract => UNCHANGED Session!serverVars
<1> USE DEF Service!clock, Service!world, Session!Server!clock, Session!Server!world
<1>1. Service!Pick = Session!Server!Pick
  BY DEF Service!Pick, Service!Item, Session!Server!Pick, Session!Server!Item
<1>2. ASSUME NEW p PROVE Service!Register(p) <=> Session!Server!Register(p)
  BY DEF Service!Register, Session!Server!Register
<1>3. ASSUME NEW pick PROVE Service!TakeOver(pick) <=> Session!Server!TakeOver(pick)
  BY DEF Service!TakeOver, Service!Registered, Session!Server!TakeOver, Session!Server!Registered
<1>4. ASSUME NEW pick PROVE Service!Decide(pick) <=> Session!Server!Decide(pick)
  <2>1. \A p : Service!SlotOf(p) = Session!Server!SlotOf(p)
    BY Zenon DEF Service!SlotOf, Session!Server!SlotOf
  <2>2. Service!Grant(pick) <=> Session!Server!Grant(pick)
    BY <2>1 DEF Service!Grant, Session!Server!Grant
  <2> QED
    BY <2>2 DEF Service!Decide, Session!Server!Decide
<1>5. /\ Service!Wait <=> Session!Server!Wait
      /\ Service!Announce <=> Session!Server!Announce
      /\ Service!Start <=> Session!Server!Start
      /\ Service!Finish <=> Session!Server!Finish
      /\ Service!Tick <=> Session!Server!Tick
      /\ Service!Close <=> Session!Server!Close
  BY DEF Service!Wait, Session!Server!Wait, Service!Announce, Session!Server!Announce,
     Service!Start, Session!Server!Start, Service!Finish, Session!Server!Finish,
     Service!Tick, Session!Server!Tick, Service!Close, Session!Server!Close
<1>6. Abstract' = Abstract => UNCHANGED Session!serverVars
  BY DEF Abstract
<1> QED
  BY <1>1, <1>2, <1>3, <1>4, <1>5, <1>6

(* A refused INIT changes nothing the session knows of.                     *)
LEMMA RefuseNothing ==
  ASSUME NEW d, Refuse(d)
  PROVE  UNCHANGED Session!serverVars
<1>1. Closed' = Closed /\ UNCHANGED <<mail_drop, registry, clockVars, worldVars>>
  BY ReadFrame DEF Refuse, registryVars, postVars, gameVars, Closed
<1> QED
  BY <1>1 DEF clockVars, worldVars

(* A client's INIT takes a slot, its pick is taken over or dropped, and what *)
(* is not refused is acknowledged.                                          *)
LEMMA SessionReadClient ==
  ASSUME SystemInv, NEW d \in up, ReadClient(d)
  PROVE  Session!Next \/ UNCHANGED Session!vars
<1> DEFINE w == OnWire(d)
<1>0. /\ d \in Clients!Upward /\ IndInv /\ AfterAnnouncement
      /\ UNCHANGED <<up, published, clientVars, written>>
      /\ acks' = IF Acked(w) THEN acks \union {d.player_id} ELSE acks
      /\ Refuse(w) \/ Receive(w)
  BY DEF SystemInv, NetworkTypeOK, ReadClient
<1>1. /\ d.player_id \in Client /\ d.control \in {"INIT", "PICK"}
      /\ w \in Datagram /\ w.control = d.control /\ w.player_id = d.player_id
      /\ d.control = "INIT" => d = Clients!InitOf(d.player_id)
      /\ d.control = "PICK" =>
           PickOf(w) = [player_id |-> d.player_id, item_id |-> d.item_id]
  BY <1>0, OnTheWire
<1> HIDE DEF w
<1>2. CASE Refuse(w)
  <2>1. acks' = acks
    BY <1>0, <1>2 DEF Refuse, Acked
  <2> QED
    BY <1>0, <1>2, <2>1, RefuseNothing DEF Session!vars
<1>3. CASE Receive(w)
  <2>1. CanArrive(w)
    BY <1>0, <1>1 DEF CanArrive, AfterAnnouncement
  <2>2. NetReceive(w)
    BY <1>3, <2>1 DEF NetReceive
  <2>3. acks' = acks \union {d.player_id}
    BY <1>0, <1>1, <1>3 DEF Receive, Acked, IsReliable
  <2>4. CASE d.control = "INIT"
    <3>1. Session!Server!Register(d.player_id)
      BY <1>0, <1>1, <2>2, <2>4, ServiceReceive, ServiceIsServer
    <3>2. Session!InitOf(d.player_id) = d
      BY <1>1, <2>4 DEF Session!InitOf, Clients!InitOf
    <3>3. Session!ReceiveInit(d.player_id)
      BY <1>0, <2>3, <3>1, <3>2 DEF Session!ReceiveInit
    <3> QED
      BY <1>1, <3>3 DEF Session!Next
  <2>5. CASE d.control = "PICK"
    <3>1. \/ UNCHANGED Session!serverVars
          \/ Session!Server!TakeOver([player_id |-> d.player_id, item_id |-> d.item_id])
      BY <1>0, <1>1, <2>2, <2>5, ServiceReceive, ServiceIsServer
    <3>2. ~Closed
      BY <1>3, ReadFrame
    <3>3. Session!ReceivePick(d)
      BY <1>0, <2>3, <2>5, <3>1, <3>2 DEF Session!ReceivePick
    <3> QED
      BY <3>3 DEF Session!Next
  <2> QED
    BY <1>1, <2>4, <2>5
<1> QED
  BY <1>0, <1>2, <1>3

(* Input changes nothing here, and the other players keep to the protocol.  *)
LEMMA SessionReadInput ==
  ASSUME SystemInv, NEW c \in Client, ReadInput(c)
  PROVE  UNCHANGED Session!vars
<1> DEFINE d == [control |-> "REG", player_id |-> c, seq_num |-> 0]
<1>1. d \in Datagram /\ d.control = "REG"
  BY InputDatagram
<1>2. Receive(d) /\ announced /\ IndInv
  BY DEF SystemInv, AfterAnnouncement, ReadInput
<1> HIDE DEF d
<1>3. NetReceive(d)
  BY <1>2 DEF NetReceive, CanArrive
<1>4. UNCHANGED Abstract
  BY <1>1, <1>2, <1>3, ServiceReceive
<1> QED
  BY <1>4, ServiceIsServer DEF ReadInput, Session!vars

LEMMA SessionReadOther ==
  ASSUME SystemInv, NEW d \in Datagram, ReadOther(d)
  PROVE  Session!Next \/ UNCHANGED Session!vars
<1>0. /\ IndInv /\ AfterAnnouncement /\ published \subseteq written
      /\ d.player_id \notin Client /\ (d.control = "INIT" \/ Clients!InitPublished)
      /\ Refuse(d) \/ Receive(d)
      /\ UNCHANGED <<networkVars, clientVars, written>>
  BY DEF SystemInv, WrittenFirst, ReadOther
<1>1. CASE Refuse(d) \/ UNCHANGED Abstract
  BY <1>0, <1>1, RefuseNothing, ServiceIsServer DEF Session!vars
<1>2. CASE Receive(d) /\ ~UNCHANGED Abstract
  <2>1. NetReceive(d)
    BY <1>0, <1>2 DEF NetReceive, CanArrive, AfterAnnouncement
  <2>2. CASE d.control = "INIT"
    <3>1. Session!Server!Register(d.player_id) /\ d.player_id \in Player \ Client
      BY <1>0, <2>1, <2>2, ServiceReceive, ServiceIsServer
    <3> QED
      BY <1>0, <3>1 DEF Session!OthersNext, Session!Next
  <2>3. CASE d.control # "INIT"
    <3>1. /\ PickOf(d) \in Service!Pick /\ Session!Server!TakeOver(PickOf(d))
      BY <1>0, <1>2, <2>1, <2>3, ServiceReceive, ServiceIsServer
    <3>2. /\ d.player_id \in Player \ Client /\ d.item_id \in Session!Server!Item
          /\ PickOf(d) = [player_id |-> d.player_id, item_id |-> d.item_id]
      BY <1>0, <3>1 DEF PickOf, Service!Pick, Service!Item, Session!Server!Item
    <3>3. \E q \in written : q.kind = "INIT"
      BY <1>0, <2>3 DEF Clients!InitPublished
    <3> QED
      BY <1>0, <3>1, <3>2, <3>3 DEF Session!OthersNext, Session!Next
  <2> QED
    BY <2>2, <2>3
<1> QED
  BY <1>0, <1>1, <1>2

(* The threads' own steps are the service's, or its end.                    *)
LEMMA SessionInternal ==
  ASSUME SystemInv, Internal
  PROVE  Session!Next \/ UNCHANGED Session!vars
<1>0. IndInv /\ UNCHANGED <<networkVars, clientVars, written>>
  BY DEF SystemInv, Internal
<1>1. CASE UNCHANGED Abstract
  BY <1>0, <1>1, ServiceIsServer DEF Session!vars
<1>2. CASE Service!Close \/ GameThreadStep
  <2>1. \/ Session!Server!Wait \/ Session!Server!Announce \/ Session!Server!Start
        \/ Session!Server!Finish \/ Session!Server!Close
        \/ \E pick \in Session!Server!Pick : Session!Server!Decide(pick)
    BY <1>2, ServiceIsServer DEF GameThreadStep
  <2> QED
    BY <1>0, <2>1 DEF Session!ServerNext, Session!Next
<1>3. CASE NetStart \/ NetFails \/ NetNotCreated \/ NetTop \/ NetWait \/ NetReadNone
           \/ NetForeign \/ NetExit
  <2>1. NetNext
    BY <1>3 DEF NetNext
  <2>2. ASSUME NEW d \in Datagram, NetReceive(d)
        PROVE  UNCHANGED Abstract \/ Service!Close
    <3>1. CASE npc = "recv"
      <4>1. UNCHANGED <<registry, mail_drop, gameVars, stop>> /\ npc' \in {"top", "recv"}
        BY <1>3, <3>1 DEF NetStart, NetFails, NetNotCreated, NetTop, NetWait, NetReadNone,
           NetForeign, NextIteration, NetExit, registryVars, postVars
      <4> QED
        BY <3>1, <4>1 DEF Abstract, Service!clock, Service!world, gameVars, clockVars, worldVars, Closed
    <3>2. CASE npc # "recv"
      BY <2>2, <3>2, ReadFrame DEF NetReceive
    <3> QED
      BY <3>1, <3>2
  <2> QED
    BY <1>0, <1>1, <1>2, <2>1, <2>2, ServiceOtherNet
<1>4. CASE GameStart \/ ConnectTop \/ ConnectPop \/ ConnectDecide
           \/ PlayTop \/ PlayPop \/ PlayDrained \/ PlayRead \/ GameExit
  <2>1. GameNext
    BY <1>4 DEF GameNext
  <2>2. ~Publish /\ ~PublishItems
    BY <1>4 DEF Publish, PublishItems, GameStart, ConnectTop, ConnectPop, ConnectDecide,
       PlayTop, PlayPop, PlayDrained, PlayRead, GameExit
  <2> QED
    BY <1>0, <1>1, <1>2, <2>1, <2>2, ServiceGameStep
<1> QED
  BY <1>3, <1>4 DEF Internal

(* The packets put into the heralds are those of the tick.  The last one ends *)
(* it; a state packet that an item list is to follow goes ahead.             *)
LEMMA SessionWrite ==
  ASSUME SystemInv, Write
  PROVE  Session!Next \/ UNCHANGED Session!vars
<1>0. /\ IndInv /\ WrittenFirst /\ UNCHANGED <<networkVars, clientVars>>
  BY DEF SystemInv, Write
<1>1. /\ \/ status = "INIT" /\ server_tick < start_tick
         \/ status = "STARTED" /\ server_tick < stop_tick
      /\ Publish \/ PublishItems
  BY <1>0 DEF Write, Publish, PublishItems, IndInv, MatchClock
<1>2. Session!Server!Listed = ListedItems
  <2>1. Session!Server!Cardinality(items) = Cardinality(items)
    BY Zenon DEF Session!Server!Cardinality, Cardinality
  <2>2. items_num = Cardinality(items)
    BY <1>0 DEF IndInv, ItemConservation
  <2> QED
    BY <2>1, <2>2 DEF Session!Server!Listed, ListedItems
<1>3. Session!Server!StatePacket =
        IF status = "INIT"
        THEN [kind |-> "INIT", tick |-> server_tick, items |-> ListedItems]
        ELSE [kind |-> "AUTH", tick |-> server_tick, items |-> {}]
  BY <1>2 DEF Session!Server!StatePacket
<1>4. Session!Server!ItemsPacket = [kind |-> "ITEMS", tick |-> server_tick, items |-> ListedItems]
  BY <1>2 DEF Session!Server!ItemsPacket
<1>5. Session!Server!ItemsDue <=> ItemsDue
  BY DEF Session!Server!ItemsDue, ItemsDue
<1>6. CASE Publish /\ ItemsDue
  <2>1. UNCHANGED Abstract
    BY <1>0, <1>6, ServicePublish
  <2>2. herald' = Session!Server!StatePacket
    BY <1>3, <1>6 DEF Publish
  <2>3. ~PublishItems
    BY <1>6 DEF Publish, PublishItems
  <2>4. written' = IF Closed THEN written ELSE written \union {Session!Server!StatePacket}
    BY <2>2, <2>3 DEF Write
  <2>5. server_tick < stop_tick
    BY <1>1, <1>6 DEF ItemsDue
  <2>6. CASE Closed
    BY <1>0, <2>1, <2>4, <2>6, ServiceIsServer DEF Session!vars
  <2>7. CASE ~Closed
    <3>1. Session!StateAhead
      BY <1>0, <1>5, <1>6, <2>1, <2>4, <2>5, <2>7, ServiceIsServer DEF Session!StateAhead
    <3> QED
      BY <3>1 DEF Session!Next
  <2> QED
    BY <2>6, <2>7
<1>7. CASE ~(Publish /\ ItemsDue)
  <2>1. Session!Server!Tick
    BY <1>0, <1>1, <1>7, ServicePublish, ServiceIsServer
  <2>2. written' = IF Closed THEN written ELSE written \union Session!Server!PacketsOfTick
    <3>1. CASE Publish
      <4>1. Session!Server!PacketsOfTick = {Session!Server!StatePacket}
        BY <1>5, <1>7, <3>1 DEF Session!Server!PacketsOfTick
      <4>2. herald' = Session!Server!StatePacket
        BY <1>3, <3>1 DEF Publish
      <4>3. ~PublishItems
        BY <3>1 DEF Publish, PublishItems
      <4> QED
        BY <4>1, <4>2, <4>3 DEF Write
    <3>2. CASE PublishItems
      <4>1. gpc = "publish_items" /\ ItemsDue
        BY <1>0, <3>2 DEF PublishItems, IndInv, BroadcastClock
      <4>2. Session!Server!PacketsOfTick =
              {Session!Server!StatePacket, Session!Server!ItemsPacket}
        BY <1>5, <4>1 DEF Session!Server!PacketsOfTick
      <4>3. ~Closed => Session!Server!StatePacket \in written
        BY <1>0, <1>3, <4>1 DEF WrittenFirst, ItemsDue
      <4>4. items_herald' = Session!Server!ItemsPacket
        BY <1>4, <3>2 DEF PublishItems
      <4>5. ~Publish
        BY <3>2 DEF Publish, PublishItems
      <4> QED
        BY <4>2, <4>3, <4>4, <4>5 DEF Write
    <3> QED
      BY <1>1, <3>1, <3>2
  <2> QED
    BY <1>0, <2>1, <2>2 DEF Session!ServerNext, Session!Next
<1> QED
  BY <1>6, <1>7

LEMMA SessionStep ==
  ASSUME SystemInv, [SystemNext]_systemVars
  PROVE  [Session!Next]_Session!vars
<1>1. CASE UNCHANGED <<Session!serverVars, up, acks, written, clientVars>>
  BY <1>1 DEF Session!vars
<1>2. ASSUME UNCHANGED vars
      PROVE  UNCHANGED Session!serverVars
  BY <1>2 DEF vars, netVars, registryVars, postVars, gameVars, clockVars, worldVars, Closed
<1>3. CASE UNCHANGED systemVars
  BY <1>1, <1>2, <1>3
<1>4. CASE Lose
  BY <1>2, <1>4 DEF Lose, Clients!Lose, Session!Lose, Session!Next
<1>5. ASSUME NEW c \in Client, ClientStep(c)
      PROVE  Session!Next
  BY <1>5, SessionClientStep DEF Session!Next
<1>6. CASE Broadcast
  <2>1. Closed' = Closed /\ UNCHANGED <<mail_drop, registry, clockVars, worldVars>>
    BY <1>6 DEF Broadcast, NetState, NetItems, registryVars, postVars, gameVars, Closed
  <2> QED
    BY <1>1, <1>6, <2>1 DEF Broadcast, clockVars, worldVars
<1> QED
  BY <1>3, <1>4, <1>5, <1>6, SessionReadClient, SessionReadInput, SessionReadOther,
     SessionInternal, SessionWrite DEF SystemNext

(* The clients meet a service as GameSession describes it.                  *)
THEOREM SessionImplemented == SystemSpec => ImplementsSession
<1>1. SystemInit => Session!Init
  <2>1. Init => Session!Server!Init
    BY DEF Init, Session!Server!Init, Slot, Session!Server!Slot, Item, Session!Server!Item,
       PicksIn, Closed
  <2> QED
    BY <2>1 DEF SystemInit, Clients!Init, Clients!InitOf, Session!Init, Session!InitOf
<1>2. SystemInv /\ [SystemNext]_systemVars => [Session!Next]_Session!vars
  BY SessionStep
<1> QED
  BY <1>1, <1>2, SystemInductive, PTL DEF SystemSpec, ImplementsSession, Session!Spec

-----------------------------------------------------------------------------
(* What is proved of the session holds of the system.                       *)
Shown == INSTANCE GameSession_proofs WITH
           pending <- PicksIn(mail_drop), closed <- Closed, published <- written

LEMMA SameSession ==
  /\ Session!Init <=> Shown!Init
  /\ Session!Next <=> Shown!Next
<1> USE DEF Session!serverVars, Shown!serverVars, Session!networkVars, Shown!networkVars,
        Session!reliableVars, Shown!reliableVars, Session!matchVars, Shown!matchVars,
        Session!itemVars, Shown!itemVars, Session!Server!clock, Shown!Server!clock,
        Session!Server!world, Shown!Server!world
<1>1. Session!Init <=> Shown!Init
  BY DEF Session!Init, Shown!Init, Session!InitOf, Shown!InitOf, Session!Server!Init,
     Shown!Server!Init, Session!Server!Slot, Shown!Server!Slot, Session!Server!Item,
     Shown!Server!Item
<1>2. ASSUME NEW c
      PROVE  Session!ClientNext(c) <=> Shown!ClientNext(c)
  BY DEF Session!ClientNext, Shown!ClientNext, Session!SendNew, Shown!SendNew, Session!Resend,
     Shown!Resend, Session!AckArrives, Shown!AckArrives, Session!Launch, Shown!Launch,
     Session!init, Shown!init, Session!Frame, Shown!Frame, Session!Received, Shown!Received,
     Session!update_active_items, Shown!update_active_items, Session!Started, Shown!Started,
     Session!OverBefore, Shown!OverBefore, Session!TimeIsUp, Shown!TimeIsUp, Session!PickUp,
     Shown!PickUp, Session!send_udp_reliable, Shown!send_udp_reliable, Session!PickOf,
     Shown!PickOf, Session!Remove, Shown!Remove, Session!Server!Item, Shown!Server!Item,
     Session!Server!Registered, Shown!Server!Registered
<1>3. /\ Session!Lose <=> Shown!Lose
      /\ Session!StateAhead <=> Shown!StateAhead
  BY DEF Session!Lose, Shown!Lose, Session!StateAhead, Shown!StateAhead,
     Session!Server!ItemsDue, Shown!Server!ItemsDue, Session!Server!StatePacket,
     Shown!Server!StatePacket, Session!Server!Listed, Shown!Server!Listed,
     Session!Server!Cardinality, Shown!Server!Cardinality
<1>4. \A c : Session!ReceiveInit(c) <=> Shown!ReceiveInit(c)
  BY DEF Session!ReceiveInit, Shown!ReceiveInit, Session!InitOf, Shown!InitOf,
     Session!Server!Register, Shown!Server!Register
<1>5. \A d : Session!ReceivePick(d) <=> Shown!ReceivePick(d)
  BY DEF Session!ReceivePick, Shown!ReceivePick, Session!Server!TakeOver, Shown!Server!TakeOver,
     Session!Server!Registered, Shown!Server!Registered
<1>6. Session!OthersNext <=> Shown!OthersNext
  BY DEF Session!OthersNext, Shown!OthersNext, Session!Server!Register, Shown!Server!Register,
     Session!Server!TakeOver, Shown!Server!TakeOver, Session!Server!Registered,
     Shown!Server!Registered, Session!Server!Item, Shown!Server!Item
<1>7. Session!ServerNext <=> Shown!ServerNext
  BY DEF Session!ServerNext, Shown!ServerNext, Session!Server!Wait, Shown!Server!Wait,
     Session!Server!Announce, Shown!Server!Announce, Session!Server!Start, Shown!Server!Start,
     Session!Server!Finish, Shown!Server!Finish, Session!Server!Close, Shown!Server!Close,
     Session!Server!Tick, Shown!Server!Tick, Session!Server!Pick, Shown!Server!Pick,
     Session!Server!Item, Shown!Server!Item, Session!Server!Decide, Shown!Server!Decide,
     Session!Server!Grant, Shown!Server!Grant, Session!Server!SlotOf, Shown!Server!SlotOf,
     Session!Server!PacketsOfTick, Shown!Server!PacketsOfTick, Session!Server!ItemsDue,
     Shown!Server!ItemsDue, Session!Server!StatePacket, Shown!Server!StatePacket,
     Session!Server!ItemsPacket, Shown!Server!ItemsPacket, Session!Server!Listed,
     Shown!Server!Listed, Session!Server!Cardinality, Shown!Server!Cardinality
<1>8. Session!Next <=> Shown!Next
  BY <1>2, <1>3, <1>4, <1>5, <1>6, <1>7 DEF Session!Next, Shown!Next
<1> QED
  BY <1>1, <1>8

LEMMA SessionAsShown == Session!Spec => Shown!Spec
<1>1. Session!Init => Shown!Init
  BY SameSession
<1>2. [Session!Next]_Session!vars => [Shown!Next]_Shown!vars
  <2>1. UNCHANGED Session!vars => UNCHANGED Shown!vars
    BY DEF Session!vars, Shown!vars, Shown!serverVars, Shown!networkVars, Shown!reliableVars,
       Shown!matchVars, Shown!itemVars
  <2> QED
    BY <2>1, SameSession
<1> QED
  BY <1>1, <1>2, PTL DEF Session!Spec, Shown!Spec

LEMMA SessionConstants == Shown!SessionAssumption
BY GameAssumption, SystemAssumption DEF Shown!SessionAssumption

(* From end to end: items are neither lost nor duplicated, and each item the *)
(* server credits a client with is one its player took.                      *)
THEOREM ItemsEndToEnd == SystemSpec => [](ItemConservation /\ Session!CreditFollowsTaking)
<1>1. SystemSpec => []ItemConservation
  BY ProcessMeetsAssumption, ItemsConserved, PTL DEF ProcessAsAssumed
<1>2. SystemSpec => []Shown!CreditFollowsTaking
  <2>1. Shown!Spec => []Shown!CreditFollowsTaking
    BY SessionConstants, Shown!CreditEarned
  <2> QED
    BY <2>1, SessionImplemented, SessionAsShown, PTL DEF ImplementsSession
<1>3. Shown!CreditFollowsTaking => Session!CreditFollowsTaking
  BY DEF Shown!CreditFollowsTaking, Session!CreditFollowsTaking
<1> QED
  BY <1>1, <1>2, <1>3, PTL

(* Whatever the two threads and the network do to the order of packets, an    *)
(* item that was taken does not come back, and a client plays and stops with *)
(* the match of the game process.                                            *)
THEOREM ClientsEndToEnd ==
  SystemSpec => [](Session!TakenStaysTaken /\ Session!ScreenFollowsMatch)
<1>1. SystemSpec => []Shown!TakenStaysTaken
  <2>1. Shown!Spec => []Shown!TakenStaysTaken
    BY SessionConstants, Shown!TakenForGood
  <2> QED
    BY <2>1, SessionImplemented, SessionAsShown, PTL DEF ImplementsSession
<1>2. SystemSpec => []Shown!ScreenFollowsMatch
  <2>1. Shown!Spec => []Shown!ScreenFollowsMatch
    BY SessionConstants, Shown!ScreenCorrect
  <2> QED
    BY <2>1, SessionImplemented, SessionAsShown, PTL DEF ImplementsSession
<1>3. /\ Shown!TakenStaysTaken => Session!TakenStaysTaken
      /\ Shown!ScreenFollowsMatch => Session!ScreenFollowsMatch
  BY DEF Shown!TakenStaysTaken, Session!TakenStaysTaken, Shown!ScreenFollowsMatch,
     Session!ScreenFollowsMatch
<1> QED
  BY <1>1, <1>2, <1>3, PTL

=============================================================================
