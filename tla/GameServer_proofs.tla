-------------------------- MODULE GameServer_proofs -------------------------
(***************************************************************************)
(* Proofs about GameServer, for every set of players, number of items,     *)
(* size of the mail drop and length of the match.                          *)
(*                                                                         *)
(* IndInv is shown to be inductive one conjunct at a time.  The heart of   *)
(* it is RosterStep: as long as a slot is free nothing but INITs is in the *)
(* mail drop, so a push of one always finds room and the game thread seats *)
(* the players in the order the net thread registered them.  On top of it: *)
(* how far the broadcast clock can fall, and that the process implements   *)
(* GameService.                                                            *)
(***************************************************************************)
EXTENDS GameServer, FiniteSetTheorems, WellFoundedInduction, TLAPS

-----------------------------------------------------------------------------
(* A set of naturals has a least element, and a bounded one a greatest.      *)
LEMMA LeastOf ==
  ASSUME NEW T \in SUBSET Nat, T # {}
  PROVE  \E x \in T : \A y \in T : x <= y
<1>1. PICK x \in T : \A y \in T : ~(<<y, x>> \in OpToRel(<, Nat))
  BY NatLessThanWellFounded, WFMin
<1>2. ASSUME NEW y \in T PROVE x <= y
  <2>1. x \in Nat /\ y \in Nat
    OBVIOUS
  <2>2. <<y, x>> \in OpToRel(<, Nat) <=> y < x
    BY <2>1 DEF OpToRel
  <2>3. ~(y < x)
    BY <1>1, <2>2
  <2> QED
    BY <2>1, <2>3
<1> QED
  BY <1>2

LEMMA GreatestOf ==
  ASSUME NEW n \in Nat, NEW T \in SUBSET (1 .. n), T # {}
  PROVE  \E x \in T : \A y \in T : y <= x
<1> DEFINE U == {n - x : x \in T}
<1>1. U \in SUBSET Nat /\ U # {}
  <2>1. \A x \in T : x \in 1 .. n
    OBVIOUS
  <2>2. \A x \in T : n - x \in Nat
    BY <2>1
  <2> QED
    BY <2>2
<1>2. PICK u \in U : \A v \in U : u <= v
  BY <1>1, LeastOf
<1>3. PICK x \in T : u = n - x
  OBVIOUS
<1>4. ASSUME NEW y \in T PROVE y <= x
  <2>1. n - y \in U
    OBVIOUS
  <2>2. n - x <= n - y
    BY <1>2, <1>3, <2>1
  <2> QED
    BY <2>2
<1> QED
  BY <1>4

(* players_registry_get_index returns an index that was handed out to the id, *)
(* or finds nothing.                                                         *)
LEMMA IndexOfEntry ==
  ASSUME NEW S, NEW reg \in Seq(S), NEW id
  PROVE  /\ IndexOf(reg, id) \in 0 .. Len(reg)
         /\ IndexOf(reg, id) # 0 => reg[IndexOf(reg, id)] = id
<1> DEFINE found == {i \in DOMAIN reg : reg[i] = id}
<1>1. found \in SUBSET (1 .. Len(reg)) /\ Len(reg) \in Nat
  OBVIOUS
<1>2. CASE found = {}
  BY <1>1, <1>2 DEF IndexOf
<1>3. CASE found # {}
  <2>1. \E i \in found : \A j \in found : j <= i
    BY <1>1, <1>3, GreatestOf
  <2>2. IndexOf(reg, id) = CHOOSE i \in found : \A j \in found : j <= i
    BY <1>3 DEF IndexOf
  <2>3. IndexOf(reg, id) \in found
    BY <2>1, <2>2
  <2> QED
    BY <1>1, <2>3
<1> QED
  BY <1>2, <1>3

(* Right after players_registry_add_next it is the index just handed out.    *)
LEMMA IndexOfNewest ==
  ASSUME NEW S, NEW reg \in Seq(S), NEW id \in S
  PROVE  IndexOf(Append(reg, id), id) = Len(reg) + 1
<1> DEFINE r == Append(reg, id)
           found == {i \in DOMAIN r : r[i] = id}
<1>1. Len(reg) \in Nat /\ DOMAIN r = 1 .. Len(reg) + 1
  OBVIOUS
<1>2. Len(reg) + 1 \in found
  BY <1>1
<1>3. \A j \in found : j <= Len(reg) + 1 /\ j \in Int
  BY <1>1
<1>4. \A i \in found : (\A j \in found : j <= i) <=> i = Len(reg) + 1
  BY <1>1, <1>2, <1>3
<1>5. IndexOf(r, id) = CHOOSE i \in found : \A j \in found : j <= i
  BY <1>2 DEF IndexOf
<1> HIDE DEF found
<1>6. (CHOOSE i \in found : \A j \in found : j <= i) = Len(reg) + 1
  BY <1>2, <1>4
<1> QED
  BY <1>5, <1>6

(* The loops over game->players stop at a slot that is taken, or at none.    *)
LEMMA PlayerSlotTaken ==
  ASSUME players \in Seq(Player), NEW id
  PROVE  PlayerSlot(id) \in 0 .. Len(players)
<1> DEFINE found == {i \in DOMAIN players : players[i] = id}
<1>1. found \in SUBSET (1 .. Len(players)) /\ Len(players) \in Nat
  OBVIOUS
<1>2. CASE found = {}
  BY <1>1, <1>2 DEF PlayerSlot
<1>3. CASE found # {}
  <2>0. found \in SUBSET Nat
    BY <1>1
  <2>1. \E i \in found : \A j \in found : i <= j
    BY <1>3, <2>0, LeastOf
  <2>2. PlayerSlot(id) = CHOOSE i \in found : \A j \in found : i <= j
    BY <1>3 DEF PlayerSlot
  <2>3. PlayerSlot(id) \in found
    BY <2>1, <2>2
  <2> QED
    BY <1>1, <2>3
<1> QED
  BY <1>2, <1>3

-----------------------------------------------------------------------------
(* What a datagram the net thread goes on with leaves behind.                *)

(* The control word tells the kinds of datagram apart.                       *)
LEMMA DatagramKinds ==
  ASSUME NEW d \in Datagram
  PROVE  /\ d.player_id \in Player \union Stranger /\ d.seq_num \in SeqNum
         /\ IsReliable(d) => d \in Reliable
         /\ ~IsReliable(d) => d \in RegPacket
         /\ d.control = "INIT" => IsReliable(d)
         /\ d.control = "PICK" => d \in PickPacket
BY DEF Datagram, Reliable, InitPacket, PickPacket, RegPacket, IsReliable

(* An INIT that takes an index is pushed, in the last place of the drop; no  *)
(* slot was taken out of turn.                                               *)
LEMMA AcceptedInit ==
  ASSUME IndInv, NEW d \in Datagram, NetReceive(d), d.control = "INIT"
  PROVE  /\ registry' = Append(registry, d.player_id) /\ d.player_id \in Player
         /\ Len(registry) < players_num
         /\ seqnums' = [seqnums EXCEPT ![Len(registry) + 1] = d.seq_num]
         /\ mail_drop' = Append(mail_drop, d)
         /\ mailbox' = mailbox
<1>1. /\ registry' = Append(registry, d.player_id) /\ d.player_id \in Player
      /\ Len(registry) < players_num
  BY DEF NetReceive, Receive, Refused, AddNextAccepts
<1>2. registry \in Seq(Player) /\ players \in Seq(Player) /\ mail_drop \in Seq(Reliable)
  BY DEF IndInv, TypeOK
<1>3. IndexOf(registry', d.player_id) = Len(registry) + 1
  BY <1>1, <1>2, IndexOfNewest
<1>4. Len(registry) + 1 \in Slot
  BY <1>1, <1>2, GameAssumption DEF Slot
<1>5. seqnums[Len(registry) + 1] = 0 /\ d.seq_num \in Nat
  <2>1. Len(registry) \in Nat
    BY <1>2
  <2>2. seqnums[Len(registry) + 1] = 0
    BY <1>4, <2>1 DEF IndInv, Seating
  <2>3. d.seq_num \in Nat
    BY DatagramKinds, GameAssumption
  <2> QED
    BY <2>2, <2>3
<1>6. ~Outdated(d, Len(registry) + 1)
  BY <1>5 DEF Outdated
<1>7. Len(mail_drop) < MAIL_DROP_SIZE - 1
  <2>1. Len(players) <= Len(registry)
    BY <1>2 DEF IndInv, RosterFollowsRegistry, Unseated
  <2>2. ~AllConnected
    BY <1>1, <1>2, <2>1, GameAssumption DEF AllConnected
  <2>3. Len(mail_drop) = Len(registry) - Len(players)
    BY <2>2 DEF IndInv, Seating, Unseated
  <2> QED
    BY <1>1, <1>2, <2>3, GameAssumption
<1>8. IsReliable(d)
  BY DatagramKinds
<1>9. Len(registry) + 1 # 0
  BY <1>2
<1>10. /\ seqnums' = [seqnums EXCEPT ![Len(registry) + 1] = d.seq_num]
       /\ MailDropPush(d) /\ mailbox' = mailbox
  BY <1>1, <1>3, <1>6, <1>8, <1>9 DEF NetReceive, Receive
<1> QED
  BY <1>1, <1>7, <1>10 DEF MailDropPush

(* Anything else arrives when all slots are taken and leaves the registry    *)
(* alone; it is stored under an index that was handed out to its sender.     *)
LEMMA OtherDatagram ==
  ASSUME IndInv, NEW d \in Datagram, NetReceive(d), d.control # "INIT"
  PROVE  /\ registry' = registry /\ AllConnected
         /\ \/ UNCHANGED <<seqnums, postVars>>
            \/ \E i \in 1 .. Len(registry) :
                 /\ registry[i] = d.player_id
                 /\ seqnums' = [seqnums EXCEPT ![i] = d.seq_num]
                 /\ \/ IsReliable(d) /\ MailDropPush(d) /\ mailbox' = mailbox
                    \/ /\ ~IsReliable(d) /\ mail_drop' = mail_drop
                       /\ mailbox' = [mailbox EXCEPT ![i] = d]
<1>1. registry' = registry
  BY DEF NetReceive, Receive
<1>2. AllConnected
  BY DEF NetReceive, Receive, CanArrive, IndInv, Seating
<1> DEFINE i == IndexOf(registry, d.player_id)
<1>3. CASE i = 0 \/ Outdated(d, i)
  BY <1>1, <1>2, <1>3 DEF NetReceive, Receive
<1>4. CASE ~(i = 0 \/ Outdated(d, i))
  <2>1. registry \in Seq(Player) /\ Len(registry) \in Nat
    BY DEF IndInv, TypeOK
  <2>2. i \in 1 .. Len(registry) /\ registry[i] = d.player_id
    BY <1>4, <2>1, IndexOfEntry
  <2>3. /\ seqnums' = [seqnums EXCEPT ![i] = d.seq_num]
        /\ IF IsReliable(d)
           THEN MailDropPush(d) /\ UNCHANGED mailbox
           ELSE mailbox' = [mailbox EXCEPT ![i] = d] /\ UNCHANGED mail_drop
    BY <1>4 DEF NetReceive, Receive
  <2> HIDE DEF i
  <2> QED
    BY <1>1, <1>2, <2>2, <2>3
<1> QED
  BY <1>3, <1>4

-----------------------------------------------------------------------------
(* Only these steps write the registry, the post office or the world.        *)
LEMMA Frame ==
  ASSUME [Next]_vars
  PROVE  \/ \E d \in Datagram : NetReceive(d)
         \/ ConnectPop \/ PlayPop \/ PlayRead
         \/ UNCHANGED <<registryVars, postVars, worldVars>>
<1> USE DEF registryVars, postVars, worldVars
<1>1. CASE NetNext
  <2>1. ASSUME NEW d \in Datagram, NetRefuse(d)
        PROVE  UNCHANGED <<registryVars, postVars, worldVars>>
    BY <2>1 DEF NetRefuse, Refuse, gameVars
  <2> QED
    BY <1>1, <2>1 DEF NetNext, NetStart, NetFails, NetNotCreated, NetTop, NetState,
         NetItems, NetWait, NetReadNone, NetForeign, NetExit, gameVars
<1>2. CASE GameNext
  BY <1>2 DEF GameNext, GameStart, ConnectTop, ConnectDecide, PlayTop, PlayDrained,
       Publish, PublishItems, GameExit, netVars
<1>3. CASE UNCHANGED vars
  BY <1>3 DEF vars, netVars, gameVars
<1> QED
  BY <1>1, <1>2, <1>3 DEF Next, Exited

(* The roster follows the registry: an accepted INIT becomes the last of the *)
(* unseated ones, a popped one the next player; the rest keeps its place.    *)
LEMMA RosterStep ==
  ASSUME IndInv, [Next]_vars
  PROVE  RosterFollowsRegistry'
<1> USE DEF RosterFollowsRegistry, Unseated
<1>0. /\ registry \in Seq(Player) /\ players \in Seq(Player) /\ mail_drop \in Seq(Reliable)
      /\ RosterFollowsRegistry
      /\ ~AllConnected => Len(mail_drop) = Unseated
      /\ AllConnected <=> Len(players) = players_num
  BY DEF IndInv, TypeOK, Seating, AllConnected
<1>1. ASSUME NEW d \in Datagram, NetReceive(d), d.control = "INIT"
      PROVE  RosterFollowsRegistry'
  <2>1. /\ registry' = Append(registry, d.player_id) /\ d.player_id \in Player
        /\ Len(registry) < players_num
        /\ mail_drop' = Append(mail_drop, d)
        /\ players' = players
    BY <1>1, AcceptedInit DEF NetReceive, Receive, gameVars, worldVars
  <2>2. d \in Reliable
    BY <1>1, DatagramKinds
  <2>3. Len(players) # players_num
    BY <1>0, <2>1, GameAssumption
  <2>4. Len(mail_drop) = Unseated
    BY <1>0, <2>3
  <2>5. Len(registry') = Len(registry) + 1 /\ Len(mail_drop') = Len(mail_drop) + 1
    BY <1>0, <2>1, <2>2
  <2>6. Len(registry') <= players_num
    BY <1>0, <2>1, <2>5, GameAssumption
  <2>7. Unseated' = Len(mail_drop')
    BY <1>0, <2>1, <2>4, <2>5
  <2>8. \A i \in DOMAIN players : players[i] = registry'[i]
    BY <1>0, <2>1
  <2>9. ASSUME NEW k \in DOMAIN mail_drop'
        PROVE  mail_drop'[k].control = "INIT"
               /\ mail_drop'[k].player_id = registry'[Len(players) + k]
    <3>1. CASE k \in DOMAIN mail_drop
      BY <1>0, <2>1, <2>4, <3>1
    <3>2. CASE k = Len(mail_drop) + 1
      BY <1>0, <1>1, <2>1, <2>4, <3>2
    <3>3. k \in DOMAIN mail_drop \/ k = Len(mail_drop) + 1
      <4>1. mail_drop' \in Seq(Reliable)
        BY <1>0, <2>1, <2>2
      <4>2. k \in 1 .. Len(mail_drop) + 1
        BY <2>5, <4>1
      <4> QED
        BY <1>0, <4>2
    <3> QED
      BY <3>1, <3>2, <3>3
  <2>10. \A k \in DOMAIN mail_drop' : k <= Unseated'
    BY <1>0, <2>1, <2>5, <2>7
  <2>11. Unseated' \in 0 .. Len(mail_drop')
    BY <1>0, <2>5, <2>7
  <2> QED
    BY <2>1, <2>6, <2>8, <2>9, <2>10, <2>11
<1>2. ASSUME NEW d \in Datagram, NetReceive(d), d.control # "INIT"
      PROVE  RosterFollowsRegistry'
  <2>1. /\ registry' = registry /\ players' = players /\ AllConnected
        /\ mail_drop' = mail_drop \/ mail_drop' = Append(mail_drop, d)
    BY <1>2, OtherDatagram DEF NetReceive, Receive, gameVars, worldVars, postVars, MailDropPush
  <2>2. CASE mail_drop' = mail_drop
    BY <1>0, <2>1, <2>2
  <2>3. CASE mail_drop' = Append(mail_drop, d)
    <3>1. Unseated = 0 /\ Unseated' = 0
      BY <1>0, <2>1, GameAssumption
    <3>2. \A k \in DOMAIN mail_drop' : mail_drop'[k].control # "INIT"
      BY <1>0, <1>2, <2>3, <3>1
    <3>3. Len(mail_drop') \in Nat /\ DOMAIN mail_drop' \in SUBSET (Nat \ {0})
      BY <1>0, <2>3
    <3> QED
      BY <1>0, <2>1, <3>1, <3>2, <3>3
  <2> QED
    BY <2>1, <2>2, <2>3
<1>3. CASE ConnectPop \/ PlayPop
  <2>1. /\ registry' = registry /\ mail_drop # <<>> /\ mail_drop' = Tail(mail_drop)
        /\ PlayPop => AllConnected /\ players' = players
        /\ ConnectPop =>
             players' = IF mail_drop[1].control = "INIT" /\ mail_drop[1].player_id \in Player
                        THEN Append(players, mail_drop[1].player_id) ELSE players
    BY <1>0, <1>3 DEF ConnectPop, PlayPop, netVars, registryVars, IndInv, Seating, InGameLoop
  <2>2. /\ Len(mail_drop) > 0 /\ Len(mail_drop') = Len(mail_drop) - 1
        /\ \A k \in DOMAIN mail_drop' : mail_drop'[k] = mail_drop[k + 1] /\ k + 1 \in DOMAIN mail_drop
    BY <1>0, <2>1
  <2>3. CASE Unseated = 0
    <3>1. mail_drop[1].control # "INIT"
      BY <1>0, <2>2, <2>3
    <3>2. players' = players
      BY <1>3, <2>1, <3>1
    <3>3. \A k \in DOMAIN mail_drop' : mail_drop'[k].control # "INIT" /\ k \in Nat \ {0}
      BY <1>0, <2>1, <2>2, <2>3
    <3> QED
      BY <1>0, <2>1, <2>2, <2>3, <3>2, <3>3
  <2>4. CASE Unseated # 0
    <3>1. Unseated > 0 /\ ~AllConnected
      BY <1>0, <2>4, GameAssumption
    <3>2. /\ mail_drop[1].control = "INIT"
          /\ mail_drop[1].player_id = registry[Len(players) + 1]
      BY <1>0, <2>2, <3>1
    <3>3. registry[Len(players) + 1] \in Player
      BY <1>0, <3>1
    <3>4. players' = Append(players, registry[Len(players) + 1])
      BY <1>3, <2>1, <3>1, <3>2, <3>3
    <3>5. Len(players') = Len(players) + 1 /\ Unseated' = Unseated - 1
      BY <1>0, <2>1, <3>3, <3>4
    <3>6. \A i \in DOMAIN players' : players'[i] = registry'[i]
      BY <1>0, <2>1, <3>3, <3>4
    <3>7. Unseated' \in 0 .. Len(mail_drop')
      BY <1>0, <2>2, <3>1, <3>5
    <3>8. ASSUME NEW k \in DOMAIN mail_drop'
          PROVE  /\ k <= Unseated' <=> k + 1 <= Unseated
                 /\ Len(players) + (k + 1) = Len(players') + k
      <4>1. k \in Nat /\ Len(players) \in Nat /\ Unseated \in Int
        <5>1. k + 1 \in DOMAIN mail_drop /\ mail_drop' \in Seq(Reliable)
          BY <1>0, <2>1, <2>2
        <5> QED
          BY <1>0, <5>1
      <4> QED
        BY <3>5, <4>1
    <3>9. \A k \in DOMAIN mail_drop' :
            IF k <= Unseated'
            THEN mail_drop'[k].control = "INIT"
                 /\ mail_drop'[k].player_id = registry'[Len(players') + k]
            ELSE mail_drop'[k].control # "INIT"
      BY <1>0, <2>1, <2>2, <3>8
    <3> QED
      BY <1>0, <2>1, <3>6, <3>7, <3>9
  <2> QED
    BY <2>3, <2>4
<1>4. CASE UNCHANGED <<registry, players, mail_drop>>
  BY <1>0, <1>4
<1> QED
  BY <1>1, <1>2, <1>3, <1>4, Frame
     DEF PlayRead, registryVars, postVars, worldVars, netVars

(* Once every slot is taken it stays so, and nothing but that lets the game  *)
(* loop start, a packet leave or a datagram other than INIT arrive.          *)
LEMMA SeatingStep ==
  ASSUME IndInv, [Next]_vars
  PROVE  Seating'
<1> USE DEF Seating, AllConnected, Unseated, InGameLoop
<1>0. /\ registry \in Seq(Player) /\ players \in Seq(Player) /\ mail_drop \in Seq(Reliable)
      /\ seqnums \in [Slot -> SeqNum]
      /\ Len(registry) <= players_num /\ Unseated \in 0 .. Len(mail_drop)
      /\ \A k \in DOMAIN mail_drop : k > Unseated => mail_drop[k].control # "INIT"
      /\ Seating
  BY DEF IndInv, TypeOK, RosterFollowsRegistry
<1>1. ASSUME NEW d \in Datagram, NetReceive(d)
      PROVE  Seating'
  <2>1. players' = players /\ gpc' = gpc /\ announced' = announced /\ herald' = herald
    BY <1>1 DEF NetReceive, Receive, gameVars, worldVars
  <2>2. CASE d.control = "INIT"
    <3>1. /\ registry' = Append(registry, d.player_id) /\ d.player_id \in Player
          /\ Len(registry) < players_num
          /\ seqnums' = [seqnums EXCEPT ![Len(registry) + 1] = d.seq_num]
          /\ mail_drop' = Append(mail_drop, d) /\ d \in Reliable
      BY <1>1, <2>2, AcceptedInit, DatagramKinds
    <3>2. Len(registry') = Len(registry) + 1 /\ Len(mail_drop') = Len(mail_drop) + 1
      BY <1>0, <3>1
    <3>3. Len(mail_drop') = Unseated'
      <4>1. Len(registry) \in Nat /\ Len(players) \in Nat /\ Len(mail_drop) \in Nat
        BY <1>0
      <4>2. Len(players) # players_num
        BY <1>0, <3>1, <4>1, GameAssumption
      <4>3. Len(mail_drop) = Len(registry) - Len(players)
        BY <1>0, <4>2
      <4> QED
        BY <2>1, <3>2, <4>1, <4>3
    <3>4. \A i \in Slot : i > Len(registry') => seqnums'[i] = 0
      BY <1>0, <3>1, <3>2 DEF Slot
    <3> QED
      BY <1>0, <2>1, <3>3, <3>4
  <2>3. CASE d.control # "INIT"
    <3>1. /\ registry' = registry /\ Len(players) = players_num
          /\ \/ seqnums' = seqnums
             \/ \E i \in 1 .. Len(registry) : seqnums' = [seqnums EXCEPT ![i] = d.seq_num]
      BY <1>1, <2>3, OtherDatagram
    <3>2. \A i \in Slot : i > Len(registry') => seqnums'[i] = 0
      BY <1>0, <3>1 DEF Slot
    <3> QED
      BY <2>1, <3>1, <3>2
  <2> QED
    BY <2>2, <2>3
<1>2. CASE ConnectPop
  <2>1. /\ registry' = registry /\ seqnums' = seqnums /\ gpc' = gpc
        /\ announced' = announced /\ herald' = herald
        /\ mail_drop # <<>> /\ mail_drop' = Tail(mail_drop)
        /\ players' = IF mail_drop[1].control = "INIT" /\ mail_drop[1].player_id \in Player
                      THEN Append(players, mail_drop[1].player_id) ELSE players
    BY <1>0, <1>2 DEF ConnectPop, netVars, registryVars, history
  <2>2. Len(mail_drop) > 0 /\ Len(mail_drop') = Len(mail_drop) - 1
    BY <1>0, <2>1
  <2>3. CASE AllConnected
    <3>1. Unseated = 0
      BY <1>0, <2>3, GameAssumption
    <3>2. mail_drop[1].control # "INIT"
      BY <1>0, <2>2, <3>1
    <3> QED
      BY <1>0, <2>1, <2>3, <3>2
  <2>4. CASE ~AllConnected
    <3>1. Unseated = Len(mail_drop)
      BY <1>0, <2>4
    <3>2. RosterFollowsRegistry
      BY DEF IndInv
    <3>3. mail_drop[1].control = "INIT" /\ mail_drop[1].player_id = registry[Len(players) + 1]
      <4>1. 1 \in DOMAIN mail_drop /\ 1 <= Unseated
        BY <1>0, <2>2, <3>1
      <4> QED
        BY <3>2, <4>1 DEF RosterFollowsRegistry
    <3>4. mail_drop[1].player_id \in Player
      BY <1>0, <2>2, <3>1, <3>3
    <3>5. Len(players') = Len(players) + 1
      BY <1>0, <2>1, <3>3, <3>4
    <3>6. Len(mail_drop') = Unseated'
      BY <1>0, <2>1, <2>2, <3>1, <3>5
    <3>7. ~(InGameLoop \/ announced \/ herald # None)
      BY <1>0, <2>4
    <3> QED
      BY <1>0, <2>1, <3>6, <3>7
  <2> QED
    BY <2>3, <2>4
<1>3. CASE PlayPop \/ PlayRead
  <2>1. /\ UNCHANGED <<registry, seqnums, players>>
        /\ InGameLoop
    BY <1>3 DEF PlayPop, PlayRead, netVars, registryVars
  <2> QED
    BY <1>0, <2>1
<1>4. CASE UNCHANGED <<registryVars, postVars, worldVars>>
  <2> USE DEF registryVars, postVars, worldVars
  <2>1. UNCHANGED <<registry, seqnums, players, mail_drop>>
    BY <1>4
  <2>2. CASE NetNext
    <3>1. UNCHANGED gpc
      BY <2>2 DEF NetNext, NetStart, NetFails, NetNotCreated, NetTop, NetState, NetItems,
           NetWait, NetReadNone, NetForeign, NetRefuse, Refuse, NetReceive, Receive, NetExit, gameVars
    <3>2. announced' \/ herald' # None => announced \/ herald # None
      BY <2>2 DEF NetNext, NetStart, NetFails, NetNotCreated, NetTop, NetState, NetItems,
           NetWait, NetReadNone, NetForeign, NetRefuse, Refuse, NetReceive, Receive, NetExit, history
    <3> QED
      BY <1>0, <2>1, <3>1, <3>2
  <2>3. CASE GameNext
    <3>1. announced' = announced
      BY <2>3 DEF GameNext, GameStart, ConnectTop, ConnectPop, ConnectDecide, PlayTop, PlayPop,
           PlayDrained, PlayRead, Publish, PublishItems, GameExit, history
    <3>2. InGameLoop' => InGameLoop \/ AllConnected
      BY <2>3 DEF GameNext, GameStart, ConnectTop, ConnectPop, ConnectDecide, PlayTop, PlayPop,
           PlayDrained, PlayRead, Publish, PublishItems, GameExit
    <3>3. herald' = herald \/ InGameLoop
      BY <2>3 DEF GameNext, GameStart, ConnectTop, ConnectPop, ConnectDecide, PlayTop, PlayPop,
           PlayDrained, PlayRead, Publish, PublishItems, GameExit
    <3> QED
      BY <1>0, <2>1, <3>1, <3>2, <3>3
  <2>4. CASE UNCHANGED vars
    BY <1>0, <2>1, <2>4 DEF vars, gameVars, history
  <2> QED
    BY <2>2, <2>3, <2>4 DEF Next, Exited
<1> QED
  BY <1>1, <1>2, <1>3, <1>4, Frame

(* Input is stored only when the two arrays agree on every slot.             *)
LEMMA MailboxStep ==
  ASSUME IndInv, [Next]_vars
  PROVE  MailboxFollowsRoster'
<1> USE DEF MailboxFollowsRoster
<1>0. /\ registry \in Seq(Player) /\ players \in Seq(Player) /\ mail_drop \in Seq(Reliable)
      /\ mailbox \in [Slot -> RegPacket \union {None}]
      /\ Len(registry) <= players_num /\ Len(players) <= Len(registry)
      /\ \A i \in DOMAIN players : players[i] = registry[i]
      /\ MailboxFollowsRoster
  BY DEF IndInv, TypeOK, RosterFollowsRegistry, Unseated
<1>1. ASSUME NEW d \in Datagram, NetReceive(d)
      PROVE  MailboxFollowsRoster'
  <2>1. players' = players
    BY <1>1 DEF NetReceive, Receive, gameVars, worldVars
  <2>2. CASE d.control = "INIT"
    BY <1>0, <1>1, <2>1, <2>2, AcceptedInit
  <2>3. CASE d.control # "INIT"
    <3>1. /\ Len(players) = players_num
          /\ \/ mailbox' = mailbox
             \/ \E i \in 1 .. Len(registry) :
                  registry[i] = d.player_id /\ mailbox' = [mailbox EXCEPT ![i] = d]
      BY <1>1, <2>3, OtherDatagram DEF AllConnected, postVars
    <3>2. CASE mailbox' = mailbox
      BY <1>0, <2>1, <3>2
    <3>3. ASSUME NEW i \in 1 .. Len(registry), registry[i] = d.player_id,
                 mailbox' = [mailbox EXCEPT ![i] = d]
          PROVE  MailboxFollowsRoster'
      <4>1. i \in DOMAIN players /\ players[i] = d.player_id /\ i <= Len(players)
        BY <1>0, <3>1, <3>3, GameAssumption
      <4>2. \A j \in Slot : mailbox'[j] = IF j = i THEN d ELSE mailbox[j]
        BY <1>0, <3>3
      <4> QED
        BY <1>0, <2>1, <4>1, <4>2
    <3> QED
      BY <3>1, <3>2, <3>3
  <2> QED
    BY <2>2, <2>3
<1>2. CASE ConnectPop
  <2>1. mailbox' = mailbox /\ (players' = players \/ \E p \in Player : players' = Append(players, p))
    BY <1>2 DEF ConnectPop
  <2> QED
    BY <1>0, <2>1 DEF Slot
<1>3. CASE PlayPop
  BY <1>0, <1>3 DEF PlayPop
<1>4. CASE PlayRead
  <2>1. players' = players /\ mailbox' = [mailbox EXCEPT ![slot] = None]
    BY <1>4 DEF PlayRead
  <2> QED
    BY <1>0, <2>1
<1>5. CASE UNCHANGED <<registryVars, postVars, worldVars>>
  BY <1>0, <1>5 DEF postVars, worldVars
<1> QED
  BY <1>1, <1>2, <1>3, <1>4, <1>5, Frame

(* PickUp is the one place where an item moves.                              *)
LEMMA ItemsStep ==
  ASSUME IndInv, [Next]_vars
  PROVE  ItemConservation' /\ inventory' \in [Slot -> SUBSET Item]
         /\ items' \in SUBSET Item /\ items_num' \in Int
<1>0. /\ inventory \in [Slot -> SUBSET Item] /\ items \in SUBSET Item /\ items_num \in Int
      /\ ItemConservation
  BY DEF IndInv, TypeOK
<1>1. CASE UNCHANGED <<inventory, items, items_num>>
  BY <1>0, <1>1 DEF ItemConservation
<1>2. ASSUME NEW s \in Slot, NEW x \in items,
             inventory' = [inventory EXCEPT ![s] = @ \union {x}],
             items' = items \ {x}, items_num' = items_num - 1
      PROVE  ItemConservation' /\ inventory' \in [Slot -> SUBSET Item]
             /\ items' \in SUBSET Item /\ items_num' \in Int
  <2>1. x \in Item /\ items' \in SUBSET Item /\ items_num' \in Int
        /\ inventory' \in [Slot -> SUBSET Item]
    BY <1>0, <1>2
  <2>2. \A i \in Slot : inventory'[i] = IF i = s THEN inventory[i] \union {x} ELSE inventory[i]
    BY <1>0, <1>2
  <2>3. items' \union UNION {inventory'[i] : i \in Slot} = Item
    <3>1. items \union UNION {inventory[i] : i \in Slot} = Item
      BY <1>0 DEF ItemConservation
    <3>2. ASSUME NEW y \in Item
          PROVE  y \in items' \union UNION {inventory'[i] : i \in Slot}
      BY <1>2, <2>2, <3>1
    <3>3. \A i \in Slot : inventory'[i] \subseteq Item
      BY <2>1
    <3> QED
      BY <2>1, <3>2, <3>3
  <2>4. \A i \in Slot : inventory'[i] \intersect items' = {}
    BY <1>0, <1>2, <2>2 DEF ItemConservation
  <2>5. \A i, j \in Slot : i # j => inventory'[i] \intersect inventory'[j] = {}
    BY <1>0, <1>2, <2>2 DEF ItemConservation
  <2>6. items_num' = Cardinality(items')
    <3>1. IsFiniteSet(Item)
      <4>1. 0 \in Int /\ ITEMS - 1 \in Int
        BY GameAssumption
      <4> QED
        BY <4>1, FS_Interval DEF Item
    <3>2. IsFiniteSet(items)
      BY <1>0, <3>1, FS_Subset
    <3>3. Cardinality(items \ {x}) = Cardinality(items) - 1
      BY <3>2, FS_RemoveElement
    <3> QED
      BY <1>0, <1>2, <3>3 DEF ItemConservation
  <2> QED
    BY <2>1, <2>3, <2>4, <2>5, <2>6 DEF ItemConservation
<1>3. CASE PlayPop
  <2>1. ASSUME NEW d, PickUp(d), ~UNCHANGED <<inventory, items, items_num>>
        PROVE  \E s \in Slot : \E x \in items :
                 /\ inventory' = [inventory EXCEPT ![s] = @ \union {x}]
                 /\ items' = items \ {x} /\ items_num' = items_num - 1
    <3>1. PlayerSlot(d.player_id) # 0 /\ d.item_id \in items
      BY <2>1 DEF PickUp
    <3>2. PlayerSlot(d.player_id) \in Slot
      <4>1. PlayerSlot(d.player_id) \in 0 .. Len(players) /\ players \in Seq(Player)
        BY PlayerSlotTaken DEF IndInv, TypeOK
      <4>2. Len(players) = players_num
        BY <1>3 DEF PlayPop, IndInv, Seating, InGameLoop, AllConnected
      <4> QED
        BY <3>1, <4>1, <4>2 DEF Slot
    <3> QED
      BY <2>1, <3>1, <3>2 DEF PickUp
  <2>2. (\E d : PickUp(d)) \/ UNCHANGED <<inventory, items, items_num>>
    BY <1>3 DEF PlayPop
  <2> QED
    BY <1>1, <1>2, <2>1, <2>2
<1>4. CASE \E d \in Datagram : NetReceive(d)
  BY <1>1, <1>4 DEF NetReceive, Receive, gameVars, worldVars
<1> QED
  BY <1>1, <1>3, <1>4, Frame DEF ConnectPop, PlayRead, worldVars

(* The tick only grows, the match starts at start_tick and is left at        *)
(* stop_tick before anything of that tick is applied.                        *)
LEMMA ClockStep ==
  ASSUME IndInv, [Next]_vars
  PROVE  MatchClock'
<1> USE DEF MatchClock, InGameLoop
<1>0. MatchClock /\ server_tick \in Nat /\ start_tick \in Nat /\ stop_tick \in Nat
  BY DEF IndInv, TypeOK
<1>1. CASE NetNext
  <2>1. UNCHANGED <<status, start_tick, stop_tick, server_tick, gpc>>
    BY <1>1 DEF NetNext, NetStart, NetFails, NetNotCreated, NetTop, NetState, NetItems,
         NetWait, NetReadNone, NetForeign, NetRefuse, Refuse, NetReceive, Receive, NetExit, gameVars, clockVars
  <2> QED
    BY <1>0, <2>1
<1>2. CASE ConnectDecide
  BY <1>0, <1>2 DEF ConnectDecide, clockVars
<1>3. CASE PlayTop
  BY <1>0, <1>3 DEF PlayTop, Started, Finished
<1>4. CASE Publish \/ PublishItems
  BY <1>0, <1>4 DEF Publish, PublishItems
<1>5. CASE GameStart \/ ConnectTop \/ ConnectPop \/ PlayPop \/ PlayDrained \/ PlayRead \/ GameExit
  BY <1>0, <1>5 DEF GameStart, ConnectTop, ConnectPop, PlayPop, PlayDrained, PlayRead, GameExit,
       clockVars
<1>6. CASE UNCHANGED vars
  BY <1>0, <1>6 DEF vars, gameVars, clockVars
<1> QED
  BY <1>1, <1>2, <1>3, <1>4, <1>5, <1>6 DEF Next, GameNext, Exited

(* Before the game loop nothing is announced, so no pick arrives; afterwards  *)
(* the registry never forgets the sender of one that waits.                  *)
LEMMA AnnouncedStep ==
  ASSUME IndInv, [Next]_vars
  PROVE  /\ gpc' \in {"start", "connect", "connect_drain"} => ~announced' /\ herald' = None
         /\ announced => announced'
<1>0. /\ gpc \in {"start", "connect", "connect_drain"} => ~announced /\ herald = None
      /\ announced \in BOOLEAN
  BY DEF IndInv, PicksInDrop, TypeOK
<1>1. CASE NetNext
  <2>1. gpc' = gpc
    BY <1>1 DEF NetNext, NetStart, NetFails, NetNotCreated, NetTop, NetState, NetItems,
         NetWait, NetReadNone, NetForeign, NetRefuse, Refuse, NetReceive, Receive, NetExit, gameVars
  <2>2. CASE NetState
    BY <1>0, <2>1, <2>2 DEF NetState
  <2>3. CASE ~NetState
    <3>1. announced' = announced /\ herald' = herald
      BY <1>1, <2>3 DEF NetNext, NetStart, NetFails, NetNotCreated, NetTop, NetItems,
           NetWait, NetReadNone, NetForeign, NetRefuse, Refuse, NetReceive, Receive, NetExit, history
    <3> QED
      BY <1>0, <2>1, <3>1
  <2> QED
    BY <2>2, <2>3
<1>2. CASE GameStart \/ ConnectTop \/ ConnectPop \/ ConnectDecide
  BY <1>0, <1>2 DEF GameStart, ConnectTop, ConnectPop, ConnectDecide, history
<1>3. CASE PlayTop \/ PlayPop \/ PlayDrained \/ PlayRead \/ Publish \/ PublishItems \/ GameExit
  BY <1>0, <1>3 DEF PlayTop, PlayPop, PlayDrained, PlayRead, Publish, PublishItems, GameExit, history
<1>4. CASE UNCHANGED vars
  BY <1>0, <1>4 DEF vars, gameVars, history
<1> QED
  BY <1>1, <1>2, <1>3, <1>4 DEF Next, GameNext, Exited

LEMMA PicksStep ==
  ASSUME IndInv, [Next]_vars
  PROVE  PicksInDrop'
<1> DEFINE Queued(d) == d.control = "PICK" => announced /\ \E i \in DOMAIN registry : registry[i] = d.player_id
<1>0. /\ registry \in Seq(Player) /\ players \in Seq(Player) /\ mail_drop \in Seq(Reliable)
      /\ \A k \in DOMAIN mail_drop : Queued(mail_drop[k])
  BY DEF IndInv, TypeOK, PicksInDrop
<1>1. announced => announced'
  BY AnnouncedStep
<1>2. SUFFICES \A k \in DOMAIN mail_drop' :
                 mail_drop'[k].control = "PICK" =>
                   announced' /\ \E i \in DOMAIN registry' : registry'[i] = mail_drop'[k].player_id
  BY AnnouncedStep DEF PicksInDrop
<1>3. ASSUME NEW d \in Datagram, NetReceive(d), d.control = "INIT"
      PROVE  \A k \in DOMAIN mail_drop' :
                 mail_drop'[k].control = "PICK" =>
                   announced' /\ \E i \in DOMAIN registry' : registry'[i] = mail_drop'[k].player_id
  <2>1. registry' = Append(registry, d.player_id) /\ mail_drop' = Append(mail_drop, d)
    BY <1>3, AcceptedInit
  <2>2. \A i \in DOMAIN registry : i \in DOMAIN registry' /\ registry'[i] = registry[i]
    BY <1>0, <2>1
  <2>3. ASSUME NEW k \in DOMAIN mail_drop', mail_drop'[k].control = "PICK"
        PROVE  k \in DOMAIN mail_drop /\ mail_drop'[k] = mail_drop[k]
    BY <1>0, <1>3, <2>1, <2>3
  <2> QED
    BY <1>0, <1>1, <2>2, <2>3
<1>4. ASSUME NEW d \in Datagram, NetReceive(d), d.control # "INIT"
      PROVE  \A k \in DOMAIN mail_drop' :
                 mail_drop'[k].control = "PICK" =>
                   announced' /\ \E i \in DOMAIN registry' : registry'[i] = mail_drop'[k].player_id
  <2>1. registry' = registry
    BY <1>4, OtherDatagram
  <2>2. CASE mail_drop' = mail_drop
    BY <1>0, <1>1, <2>1, <2>2
  <2>3. CASE mail_drop' # mail_drop
    <3>1. mail_drop' = Append(mail_drop, d) /\ \E i \in DOMAIN registry : registry[i] = d.player_id
      <4>1. \E i \in 1 .. Len(registry) : registry[i] = d.player_id /\ MailDropPush(d)
        BY <1>4, <2>3, OtherDatagram DEF postVars
      <4>2. DOMAIN registry = 1 .. Len(registry)
        BY <1>0
      <4> QED
        BY <2>3, <4>1, <4>2 DEF MailDropPush
    <3>2. announced
      BY <1>4 DEF NetReceive, Receive, CanArrive
    <3>3. ASSUME NEW k \in DOMAIN mail_drop'
          PROVE  \/ k \in DOMAIN mail_drop /\ mail_drop'[k] = mail_drop[k]
                 \/ mail_drop'[k] = d
      <4>1. d \in Reliable
        BY <1>4, <2>3, OtherDatagram, DatagramKinds DEF postVars
      <4> QED
        BY <1>0, <3>1, <4>1
    <3> QED
      BY <1>0, <1>1, <2>1, <3>1, <3>2, <3>3
  <2> QED
    BY <2>2, <2>3
<1>5. CASE ConnectPop \/ PlayPop
  <2>1. registry' = registry /\ mail_drop # <<>> /\ mail_drop' = Tail(mail_drop)
    BY <1>5 DEF ConnectPop, PlayPop, netVars, registryVars
  <2>2. \A k \in DOMAIN mail_drop' : k + 1 \in DOMAIN mail_drop /\ mail_drop'[k] = mail_drop[k + 1]
    BY <1>0, <2>1
  <2> QED
    BY <1>0, <1>1, <2>1, <2>2
<1>6. CASE PlayRead \/ UNCHANGED <<registryVars, postVars, worldVars>>
  <2>1. registry' = registry /\ mail_drop' = mail_drop
    BY <1>6 DEF PlayRead, netVars, registryVars, postVars
  <2> QED
    BY <1>0, <1>1, <2>1
<1> QED
  BY <1>3, <1>4, <1>5, <1>6, Frame

(* A list is replaced before it is more than a period old.                   *)
LEMMA ListReplaced ==
  ASSUME NEW t \in Nat, NEW n \in Nat, t % ITEMS_AUTH_RATE = 0,
         n <= t + ITEMS_AUTH_RATE, n % ITEMS_AUTH_RATE # 0
  PROVE  n + 1 <= t + ITEMS_AUTH_RATE
<1>1. ITEMS_AUTH_RATE \in Nat \ {0}
  BY GameAssumption
<1> DEFINE R == ITEMS_AUTH_RATE
           a == t \div R
           b == (t + R) \div R
           m == (t + R) % R
<1>2. t = R * a /\ a \in Int
  BY <1>1
<1>3. t + R = R * b + m /\ b \in Int /\ m \in 0 .. R - 1
  BY <1>1
<1> HIDE DEF a, b, m
<1>4. m = R * (a + 1 - b)
  BY <1>1, <1>2, <1>3
<1>5. m = 0
  <2> DEFINE z == a + 1 - b
  <2>1. z \in Int /\ m = R * z
    BY <1>2, <1>3, <1>4
  <2> HIDE DEF z
  <2>2. z >= 1 => R * z >= R
    BY <1>1, <2>1
  <2>3. z <= -1 => R * z < 0
    BY <1>1, <2>1
  <2>4. z = 0
    BY <1>1, <1>3, <2>1, <2>2, <2>3
  <2> QED
    BY <1>1, <2>1, <2>4
<1>6. (t + R) % R = 0
  BY <1>5 DEF m
<1> QED
  BY <1>1, <1>6

LEMMA BroadcastStep ==
  ASSUME IndInv, [Next]_vars
  PROVE  BroadcastClock'
<1>0. /\ BroadcastClock /\ {server_tick, last_sent} \subseteq Nat
      /\ ITEMS_AUTH_RATE \in Nat \ {0}
      /\ herald \in ServerPacket \union {None} /\ items_herald \in ServerPacket \union {None}
  BY GameAssumption DEF IndInv, TypeOK
<1>1. CASE UNCHANGED vars \/ Exited
  BY <1>0, <1>1 DEF Exited, vars, gameVars, clockVars, history, BroadcastClock, ItemsDue
<1>2. CASE NetNext
  <2>1. CASE NetState
    BY <1>0, <2>1 DEF NetState, gameVars, clockVars, BroadcastClock, ItemsDue
  <2>2. CASE NetItems
    BY <1>0, <2>2 DEF NetItems, gameVars, clockVars, BroadcastClock, ItemsDue
  <2>3. CASE UNCHANGED <<gpc, clockVars, herald, items_herald, last_sent>>
    BY <1>0, <2>3 DEF clockVars, BroadcastClock, ItemsDue
  <2> QED
    BY <1>2, <2>1, <2>2, <2>3 DEF NetNext, NetStart, NetFails, NetNotCreated, NetTop, NetWait,
         NetReadNone, NetForeign, NetRefuse, Refuse, NetReceive, Receive, NetExit, gameVars, history
<1>3. CASE GameNext
  <2>1. UNCHANGED last_sent
    BY <1>3 DEF GameNext, GameStart, ConnectTop, ConnectPop, ConnectDecide, PlayTop, PlayPop,
         PlayDrained, PlayRead, Publish, PublishItems, GameExit, history
  <2>2. CASE ConnectDecide
    <3>1. herald = None /\ items_herald = None
      BY <1>0, <2>2 DEF ConnectDecide, IndInv, PicksInDrop, MatchClock, BroadcastClock
    <3> QED
      BY <1>0, <2>1, <2>2, <3>1 DEF ConnectDecide, clockVars, BroadcastClock
  <2>3. CASE PlayTop
    BY <1>0, <2>1, <2>3 DEF PlayTop, IndInv, MatchClock, InGameLoop, BroadcastClock, ItemsDue
  <2>4. CASE Publish
    <3>1. status \in {"INIT", "STARTED"}
      BY <2>4 DEF Publish, IndInv, MatchClock, InGameLoop
    <3>2. CASE ItemsDue
      BY <1>0, <2>1, <2>4, <3>2 DEF Publish, BroadcastClock, ItemsDue
    <3>3. CASE ~ItemsDue
      <4>1. gpc' = "play" /\ server_tick' = server_tick + 1
            /\ UNCHANGED <<items_herald, status>> /\ herald'.tick = server_tick
        BY <2>4, <3>3 DEF Publish
      <4>2. ASSUME items_herald # None
            PROVE  server_tick + 1 <= items_herald.tick + ITEMS_AUTH_RATE /\ items_herald.tick \in Nat
        <5>1. /\ items_herald.tick \in Nat /\ items_herald.tick % ITEMS_AUTH_RATE = 0
              /\ server_tick <= items_herald.tick + ITEMS_AUTH_RATE /\ status = "STARTED"
          BY <1>0, <3>1, <4>2 DEF BroadcastClock, ServerPacket
        <5>2. server_tick % ITEMS_AUTH_RATE # 0
          BY <3>3, <5>1 DEF ItemsDue
        <5> QED
          BY <1>0, <5>1, <5>2, ListReplaced
      <4> QED
        BY <1>0, <2>1, <4>1, <4>2 DEF BroadcastClock
    <3> QED
      BY <3>2, <3>3
  <2>5. CASE PublishItems
    BY <1>0, <2>1, <2>5 DEF PublishItems, BroadcastClock, ItemsDue, ServerPacket
  <2>6. CASE GameStart \/ ConnectTop \/ ConnectPop \/ PlayPop \/ PlayDrained \/ PlayRead \/ GameExit
    <3>1. gpc' # "publish_items" /\ UNCHANGED <<clockVars, herald, items_herald>>
      BY <2>6 DEF GameStart, ConnectTop, ConnectPop, PlayPop, PlayDrained, PlayRead, GameExit
    <3> QED
      BY <1>0, <2>1, <3>1 DEF clockVars, BroadcastClock
  <2> QED
    BY <1>3, <2>2, <2>3, <2>4, <2>5, <2>6 DEF GameNext
<1> QED
  BY <1>1, <1>2, <1>3 DEF Next

LEMMA TypeStep ==
  ASSUME IndInv, [Next]_vars
  PROVE  TypeOK'
<1> USE DEF TypeOK, registryVars, postVars, clockVars, worldVars
<1>0. TypeOK /\ players_num \in Nat \ {0} /\ 1 \in Slot
  BY GameAssumption DEF IndInv, Slot
<1>1. inventory' \in [Slot -> SUBSET Item] /\ items' \in SUBSET Item /\ items_num' \in Int
  BY ItemsStep
<1>2. CASE NetNext
  <2>1. CASE NetStart \/ NetFails \/ NetNotCreated
    BY <1>0, <2>1 DEF NetStart, NetFails, NetNotCreated, gameVars, history
  <2>7. CASE NetTop \/ NetReadNone \/ NetExit
    BY <1>0, <2>7 DEF NetTop, NetReadNone, NetExit, gameVars, history
  <2>6. CASE NetWait
    <3>1. room' \in 0 .. players_num /\ npc' \in {"top", "recv"} /\ (npc' = "recv" => room' > 0)
      BY <1>0, <2>6 DEF NetWait
    <3> QED
      BY <1>0, <2>6, <3>1 DEF NetWait, gameVars, history
  <2>2. CASE NetState \/ NetItems
    <3>1. last_sent' \in Nat /\ announced' \in BOOLEAN
      BY <1>0, <2>2 DEF NetState, NetItems, ServerPacket
    <3> QED
      BY <1>0, <2>2, <3>1 DEF NetState, NetItems, gameVars, history
  <2>3. ASSUME NextIteration
        PROVE  /\ room' \in 0 .. players_num /\ npc' \in {"top", "recv"}
               /\ npc' = "recv" => room' > 0
    BY <1>0, <2>3 DEF NextIteration
  <2>4. CASE NetForeign \/ \E d \in Datagram : NetRefuse(d)
    BY <1>0, <2>3, <2>4 DEF NetForeign, NetRefuse, Refuse, gameVars, history
  <2>5. ASSUME NEW d \in Datagram, NetReceive(d)
        PROVE  TypeOK'
    <3>1. /\ npc' \in {"top", "recv"} /\ room' \in 0 .. players_num
          /\ npc' = "recv" => room' > 0
          /\ UNCHANGED <<herald, items_herald, stop, gameVars, announced, last_sent>>
      BY <1>0, <2>3, <2>5 DEF NetReceive, Receive
    <3>2. d.seq_num \in SeqNum /\ (IsReliable(d) => d \in Reliable) /\ (~IsReliable(d) => d \in RegPacket)
      BY DatagramKinds
    <3>3. /\ registry' \in Seq(Player) /\ seqnums' \in [Slot -> SeqNum]
          /\ mail_drop' \in Seq(Reliable) /\ mailbox' \in [Slot -> RegPacket \union {None}]
      <4>1. CASE d.control = "INIT"
        <5>1. /\ registry' = Append(registry, d.player_id) /\ d.player_id \in Player
              /\ seqnums' = [seqnums EXCEPT ![Len(registry) + 1] = d.seq_num]
              /\ mail_drop' = Append(mail_drop, d) /\ d \in Reliable
              /\ mailbox' = mailbox
          BY <2>5, <4>1, AcceptedInit, DatagramKinds
        <5>2. seqnums' \in [Slot -> SeqNum]
          BY <1>0, <3>2, <5>1
        <5>3. registry' \in Seq(Player)
          BY <1>0, <5>1
        <5>4. mail_drop \in Seq(Reliable)
          BY <1>0
        <5>5. mail_drop' \in Seq(Reliable)
          BY <5>1, <5>4
        <5> QED
          BY <1>0, <5>1, <5>2, <5>3, <5>5
      <4>2. CASE d.control # "INIT"
        <5>1. /\ registry' = registry
              /\ \/ UNCHANGED <<seqnums, mail_drop, mailbox>>
                 \/ \E i \in 1 .. Len(registry) :
                      /\ seqnums' = [seqnums EXCEPT ![i] = d.seq_num]
                      /\ \/ IsReliable(d) /\ MailDropPush(d) /\ mailbox' = mailbox
                         \/ /\ ~IsReliable(d) /\ mail_drop' = mail_drop
                            /\ mailbox' = [mailbox EXCEPT ![i] = d]
          BY <2>5, <4>2, OtherDatagram
        <5>2. seqnums' \in [Slot -> SeqNum]
          BY <1>0, <3>2, <5>1
        <5>3. mail_drop' \in Seq(Reliable)
          <6>1. mail_drop \in Seq(Reliable)
            BY <1>0
          <6>2. mail_drop' = mail_drop \/ (d \in Reliable /\ mail_drop' = Append(mail_drop, d))
            BY <3>2, <5>1 DEF MailDropPush
          <6> HIDE DEF TypeOK
          <6> QED
            BY <6>1, <6>2
        <5>4. mailbox' \in [Slot -> RegPacket \union {None}]
          BY <1>0, <3>2, <5>1
        <5> QED
          BY <1>0, <5>1, <5>2, <5>3, <5>4
      <4> QED
        BY <4>1, <4>2
    <3> QED
      BY <1>0, <3>1, <3>3 DEF gameVars
  <2> QED
    BY <1>2, <2>1, <2>2, <2>4, <2>5, <2>6, <2>7 DEF NetNext
<1>3. CASE GameNext
  <2> USE DEF netVars, history
  <2>1. CASE GameStart \/ ConnectTop \/ PlayDrained \/ GameExit
    BY <1>0, <2>1 DEF GameStart, ConnectTop, PlayDrained, GameExit
  <2>2. CASE ConnectPop
    <3>1. players' \in Seq(Player) /\ mail_drop' \in Seq(Reliable)
      BY <1>0, <2>2 DEF ConnectPop
    <3> QED
      BY <1>0, <2>2, <3>1 DEF ConnectPop
  <2>3. CASE ConnectDecide
    <3>1. GAME_INIT_TICKS \in Nat /\ GAME_DURATION_TICKS \in Nat
      BY GameAssumption
    <3>2. /\ server_tick' \in Nat /\ start_tick' \in Nat /\ stop_tick' \in Nat
          /\ status' \in {status, "INIT"} /\ gpc' \in {"play", "exit", "connect"}
      BY <1>0, <2>3, <3>1 DEF ConnectDecide
    <3>3. UNCHANGED <<netVars, postVars, herald, items_herald, stop, slot, worldVars, history>>
      BY <2>3 DEF ConnectDecide
    <3> QED
      BY <1>0, <3>2, <3>3
  <2>4. CASE PlayTop
    BY <1>0, <2>4 DEF PlayTop
  <2>5. CASE PlayPop
    <3>1. mail_drop' \in Seq(Reliable)
      BY <1>0, <2>5 DEF PlayPop
    <3> QED
      BY <1>0, <1>1, <2>5, <3>1 DEF PlayPop
  <2>6. CASE PlayRead
    <3>1. mailbox' \in [Slot -> RegPacket \union {None}]
      BY <1>0, <2>6 DEF PlayRead
    <3>2. gpc' \in {"read", "publish"} /\ slot' \in Slot
      BY <1>0, <2>6 DEF PlayRead, Slot
    <3>3. pose' \in [Slot -> SeqNum]
      <4> DEFINE d == mailbox[slot]
                 s == IF d = None THEN 0 ELSE PlayerSlot(d.player_id)
      <4>1. pose' = IF s = 0 THEN pose ELSE [pose EXCEPT ![s] = d.seq_num]
        BY <2>6 DEF PlayRead
      <4>2. CASE s = 0
        BY <1>0, <4>1, <4>2
      <4>3. CASE s # 0
        <5>1. d \in RegPacket
          BY <1>0, <4>3
        <5> QED
          BY <1>0, <4>1, <4>3, <5>1 DEF RegPacket
      <4> QED
        BY <4>2, <4>3
    <3> QED
      BY <1>0, <2>6, <3>1, <3>2, <3>3 DEF PlayRead
  <2>7. CASE Publish
    <3>1. herald' \in ServerPacket
      BY <1>0, <2>7 DEF Publish, ListedItems, ServerPacket
    <3> QED
      BY <1>0, <2>7, <3>1 DEF Publish
  <2>8. CASE PublishItems
    <3>1. items_herald' \in ServerPacket
      BY <1>0, <2>8 DEF PublishItems, ListedItems, ServerPacket
    <3> QED
      BY <1>0, <2>8, <3>1 DEF PublishItems
  <2> QED
    BY <1>3, <2>1, <2>2, <2>3, <2>4, <2>5, <2>6, <2>7, <2>8 DEF GameNext
<1>4. CASE UNCHANGED vars
  BY <1>0, <1>4 DEF vars, netVars, gameVars, history
<1> QED
  BY <1>2, <1>3, <1>4 DEF Next, Exited

LEMMA InitInd == Init => IndInv
<1> SUFFICES ASSUME Init
             PROVE  IndInv
  OBVIOUS
<1> USE DEF Init
<1>0. /\ players_num \in Nat \ {0} /\ MAIL_DROP_SIZE \in Nat /\ ITEMS \in Nat
      /\ 0 \in SeqNum /\ 1 \in Slot /\ 0 \notin Slot
  BY GameAssumption DEF Slot
<1>1. TypeOK
  <2>1. /\ registry \in Seq(Player) /\ players \in Seq(Player) /\ mail_drop \in Seq(Reliable)
        /\ seqnums \in [Slot -> SeqNum] /\ pose \in [Slot -> SeqNum]
    BY <1>0
  <2>2. mailbox \in [Slot -> RegPacket \union {None}] /\ inventory \in [Slot -> SUBSET Item]
    OBVIOUS
  <2>3. /\ {server_tick, start_tick, stop_tick, last_sent} \subseteq Nat
        /\ items_num \in Int /\ room \in 0 .. players_num
    BY <1>0
  <2> QED
    BY <1>0, <2>1, <2>2, <2>3 DEF TypeOK
<1>2. RosterFollowsRegistry
  BY <1>0 DEF RosterFollowsRegistry, Unseated
<1>3. Seating
  BY <1>0 DEF Seating, AllConnected, Unseated, InGameLoop
<1>4. MailboxFollowsRoster
  BY DEF MailboxFollowsRoster
<1>5. ItemConservation
  <2>1. Cardinality(Item) = ITEMS
    <3>1. 0 \in Int /\ ITEMS - 1 \in Int
      BY <1>0
    <3>2. Cardinality(0 .. ITEMS - 1) = IF 0 > ITEMS - 1 THEN 0 ELSE ITEMS - 1 - 0 + 1
      BY <3>1, FS_Interval
    <3> QED
      BY <1>0, <3>2 DEF Item
  <2>2. UNION {inventory[i] : i \in Slot} = {}
    OBVIOUS
  <2> QED
    BY <2>1, <2>2 DEF ItemConservation
<1>6. MatchClock
  BY DEF MatchClock, InGameLoop
<1>7. PicksInDrop
  BY DEF PicksInDrop
<1>8. BroadcastClock
  BY DEF BroadcastClock
<1> QED
  BY <1>1, <1>2, <1>3, <1>4, <1>5, <1>6, <1>7, <1>8 DEF IndInv

-----------------------------------------------------------------------------
(* The inductive invariant: how the two threads' arrays, the mail drop and   *)
(* the phases of the match hang together.                                    *)
THEOREM Inductive == Spec => []IndInv
<1>1. IndInv /\ [Next]_vars => IndInv'
  BY TypeStep, RosterStep, SeatingStep, PicksStep, MailboxStep, ItemsStep, ClockStep,
     BroadcastStep DEF IndInv
<1> QED
  BY <1>1, InitInd, PTL DEF Spec

(* Every variable keeps its type, whatever arrives in whatever order.        *)
THEOREM TypeCorrect == Spec => []TypeOK
<1>1. IndInv => TypeOK
  BY DEF IndInv
<1> QED
  BY <1>1, Inductive, PTL

(* game->players, filled by the game thread without a bound check, never     *)
(* outgrows players_num and follows the net thread's registry slot by slot.  *)
THEOREM RosterSafe == Spec => []RosterFollowsRegistry
<1>1. IndInv => RosterFollowsRegistry
  BY DEF IndInv
<1> QED
  BY <1>1, Inductive, PTL

(* A mailbox never holds the input of a player of another slot.              *)
THEOREM MailboxSafe == Spec => []MailboxFollowsRoster
<1>1. IndInv => MailboxFollowsRoster
  BY DEF IndInv
<1> QED
  BY <1>1, Inductive, PTL

(* No item is duplicated or lost, however often a pick is repeated and       *)
(* however the picks of several players interleave.                          *)
THEOREM ItemsConserved == Spec => []ItemConservation
<1>1. IndInv => ItemConservation
  BY DEF IndInv
<1> QED
  BY <1>1, Inductive, PTL

(* Items change hands only between start_tick and stop_tick.                 *)
THEOREM PicksTimely == Spec => PicksInsideMatch
<1> DEFINE InTime == status = "STARTED" /\ start_tick <= server_tick /\ server_tick < stop_tick
<1>1. IndInv /\ [Next]_vars => [InTime]_inventory
  <2> SUFFICES ASSUME IndInv, [Next]_vars, inventory' # inventory
               PROVE  InTime
    OBVIOUS
  <2>1. PlayPop
    <3>1. ~(\E d \in Datagram : NetReceive(d))
      BY DEF NetReceive, Receive, gameVars, worldVars
    <3> QED
      BY <3>1, Frame DEF ConnectPop, PlayRead, worldVars
  <2> QED
    BY <2>1 DEF PlayPop, IndInv, MatchClock
<1> QED
  BY <1>1, Inductive, PTL DEF Spec, PicksInsideMatch

(* The ticks of the packets, in the order in which they are broadcast, fall   *)
(* back by one items period at most, however the threads interleave at the   *)
(* two heralds.  What the network makes of that order is not bounded here.   *)
THEOREM ClockFallsLittle == Spec => ClockFallsAtMostOnePeriod
<1>1. IndInv /\ [Next]_vars => [last_sent' >= last_sent - ITEMS_AUTH_RATE]_last_sent
  <2> SUFFICES ASSUME IndInv, [Next]_vars, last_sent' # last_sent
               PROVE  last_sent' >= last_sent - ITEMS_AUTH_RATE
    OBVIOUS
  <2>1. NetState \/ NetItems
    BY DEF vars, Exited, Next, history,
         NetNext, NetStart, NetFails, NetNotCreated, NetTop, NetWait,
         NetReadNone, NetForeign, NetRefuse, Refuse, NetReceive, Receive, NetExit,
         GameNext, GameStart, ConnectTop, ConnectPop, ConnectDecide, PlayTop, PlayPop,
         PlayDrained, PlayRead, Publish, PublishItems, GameExit
  <2>2. /\ BroadcastClock /\ {server_tick, last_sent} \subseteq Nat
        /\ ITEMS_AUTH_RATE \in Nat \ {0}
        /\ herald # None => herald.tick \in Nat
        /\ items_herald # None => items_herald.tick \in Nat
    BY GameAssumption DEF IndInv, TypeOK, ServerPacket
  <2> QED
    BY <2>1, <2>2 DEF NetState, NetItems, BroadcastClock
<1> QED
  BY <1>1, Inductive, PTL DEF Spec, ClockFallsAtMostOnePeriod

-----------------------------------------------------------------------------
(* The mail drop as a set of picks.                                          *)
LEMMA PicksInPush ==
  ASSUME mail_drop \in Seq(Reliable), NEW d \in Reliable
  PROVE  PicksIn(Append(mail_drop, d)) =
           PicksIn(mail_drop) \union (IF d.control = "PICK" THEN {PickOf(d)} ELSE {})
<1> DEFINE q == Append(mail_drop, d)
<1>1. /\ DOMAIN q = DOMAIN mail_drop \union {Len(mail_drop) + 1}
      /\ \A k \in DOMAIN mail_drop : q[k] = mail_drop[k]
      /\ q[Len(mail_drop) + 1] = d
  OBVIOUS
<1> HIDE DEF q
<1> QED
  BY <1>1 DEF PicksIn

LEMMA PicksInPop ==
  ASSUME mail_drop \in Seq(Reliable), mail_drop # <<>>
  PROVE  PicksIn(mail_drop) =
           PicksIn(Tail(mail_drop)) \union
             (IF Head(mail_drop).control = "PICK" THEN {PickOf(Head(mail_drop))} ELSE {})
<1> DEFINE q == Tail(mail_drop)
<1>1. /\ \A k \in DOMAIN q : k + 1 \in DOMAIN mail_drop /\ q[k] = mail_drop[k + 1]
      /\ \A k \in DOMAIN mail_drop : k = 1 \/ (k - 1 \in DOMAIN q /\ q[k - 1] = mail_drop[k])
      /\ 1 \in DOMAIN mail_drop /\ mail_drop[1] = Head(mail_drop)
  OBVIOUS
<1> HIDE DEF q
<1>2. ASSUME NEW pick \in PicksIn(q)
      PROVE  pick \in PicksIn(mail_drop)
  BY <1>1 DEF PicksIn
<1>3. ASSUME NEW pick \in PicksIn(mail_drop)
      PROVE  pick \in PicksIn(q) \/ (Head(mail_drop).control = "PICK" /\ pick = PickOf(Head(mail_drop)))
  <2>1. PICK k \in DOMAIN mail_drop : mail_drop[k].control = "PICK" /\ pick = PickOf(mail_drop[k])
    BY DEF PicksIn
  <2>2. CASE k = 1
    BY <1>1, <2>1, <2>2
  <2>3. CASE k # 1
    BY <1>1, <2>1, <2>3 DEF PicksIn
  <2> QED
    BY <2>2, <2>3
<1>4. Head(mail_drop).control = "PICK" => PickOf(Head(mail_drop)) \in PicksIn(mail_drop)
  BY <1>1 DEF PicksIn
<1> QED
  BY <1>2, <1>3, <1>4 DEF q

(* In the game loop game->players is the registry.                           *)
LEMMA RosterIsRegistry ==
  ASSUME IndInv, AllConnected
  PROVE  players = registry /\ Len(registry) = players_num
<1>1. /\ registry \in Seq(Player) /\ players \in Seq(Player)
      /\ Len(registry) <= players_num /\ Len(players) <= Len(registry)
      /\ \A i \in DOMAIN players : players[i] = registry[i]
  BY DEF IndInv, TypeOK, RosterFollowsRegistry, Unseated
<1>2. Len(players) = Len(registry)
  BY <1>1, GameAssumption DEF AllConnected
<1> QED
  BY <1>1, <1>2 DEF AllConnected

(* What the mapping looks at.                                                *)
Abstract == <<registry, Service!clock, Service!world, Closed>>

(* A datagram that is taken: an INIT takes the next slot, a pick is taken over *)
(* if the drop has room for it, and input changes nothing of this.           *)
LEMMA ServiceReceive ==
  ASSUME IndInv, NEW d \in Datagram, NetReceive(d)
  PROVE  /\ d.control = "INIT" => Service!Register(d.player_id) /\ d.player_id \in Player
         /\ d.control # "INIT" =>
              \/ UNCHANGED Abstract
              \/ /\ d.control = "PICK" /\ PickOf(d) \in Service!Pick
                 /\ Service!TakeOver(PickOf(d))
<1> USE DEF Abstract, Service!clock, Service!world
<1>0. registry \in Seq(Player) /\ mail_drop \in Seq(Reliable)
  BY DEF IndInv, TypeOK
<1>1. UNCHANGED <<server_tick, start_tick, stop_tick, status, inventory, items>>
  BY DEF NetReceive, Receive, gameVars, clockVars, worldVars
<1>2. ~Closed /\ Closed' = Closed
  <2>1. npc = "recv" /\ npc' \in {"top", "recv"}
    BY DEF NetReceive, Receive, NextIteration
  <2> QED
    BY <2>1 DEF Closed
<1>3. ASSUME d.control = "INIT"
      PROVE  Service!Register(d.player_id) /\ d.player_id \in Player
  <2>1. /\ registry' = Append(registry, d.player_id) /\ d.player_id \in Player
        /\ Len(registry) < players_num
        /\ mail_drop' = Append(mail_drop, d)
    BY <1>3, AcceptedInit
  <2>2. PicksIn(mail_drop') = PicksIn(mail_drop)
    BY <1>0, <1>3, <2>1, PicksInPush, DatagramKinds
  <2> QED
    BY <1>1, <1>2, <2>1, <2>2 DEF Service!Register
<1>4. ASSUME d.control # "INIT", ~UNCHANGED Abstract
      PROVE  /\ d.control = "PICK" /\ PickOf(d) \in Service!Pick
             /\ Service!TakeOver(PickOf(d))
  <2>1. registry' = registry
    BY <1>4, OtherDatagram
  <2>2. mail_drop' # mail_drop
    BY <1>1, <1>2, <1>4, <2>1
  <2>3. PICK i \in 1 .. Len(registry) :
          registry[i] = d.player_id /\ IsReliable(d) /\ MailDropPush(d)
    BY <1>4, <2>2, OtherDatagram DEF postVars
  <2>4. mail_drop' = Append(mail_drop, d)
    BY <2>2, <2>3 DEF MailDropPush
  <2>5. d.control = "PICK" /\ d \in PickPacket /\ d \in Reliable
    BY <1>4, <2>3, DatagramKinds DEF IsReliable
  <2>6. PicksIn(mail_drop') = PicksIn(mail_drop) \union {PickOf(d)}
    BY <1>0, <2>4, <2>5, PicksInPush
  <2>7. d.player_id \in Service!Registered /\ d.player_id \in Player
    BY <1>0, <2>3 DEF Service!Registered
  <2>8. PickOf(d) \in Service!Pick /\ PickOf(d).player_id = d.player_id
    BY <2>5, <2>7 DEF PickOf, PickPacket, Service!Pick, Service!Item, Item
  <2> QED
    BY <1>1, <1>2, <2>1, <2>5, <2>6, <2>7, <2>8 DEF Service!TakeOver
<1> QED
  BY <1>3, <1>4

(* Whatever else the net thread does is nothing to the service, or its end.  *)
LEMMA ServiceOtherNet ==
  ASSUME IndInv, NetNext, ~\E d \in Datagram : NetReceive(d)
  PROVE  UNCHANGED Abstract \/ Service!Close
<1> USE DEF Abstract, Service!clock, Service!world
<1>1. UNCHANGED <<server_tick, start_tick, stop_tick, status, inventory, items>>
  BY DEF NetNext, NetStart, NetFails, NetNotCreated, NetTop, NetState, NetItems,
       NetWait, NetReadNone, NetForeign, NetRefuse, Refuse, NetExit, gameVars, clockVars, worldVars
<1>2. UNCHANGED <<registry, mail_drop>>
  BY DEF NetNext, NetStart, NetFails, NetNotCreated, NetTop, NetState, NetItems,
       NetWait, NetReadNone, NetForeign, NetRefuse, Refuse, NetExit, registryVars, postVars
<1>3. Closed => Closed'
  BY DEF Closed, NetNext, NetStart, NetFails, NetNotCreated, NetTop, NetState, NetItems,
       NetWait, NetReadNone, NetForeign, NetRefuse, Refuse, NextIteration, NetExit
<1>4. CASE Closed' = Closed
  BY <1>1, <1>2, <1>4
<1>5. CASE ~Closed /\ Closed'
  <2>1. Closed' = TRUE
    BY <1>5 DEF Closed
  <2> QED
    BY <1>1, <1>2, <1>5, <2>1 DEF Service!Close
<1>6. Closed \in BOOLEAN /\ Closed' \in BOOLEAN
  BY DEF Closed
<1> QED
  BY <1>3, <1>4, <1>5, <1>6

(* What the game thread does besides publishing, as the service has it.      *)
GameThreadStep ==
  \/ Service!Wait \/ Service!Announce \/ Service!Start \/ Service!Finish
  \/ \E pick \in Service!Pick : Service!Decide(pick)

LEMMA ServiceGameStep ==
  ASSUME IndInv, GameNext, ~Publish, ~PublishItems
  PROVE  UNCHANGED Abstract \/ GameThreadStep
<1> USE DEF Abstract, Service!clock, Service!world
<1>0. /\ mail_drop \in Seq(Reliable) /\ MatchClock
      /\ {server_tick, start_tick, stop_tick} \subseteq Nat
  BY DEF IndInv, TypeOK
<1>1. registry' = registry /\ npc' = npc /\ Closed' = Closed
  BY DEF GameNext, GameStart, ConnectTop, ConnectPop, ConnectDecide, PlayTop, PlayPop, PlayDrained,
       PlayRead, Publish, PublishItems, GameExit, netVars, registryVars, Closed
<1>2. CASE GameStart \/ ConnectTop \/ PlayDrained \/ PlayRead \/ GameExit
  BY <1>1, <1>2 DEF GameStart, ConnectTop, PlayDrained, PlayRead, GameExit,
       postVars, clockVars, worldVars
<1>3. CASE ConnectPop
  <2>1. Head(mail_drop).control # "PICK"
    <3>1. ~announced /\ mail_drop # <<>>
      BY <1>3 DEF ConnectPop, IndInv, PicksInDrop
    <3>2. 1 \in DOMAIN mail_drop /\ Head(mail_drop) = mail_drop[1]
      BY <1>0, <3>1
    <3> QED
      BY <3>1, <3>2 DEF IndInv, PicksInDrop
  <2>2. PicksIn(mail_drop') = PicksIn(mail_drop)
    BY <1>0, <1>3, <2>1, PicksInPop DEF ConnectPop
  <2> QED
    BY <1>1, <1>3, <2>2 DEF ConnectPop, clockVars
<1>4. CASE ConnectDecide
  <2>0. status = "NOT_READY" /\ mail_drop' = mail_drop /\ inventory' = inventory /\ items' = items
    BY <1>0, <1>4 DEF ConnectDecide, MatchClock, postVars, worldVars
  <2>1. CASE AllConnected
    <3>1. Len(registry) = players_num
      BY <2>1, RosterIsRegistry
    <3>2. Service!Announce
      BY <1>1, <1>4, <2>0, <2>1, <3>1 DEF ConnectDecide, Service!Announce
    <3> QED
      BY <3>2 DEF GameThreadStep
  <2>2. CASE ~AllConnected /\ server_tick >= CONNECTION_DEADLINE_TICKS
    BY <1>0, <1>1, <1>4, <2>0, <2>2, GameAssumption DEF ConnectDecide, clockVars
  <2>3. CASE ~AllConnected /\ server_tick < CONNECTION_DEADLINE_TICKS
    <3>1. Service!Wait
      BY <1>0, <1>1, <1>4, <2>0, <2>3, GameAssumption DEF ConnectDecide, Service!Wait
    <3> QED
      BY <3>1 DEF GameThreadStep
  <2> QED
    BY <1>4, <2>1, <2>2, <2>3 DEF ConnectDecide
<1>5. CASE PlayTop
  <2>0. /\ status \in {"INIT", "STARTED"} /\ (status = "STARTED" => start_tick <= server_tick)
        /\ UNCHANGED <<server_tick, start_tick, stop_tick, mail_drop, inventory, items>>
    BY <1>0, <1>5 DEF PlayTop, MatchClock, InGameLoop, postVars, worldVars
  <2>1. CASE status' = status
    BY <1>1, <2>0, <2>1
  <2>2. CASE status' # status
    <3>1. ~stop /\ status' = IF Finished THEN "FINISHED" ELSE "STARTED"
      BY <1>5, <2>2 DEF PlayTop
    <3>2. CASE Finished
      <4>1. Service!Finish
        BY <1>0, <1>1, <2>0, <3>1, <3>2 DEF Finished, Started, Service!Finish
      <4> QED
        BY <4>1 DEF GameThreadStep
    <3>3. CASE ~Finished
      <4>1. Started
        BY <1>5, <2>2, <3>1, <3>3 DEF PlayTop
      <4>2. Service!Start
        BY <1>0, <1>1, <2>0, <2>2, <3>1, <3>3, <4>1 DEF Finished, Started, Service!Start
      <4> QED
        BY <4>2 DEF GameThreadStep
    <3> QED
      BY <3>2, <3>3
  <2> QED
    BY <2>1, <2>2
<1>6. CASE PlayPop
  <2> DEFINE d == Head(mail_drop)
  <2>1. /\ status = "STARTED" /\ start_tick <= server_tick /\ server_tick < stop_tick
        /\ mail_drop # <<>> /\ mail_drop' = Tail(mail_drop)
        /\ UNCHANGED <<server_tick, start_tick, stop_tick, status>>
    BY <1>0, <1>6 DEF PlayPop, MatchClock, clockVars
  <2>2. AllConnected
    BY <1>6 DEF PlayPop, IndInv, Seating, InGameLoop
  <2>3. CASE d.control # "PICK"
    <3>1. PicksIn(mail_drop') = PicksIn(mail_drop)
      BY <1>0, <2>1, <2>3, PicksInPop
    <3> QED
      BY <1>1, <1>6, <2>1, <2>3, <3>1 DEF PlayPop
  <2>4. CASE d.control = "PICK"
    <3>1. d = mail_drop[1] /\ 1 \in DOMAIN mail_drop /\ d \in Reliable
      BY <1>0, <2>1
    <3>2. \E i \in DOMAIN registry : registry[i] = d.player_id
      BY <2>4, <3>1 DEF IndInv, PicksInDrop
    <3>3. d \in PickPacket
      BY <2>4, <3>1 DEF Reliable, InitPacket
    <3>4. d.player_id \in Player
      <4>1. registry \in Seq(Player)
        BY DEF IndInv, TypeOK
      <4> QED
        BY <3>2, <4>1
    <3>5. PickOf(d) \in Service!Pick /\ PickOf(d).player_id = d.player_id /\ PickOf(d).item_id = d.item_id
      BY <3>3, <3>4 DEF PickOf, PickPacket, Service!Pick, Service!Item, Item
    <3>6. /\ PicksIn(mail_drop) = PicksIn(mail_drop') \union {PickOf(d)}
      BY <1>0, <2>1, <2>4, PicksInPop
    <3>7. /\ PickOf(d) \in PicksIn(mail_drop)
          /\ PicksIn(mail_drop)' \in {PicksIn(mail_drop), PicksIn(mail_drop) \ {PickOf(d)}}
      BY <3>6
    <3>8. PlayerSlot(d.player_id) = Service!SlotOf(d.player_id) /\ PlayerSlot(d.player_id) # 0
      <4> DEFINE found == {i \in DOMAIN registry : registry[i] = d.player_id}
      <4>1. players = registry /\ registry \in Seq(Player)
        BY <2>2, RosterIsRegistry DEF IndInv, TypeOK
      <4>2. found # {} /\ found \in SUBSET Nat /\ 0 \notin found
        BY <3>2, <4>1
      <4>3. PlayerSlot(d.player_id) = CHOOSE i \in found : \A j \in found : i <= j
        BY <4>1, <4>2 DEF PlayerSlot
      <4>4. Service!SlotOf(d.player_id) = CHOOSE i \in found : \A j \in found : i <= j
        BY DEF Service!SlotOf
      <4>5. (CHOOSE i \in found : \A j \in found : i <= j) \in found
        <5> HIDE DEF found
        <5>1. \E i \in found : \A j \in found : i <= j
          BY <4>2, LeastOf
        <5> QED
          BY <5>1
      <4> QED
        BY <4>2, <4>3, <4>4, <4>5
    <3>9. PickUp(d)
      BY <1>6, <2>4 DEF PlayPop
    <3>10. Service!Grant(PickOf(d))
      BY <3>5, <3>8, <3>9 DEF PickUp, Service!Grant
    <3>11. Service!Decide(PickOf(d))
      BY <1>1, <2>1, <3>7, <3>10 DEF Service!Decide
    <3> QED
      BY <3>5, <3>11 DEF GameThreadStep
  <2> QED
    BY <2>3, <2>4
<1> QED
  BY <1>2, <1>3, <1>4, <1>5, <1>6 DEF GameNext

(* A tick is over when its last packet is formed.                            *)
LEMMA ServicePublish ==
  ASSUME IndInv, Publish \/ PublishItems
  PROVE  IF Publish /\ ItemsDue THEN UNCHANGED Abstract ELSE Service!Tick
<1> USE DEF Abstract, Service!clock, Service!world
<1>1. registry' = registry /\ npc' = npc /\ Closed' = Closed
  BY DEF Publish, PublishItems, netVars, registryVars, Closed
<1>2. /\ \/ status = "INIT" /\ server_tick < start_tick
         \/ status = "STARTED" /\ server_tick < stop_tick
      /\ UNCHANGED <<start_tick, stop_tick, status, mail_drop, inventory, items>>
  BY DEF IndInv, Publish, PublishItems, MatchClock, postVars, worldVars
<1>3. CASE Publish /\ ItemsDue
  BY <1>1, <1>2, <1>3 DEF Publish
<1>4. CASE ~(Publish /\ ItemsDue)
  <2>1. server_tick' = server_tick + 1
    BY <1>4 DEF Publish, PublishItems
  <2> QED
    BY <1>1, <1>2, <1>4, <2>1 DEF Service!Tick
<1> QED
  BY <1>3, <1>4

(* The process, with its two threads, mail drop and stop flags, implements   *)
(* the service GameSession relies on: for every number of players, items,    *)
(* ticks and datagrams, picks are granted one at a time, to the first slot   *)
(* of a registered player, and only while the match runs.                    *)
THEOREM ServiceImplemented == Spec => ImplementsService
<1>1. Init => Service!Init
  BY DEF Init, Service!Init, Slot, Service!Slot, Item, Service!Item, PicksIn, Closed
<1>2. IndInv /\ [Next]_vars => [Service!Next]_Service!service
  <2> SUFFICES ASSUME IndInv, [Next]_vars
               PROVE  [Service!Next]_Abstract
    BY DEF Abstract, Service!service
  <2>1. CASE UNCHANGED vars \/ Exited
    BY <2>1 DEF Exited, vars, netVars, registryVars, postVars, gameVars, clockVars, worldVars,
         Abstract, Service!clock, Service!world, Closed
  <2>2. CASE NetNext
    BY <2>2, ServiceReceive, ServiceOtherNet DEF Service!Next
  <2>3. CASE GameNext
    BY <2>3, ServiceGameStep, ServicePublish DEF GameThreadStep, Service!Next
  <2> QED
    BY <2>1, <2>2, <2>3 DEF Next
<1> QED
  BY <1>1, <1>2, Inductive, PTL DEF Spec, ImplementsService, Service!Spec

=============================================================================
