---------------------------- MODULE Lobby_proofs ----------------------------
(***************************************************************************)
(* The inductive invariant of Lobby and what follows from it, for any      *)
(* number of descriptors, connections, players to a match and places in    *)
(* the queues.                                                             *)
(*                                                                         *)
(* Three frame lemmas say which actions touch the connections, the         *)
(* orchestrator's queues and the matchmaker; then there is one lemma per   *)
(* part of the invariant, with a step per action that can disturb it.      *)
(***************************************************************************)
EXTENDS Lobby, TLAPS

-----------------------------------------------------------------------------
(* Sequences                                                                *)

(* What is left of a queue after its head has been taken.                   *)
LEMMA TailOf ==
  ASSUME NEW S, NEW s \in Seq(S), s # <<>>
  PROVE  /\ Head(s) = s[1] /\ 1 \in DOMAIN s /\ Head(s) \in S
         /\ Tail(s) \in Seq(S) /\ Len(Tail(s)) = Len(s) - 1 /\ Len(s) > 0
         /\ \A i \in DOMAIN Tail(s) : i + 1 \in DOMAIN s /\ Tail(s)[i] = s[i + 1]
         /\ \A i \in DOMAIN s : i # 1 => i - 1 \in DOMAIN Tail(s) /\ Tail(s)[i - 1] = s[i]
OBVIOUS

(* A queue with one element more at its end.                                *)
LEMMA AppendOf ==
  ASSUME NEW S, NEW s \in Seq(S), NEW e \in S
  PROVE  /\ Append(s, e) \in Seq(S) /\ Len(Append(s, e)) = Len(s) + 1
         /\ Append(s, e) # <<>>
         /\ Len(s) + 1 \in DOMAIN Append(s, e) /\ Append(s, e)[Len(s) + 1] = e
         /\ \A i \in DOMAIN s : i \in DOMAIN Append(s, e) /\ Append(s, e)[i] = s[i]
         /\ \A i \in DOMAIN Append(s, e) :
              \/ i \in DOMAIN s /\ Append(s, e)[i] = s[i]
              \/ i = Len(s) + 1 /\ Append(s, e)[i] = e
OBVIOUS

(* A part of a sequence.                                                    *)
LEMMA PartOf ==
  ASSUME NEW S, NEW s \in Seq(S), NEW n \in Nat
  PROVE  /\ n <= Len(s) => SubSeq(s, 1, n) \in Seq(S)
         /\ SubSeq(s, n + 1, Len(s)) \in Seq(S)
<1>1. \A m, k \in Nat : m >= 1 /\ k <= Len(s) => SubSeq(s, m, k) \in Seq(S)
  OBVIOUS
<1> QED
  BY <1>1

Holds(s, e) == \E i \in DOMAIN s : s[i] = e

(* Taking the head of a queue takes no other element out of it.             *)
LEMMA TailHolds ==
  ASSUME NEW S, NEW s \in Seq(S), s # <<>>, NEW e, e # Head(s), Holds(s, e)
  PROVE  Holds(Tail(s), e)
<1>1. PICK i \in DOMAIN s : s[i] = e
  BY DEF Holds
<1>2. i # 1
  BY <1>1, TailOf
<1> QED
  BY <1>1, <1>2, TailOf DEF Holds

(* An element put at the end of a queue takes no other out of it.          *)
LEMMA AppendHolds ==
  ASSUME NEW S, NEW s \in Seq(S), NEW d \in S
  PROVE  Holds(Append(s, d), d) /\ \A e : Holds(s, e) => Holds(Append(s, d), e)
BY AppendOf DEF Holds

-----------------------------------------------------------------------------
(* Frames                                                                   *)

(* The end of the process is no step of its threads.                        *)
LEMMA StepOfProcess == [Process]_<<vars, running>> => [Next]_vars
BY DEF Process, While, Killed, Dead

(* Who touches the connections.                                             *)
LEMMA ConnectionFrame ==
  ASSUME [Next]_vars
  PROVE  \/ \E c \in Conn : Connect(c) \/ HangUp(c)
         \/ accept_connections
         \/ \E f \in Fd : disconnect_handler(f)
         \/ UNCHANGED <<peer, conns>>
<1> USE DEF conns, clients, streams, outside, orchestrator
<1>1. CASE Client
  BY <1>1 DEF Client, start_search, stop_search, handle_tcp_response
<1>2. CASE Orchestrator
  BY <1>2 DEF Orchestrator, epoll_wait, process_broker, process_usr_request, NothingToSend,
       read_incoming_data, ReadFails, SendAll, SendPart, SendFails
<1>3. CASE Matchmaker \/ PortReturned
  BY <1>3 DEF Matchmaker, NextRound, process_broker_msg, TakesMessage, form_match, PopPlayer,
       Notify, PortReturned
<1>4. CASE UNCHANGED vars
  BY <1>4 DEF vars
<1> QED
  BY <1>1, <1>2, <1>3, <1>4 DEF Next

(* Who touches the matchmaker's own state.                                  *)
LEMMA MatchmakerFrame ==
  ASSUME [Next]_vars
  PROVE  \/ NextRound \/ process_broker_msg \/ form_match \/ PopPlayer \/ Notify
         \/ PortReturned
         \/ UNCHANGED <<forming, pq>>
<1>1. CASE Client
  BY <1>1 DEF Client, Connect, HangUp, start_search, stop_search, handle_tcp_response
<1>2. CASE Orchestrator
  BY <1>2 DEF Orchestrator, epoll_wait, accept_connections, process_broker,
       process_usr_request, NothingToSend, read_incoming_data, ReadFails,
       disconnect_handler, SendAll, SendPart, SendFails
<1>3. CASE Matchmaker \/ PortReturned
  BY <1>3 DEF Matchmaker
<1>4. CASE UNCHANGED vars
  BY <1>4 DEF vars
<1> QED
  BY <1>1, <1>2, <1>3, <1>4 DEF Next

(* Who touches the orchestrator's buffers and queues.                       *)
LEMMA OrchestratorFrame ==
  ASSUME [Next]_vars
  PROVE  \/ accept_connections \/ process_broker \/ process_usr_request \/ NothingToSend
         \/ \E f \in Fd : \/ read_incoming_data(f) \/ disconnect_handler(f)
                          \/ SendAll(f) \/ SendPart(f) \/ SendFails(f)
         \/ UNCHANGED <<owner, buffers, recvs, sends, history>>
<1> USE DEF outside, orchestrator, conns
<1>1. CASE Client
  BY <1>1 DEF Client, Connect, HangUp, start_search, stop_search, handle_tcp_response
<1>2. CASE Orchestrator
  BY <1>2 DEF Orchestrator, epoll_wait, ReadFails
<1>3. CASE Matchmaker \/ PortReturned
  BY <1>3 DEF Matchmaker, NextRound, process_broker_msg, TakesMessage, form_match, PopPlayer,
       Notify, PortReturned
<1>4. CASE UNCHANGED vars
  BY <1>4 DEF vars
<1> QED
  BY <1>1, <1>2, <1>3, <1>4 DEF Next

(* Who touches the broker.                                                  *)
LEMMA BrokerFrame ==
  ASSUME [Next]_vars
  PROVE  \/ process_broker \/ process_usr_request \/ process_broker_msg \/ Notify
         \/ UNCHANGED broker
<1>1. CASE Client
  BY <1>1 DEF Client, Connect, HangUp, start_search, stop_search, handle_tcp_response
<1>2. CASE Orchestrator
  BY <1>2 DEF Orchestrator, epoll_wait, accept_connections, NothingToSend,
       read_incoming_data, ReadFails, disconnect_handler, SendAll, SendPart, SendFails
<1>3. CASE Matchmaker \/ PortReturned
  BY <1>3 DEF Matchmaker, NextRound, form_match, PopPlayer, PortReturned
<1>4. CASE UNCHANGED vars
  BY <1>4 DEF vars
<1> QED
  BY <1>1, <1>2, <1>3, <1>4 DEF Next

-----------------------------------------------------------------------------
(* Connections                                                              *)

(* A new connection joins the backlog once; the one at its head leaves it   *)
(* for its descriptor.                                                      *)
LEMMA BacklogStep ==
  ASSUME IndInv, [Next]_vars
  PROVE  BacklogIsNew'
<1> USE DEF BacklogIsNew
<1>0. /\ BacklogIsNew /\ backlog \in Seq(Conn)
      /\ peer \in [Conn -> {"none", "up", "down"}] /\ fdOf \in [Conn -> Fd \union {None}]
  BY DEF IndInv, TypeOK
<1>1. ASSUME NEW c \in Conn, Connect(c)
      PROVE  BacklogIsNew'
  <2>1. /\ peer[c] = "none" /\ peer' = [peer EXCEPT ![c] = "up"]
        /\ backlog' = Append(backlog, c) /\ fdOf' = fdOf
    BY <1>1 DEF Connect
  <2>2. \A i \in DOMAIN backlog : backlog[i] # c /\ backlog[i] \in Conn
    BY <1>0, <2>1
  <2>3. \A i \in DOMAIN backlog' :
          \/ i \in DOMAIN backlog /\ backlog'[i] = backlog[i]
          \/ i = Len(backlog) + 1 /\ backlog'[i] = c
    BY <1>0, <2>1, AppendOf
  <2> QED
    BY <1>0, <2>1, <2>2, <2>3
<1>2. ASSUME NEW c \in Conn, HangUp(c)
      PROVE  BacklogIsNew'
  BY <1>0, <1>2 DEF HangUp, conns
<1>3. CASE accept_connections
  <2>1. backlog # <<>> /\ backlog' = Tail(backlog) /\ peer' = peer
    BY <1>3 DEF accept_connections, clients
  <2>2. PICK f \in Fd : fdOf' = [fdOf EXCEPT ![Head(backlog)] = f]
    BY <1>3 DEF accept_connections, AcceptOn
  <2>3. /\ Head(backlog) = backlog[1] /\ 1 \in DOMAIN backlog /\ Head(backlog) \in Conn
        /\ \A i \in DOMAIN backlog' : i + 1 \in DOMAIN backlog /\ backlog'[i] = backlog[i + 1]
    BY <1>0, <2>1, TailOf
  <2>4. \A i, j \in DOMAIN backlog' : i + 1 = j + 1 => i = j
    BY <1>0, <2>1, TailOf
  <2>5. \A i \in DOMAIN backlog' : i + 1 # 1 /\ backlog'[i] \in Conn
    BY <1>0, <2>1, <2>3, TailOf
  <2>6. \A i \in DOMAIN backlog' : backlog'[i] # Head(backlog)
    BY <1>0, <2>3, <2>5
  <2>7. \A i \in DOMAIN backlog' : fdOf'[backlog'[i]] = None /\ peer'[backlog'[i]] # "none"
    BY <1>0, <2>1, <2>2, <2>3, <2>5, <2>6
  <2>8. \A c \in Conn : peer'[c] = "none" => fdOf'[c] = None
    BY <1>0, <2>1, <2>2, <2>3
  <2> QED
    BY <1>0, <2>3, <2>4, <2>7, <2>8
<1>4. ASSUME NEW f \in Fd, disconnect_handler(f)
      PROVE  BacklogIsNew'
  BY <1>0, <1>4 DEF disconnect_handler, clients
<1>5. CASE UNCHANGED <<peer, conns>>
  BY <1>0, <1>5 DEF conns
<1> QED
  BY <1>1, <1>2, <1>3, <1>4, <1>5, ConnectionFrame

(* A descriptor is given out when it has no owner, so that whoever had it   *)
(* before has hung up; and it is closed only after that.                    *)
LEMMA OthersStep ==
  ASSUME IndInv, [Next]_vars
  PROVE  OthersAreDown'
<1> USE DEF OthersAreDown, Owned
<1>0. /\ OthersAreDown /\ BacklogIsNew /\ EventsAreDue /\ backlog \in Seq(Conn)
      /\ peer \in [Conn -> {"none", "up", "down"}] /\ fdOf \in [Conn -> Fd \union {None}]
      /\ owner \in [Fd -> Conn \union {None}] /\ None \notin Conn /\ None \notin Fd
  BY LobbyAssumption DEF IndInv, TypeOK
<1>1. ASSUME NEW c \in Conn, Connect(c)
      PROVE  OthersAreDown'
  BY <1>0, <1>1 DEF Connect, BacklogIsNew
<1>2. ASSUME NEW c \in Conn, HangUp(c)
      PROVE  OthersAreDown'
  BY <1>0, <1>2 DEF HangUp, conns
<1>3. CASE accept_connections
  <2> DEFINE b == Head(backlog)
  <2>1. backlog # <<>> /\ peer' = peer
    BY <1>3 DEF accept_connections, clients
  <2>2. b \in Conn /\ fdOf[b] = None
    BY <1>0, <2>1, TailOf DEF BacklogIsNew
  <2>3. PICK f \in Fd : /\ owner[f] = None /\ owner' = [owner EXCEPT ![f] = b]
                        /\ fdOf' = [fdOf EXCEPT ![b] = f]
    BY <1>3 DEF accept_connections, AcceptOn
  <2> HIDE DEF b
  <2>4. ASSUME NEW g \in Fd, owner'[g] # None
        PROVE  fdOf'[owner'[g]] = g
    <3>1. CASE g = f
      BY <1>0, <2>2, <2>3, <3>1
    <3>2. CASE g # f
      <4>1. owner'[g] = owner[g] /\ owner[g] \in Conn /\ fdOf[owner[g]] = g
        BY <1>0, <2>3, <2>4, <3>2
      <4>2. owner[g] # b
        BY <1>0, <2>2, <4>1
      <4> QED
        BY <1>0, <2>3, <4>1, <4>2
    <3> QED
      BY <3>1, <3>2
  <2>5. ASSUME NEW d \in Conn, fdOf'[d] # None
        PROVE  owner'[fdOf'[d]] = d \/ peer'[d] = "down"
    BY <1>0, <2>1, <2>2, <2>3, <2>5
  <2> QED
    BY <2>4, <2>5
<1>4. ASSUME NEW f \in Fd, disconnect_handler(f)
      PROVE  OthersAreDown'
  <2>1. /\ owner' = [owner EXCEPT ![f] = None] /\ fdOf' = fdOf /\ peer' = peer
        /\ <<"hup", f>> \in batch
    BY <1>4 DEF disconnect_handler, clients, Takes
  <2>2. owner[f] # None /\ peer[owner[f]] = "down"
    BY <1>0, <2>1 DEF EventsAreDue
  <2> QED
    BY <1>0, <2>1, <2>2
<1>5. CASE UNCHANGED <<peer, conns>>
  BY <1>0, <1>5 DEF conns
<1> QED
  BY <1>1, <1>2, <1>3, <1>4, <1>5, ConnectionFrame

(* Only an owned descriptor is read, written or given a result.             *)
LEMMA FreeStep ==
  ASSUME IndInv, [Next]_vars
  PROVE  FreeIsClean'
<1> USE DEF FreeIsClean
<1>0. /\ FreeIsClean /\ EventsAreDue
      /\ owner \in [Fd -> Conn \union {None}] /\ reading \in SUBSET Fd
      /\ input \in [Fd -> Seq(0..4)] /\ output \in [Fd -> Result \union {None}]
      /\ None \notin Conn /\ recv_queue \in Seq(Fd)
  BY LobbyAssumption DEF IndInv, TypeOK
<1>1. CASE accept_connections
  <2>1. PICK f \in Fd : reading' = reading \union {f} /\ owner' = [owner EXCEPT ![f] = Head(backlog)]
    BY <1>1 DEF accept_connections, AcceptOn
  <2>2. backlog # <<>> /\ backlog \in Seq(Conn) /\ input' = input /\ output' = output
    BY <1>1 DEF accept_connections, IndInv, TypeOK
  <2>3. Head(backlog) \in Conn
    BY <2>2, TailOf
  <2> QED
    BY <1>0, <2>1, <2>2, <2>3
<1>2. CASE process_broker
  BY <1>0, <1>2 DEF process_broker, OutputFree, conns
<1>3. CASE process_usr_request
  <2>1. owner' = owner /\ output' = output
    BY <1>3 DEF process_usr_request, conns
  <2>2. CASE recv_queue = <<>> \/ owner[Head(recv_queue)] = None
    BY <1>0, <1>3, <2>1, <2>2 DEF process_usr_request
  <2>3. CASE ~(recv_queue = <<>> \/ owner[Head(recv_queue)] = None)
    <3>1. Head(recv_queue) \in Fd /\ owner[Head(recv_queue)] # None
      BY <1>0, <2>3, TailOf
    <3>2. /\ input' = [input EXCEPT ![Head(recv_queue)] = <<>>]
          /\ reading' = reading \/ reading' = reading \union {Head(recv_queue)}
      BY <1>3, <2>3 DEF process_usr_request
    <3> QED
      BY <1>0, <2>1, <3>1, <3>2
  <2> QED
    BY <2>2, <2>3
<1>4. ASSUME NEW f \in Fd, read_incoming_data(f)
      PROVE  FreeIsClean'
  <2>1. owner[f] # None
    BY <1>0, <1>4 DEF read_incoming_data, Takes, EventsAreDue
  <2>2. owner' = owner /\ output' = output
    BY <1>4 DEF read_incoming_data, conns
  <2>3. /\ \E buffered : input' = [input EXCEPT ![f] = buffered]
        /\ reading' = reading \/ reading' = reading \ {f}
    BY <1>4 DEF read_incoming_data
  <2> QED
    BY <1>0, <2>1, <2>2, <2>3
<1>5. ASSUME NEW f \in Fd, disconnect_handler(f)
      PROVE  FreeIsClean'
  BY <1>0, <1>5 DEF disconnect_handler
<1>6. ASSUME NEW f \in Fd, SendAll(f)
      PROVE  FreeIsClean'
  BY <1>0, <1>6 DEF SendAll, conns
<1>7. ASSUME NEW f \in Fd, SendPart(f) \/ SendFails(f) \/ NothingToSend
      PROVE  FreeIsClean'
  BY <1>0, <1>7 DEF SendPart, SendFails, NothingToSend, conns, buffers
<1>8. CASE UNCHANGED <<owner, buffers, recvs, sends, history>>
  BY <1>0, <1>8 DEF buffers
<1>9. Fd # {}
  BY LobbyAssumption
<1> QED
  BY <1>1, <1>2, <1>3, <1>4, <1>5, <1>6, <1>7, <1>8, <1>9, OrchestratorFrame

-----------------------------------------------------------------------------
(* Events and signals                                                       *)

(* Clients and matchmaker leave the batch and what it names alone.          *)
LEMMA OthersKeepBatch ==
  ASSUME IndInv, Client \/ Matchmaker \/ PortReturned \/ UNCHANGED vars
  PROVE  /\ UNCHANGED <<batch, recvs, sends, reading, owner>>
         /\ orch_eventfd > 0 => orch_eventfd' > 0
         /\ \A c \in Conn : peer[c] = "down" => peer'[c] = "down"
<1> USE DEF outside, orchestrator, conns, buffers, clients, broker
<1>0. orch_eventfd \in Nat /\ peer \in [Conn -> {"none", "up", "down"}]
  BY DEF IndInv, TypeOK
<1>1. CASE Client
  BY <1>0, <1>1 DEF Client, Connect, start_search, stop_search, handle_tcp_response, HangUp
<1>2. CASE Matchmaker \/ PortReturned
  <2>1. UNCHANGED <<batch, recvs, sends, reading, owner, peer>>
    BY <1>2 DEF Matchmaker, NextRound, process_broker_msg, TakesMessage, form_match,
         PopPlayer, Notify, PortReturned
  <2>2. orch_eventfd' = orch_eventfd \/ orch_eventfd' = orch_eventfd + 1
    BY <1>2 DEF Matchmaker, NextRound, process_broker_msg, form_match, PopPlayer, Notify,
         PortReturned, PushResult, ProcessRequest, ProcessCancel, ProcessUnknown
  <2> QED
    BY <1>0, <2>1, <2>2
<1>3. CASE UNCHANGED vars
  BY <1>3 DEF vars
<1> QED
  BY <1>1, <1>2, <1>3

(* The counter that an event announced is above zero until the event has    *)
(* been handled, and a connection that hung up is closed by its own event.  *)
LEMMA EventsStep ==
  ASSUME IndInv, [Next]_vars
  PROVE  EventsAreDue'
<1> USE DEF EventsAreDue, Takes
<1>0. /\ EventsAreDue /\ FreeIsClean /\ OthersAreDown
      /\ peer \in [Conn -> {"none", "up", "down"}] /\ owner \in [Fd -> Conn \union {None}]
      /\ recv_eventfd \in Nat /\ send_eventfd \in Nat /\ orch_eventfd \in Nat
      /\ reading \in SUBSET Fd /\ None \notin Conn /\ None \notin Fd
      /\ recv_queue \in Seq(Fd) /\ backlog \in Seq(Conn)
  BY LobbyAssumption DEF IndInv, TypeOK
<1>1. CASE Client \/ Matchmaker \/ PortReturned \/ UNCHANGED vars
  <2>1. /\ batch' = batch /\ recv_eventfd' = recv_eventfd /\ send_eventfd' = send_eventfd
        /\ reading' = reading /\ owner' = owner
        /\ orch_eventfd > 0 => orch_eventfd' > 0
        /\ \A c \in Conn : peer[c] = "down" => peer'[c] = "down"
    BY <1>1, OthersKeepBatch DEF recvs, sends
  <2> QED
    BY <1>0, <2>1
<1>2. CASE epoll_wait
  <2>1. /\ batch' = ReadyEvents /\ UNCHANGED <<peer, owner, reading, orch_eventfd,
                                            send_eventfd, recv_eventfd>>
    BY <1>2 DEF epoll_wait, clients, conns, buffers, recvs, sends, broker
  <2>2. \A f \in Fd : /\ <<"in", f>> \in ReadyEvents =>
                           f \in reading /\ ~(owner[f] # None /\ peer[owner[f]] = "down")
                      /\ <<"hup", f>> \in ReadyEvents =>
                           owner[f] # None /\ peer[owner[f]] = "down"
    <3>1. ASSUME NEW f \in Fd, <<"in", f>> \in ReadyEvents
          PROVE  f \in reading /\ ~(owner[f] # None /\ peer[owner[f]] = "down")
      BY <3>1 DEF ReadyEvents, Owned
    <3>2. ASSUME NEW f \in Fd, <<"hup", f>> \in ReadyEvents
          PROVE  owner[f] # None /\ peer[owner[f]] = "down"
      BY <3>2 DEF ReadyEvents, Owned
    <3> QED
      BY <3>1, <3>2
  <2>3. /\ <<"orch", None>> \in ReadyEvents => orch_eventfd > 0
        /\ <<"send", None>> \in ReadyEvents => send_eventfd > 0
        /\ <<"recv", None>> \in ReadyEvents => recv_eventfd > 0
    BY <1>0 DEF ReadyEvents
  <2> QED
    BY <1>0, <2>1, <2>2, <2>3
<1>3. CASE accept_connections
  <2>1. UNCHANGED <<peer, orch_eventfd, send_eventfd, recv_eventfd>>
    BY <1>3 DEF accept_connections, clients, recvs, sends, broker
  <2>2. PICK f \in Fd : /\ owner[f] = None /\ owner' = [owner EXCEPT ![f] = Head(backlog)]
                        /\ reading' = reading \union {f}
    BY <1>3 DEF accept_connections, AcceptOn, Owned
  <2>3. \A e \in batch' : e \in batch \/ e = <<"accepting", None>>
    BY <1>3 DEF accept_connections
  <2>4. <<"hup", f>> \notin batch
    BY <1>0, <2>2
  <2>5. \A g \in Fd : /\ <<"in", g>> \in batch' => <<"in", g>> \in batch
                      /\ <<"hup", g>> \in batch' => <<"hup", g>> \in batch
    BY <2>3
  <2>6. \A s \in {"orch", "send", "recv"} : <<s, None>> \in batch' => <<s, None>> \in batch
    BY <2>3
  <2>7. \A g \in Fd : /\ <<"in", g>> \in batch' => g \in reading'
                      /\ <<"hup", g>> \in batch' =>
                           owner'[g] # None /\ peer'[owner'[g]] = "down" /\ <<"in", g>> \notin batch'
    BY <1>0, <2>1, <2>2, <2>4, <2>5
  <2> QED
    BY <1>0, <2>1, <2>6, <2>7
<1>4. CASE process_broker
  BY <1>0, <1>4 DEF process_broker, PushSend, OutputFree, clients, conns, recvs, sends
<1>5. CASE process_usr_request
  <2>1. /\ batch' = batch \ {<<"recv", None>>}
        /\ UNCHANGED <<peer, owner, orch_eventfd, send_eventfd>>
    BY <1>5 DEF process_usr_request, clients, conns, sends
  <2>2. \A f \in Fd : f \in reading => f \in reading'
    BY <1>5 DEF process_usr_request
  <2> QED
    BY <1>0, <2>1, <2>2
<1>6. ASSUME NEW f \in Fd, SendAll(f) \/ SendPart(f) \/ SendFails(f) \/ NothingToSend
      PROVE  EventsAreDue'
  <2>1. /\ batch' = batch \ {<<"send", None>>}
        /\ UNCHANGED <<peer, owner, orch_eventfd, recv_eventfd, reading>>
    BY <1>6 DEF SendAll, SendPart, SendFails, NothingToSend, Sends, clients, conns, recvs,
         buffers, broker
  <2> QED
    BY <1>0, <2>1
<1>7. ASSUME NEW f \in Fd, read_incoming_data(f)
      PROVE  EventsAreDue'
  <2>1. /\ batch' = batch \ {<<"in", f>>}
        /\ UNCHANGED <<peer, owner, orch_eventfd, send_eventfd>>
    BY <1>7 DEF read_incoming_data, clients, conns, sends, broker
  <2>2. recv_eventfd' = recv_eventfd \/ recv_eventfd' = recv_eventfd + 1
    BY <1>7 DEF read_incoming_data, PushRecv, recvs
  <2>3. reading' = reading \/ reading' = reading \ {f}
    BY <1>7 DEF read_incoming_data
  <2> QED
    BY <1>0, <2>1, <2>2, <2>3
<1>8. ASSUME NEW f \in Fd, ReadFails(f)
      PROVE  EventsAreDue'
  BY <1>0, <1>8 DEF ReadFails, clients, conns, recvs, sends, buffers, broker
<1>9. ASSUME NEW f \in Fd, disconnect_handler(f)
      PROVE  EventsAreDue'
  <2>1. /\ batch' = batch \ {<<"hup", f>>} /\ <<"hup", f>> \in batch
        /\ owner' = [owner EXCEPT ![f] = None] /\ reading' = reading \ {f}
        /\ UNCHANGED <<peer, orch_eventfd, send_eventfd, recv_eventfd>>
    BY <1>9 DEF disconnect_handler, clients, recvs, sends, broker
  <2> QED
    BY <1>0, <2>1
<1>10. Fd # {}
  BY LobbyAssumption
<1> QED
  BY <1>1, <1>2, <1>3, <1>4, <1>5, <1>6, <1>7, <1>8, <1>9, <1>10 DEF Next, Orchestrator

(* The matchmaker's own: what each place of it holds.                       *)
LEMMA PlaceStep ==
  ASSUME IndInv, [Next]_vars
  PROVE  MatchmakerPlace'
<1> USE DEF MatchmakerPlace
<1>0. /\ MatchmakerPlace /\ matchmaker_eventfd \in Nat /\ form_match_eventfd \in Nat
      /\ match \in Seq(Player) /\ found \in BOOLEAN /\ ports \in 0..PORTS_LIMIT
      /\ PLAYERS_PER_MATCH \in Nat \ {0} /\ PORTS_LIMIT \in Nat
      /\ mpc \in {"handle", "form", "notify"} /\ players \in SUBSET Player
  BY LobbyAssumption DEF IndInv, TypeOK, QueueTypeOK
<1>1. CASE NextRound
  <2>1. UNCHANGED <<mpc, match, found, ports, matchmaker_eventfd>> /\ mpc = "handle"
    BY <1>1 DEF NextRound, broker
  <2>2. /\ "msg" \in mbatch' => matchmaker_eventfd > 0
        /\ form_match_eventfd' = IF "form" \in mbatch' THEN 1 ELSE 0
    BY <1>0, <1>1 DEF NextRound
  <2> QED
    BY <1>0, <2>1, <2>2
<1>2. CASE process_broker_msg
  BY <1>0, <1>2 DEF process_broker_msg, TakesMessage
<1>3. CASE form_match
  <2>1. /\ mpc = "handle" /\ "form" \in mbatch /\ mbatch' = mbatch \ {"form"}
        /\ form_match_eventfd' = form_match_eventfd - 1
        /\ mpc' = IF CanForm THEN "form" ELSE "handle"
        /\ UNCHANGED <<match, found, ports, matchmaker_eventfd>>
    BY <1>3 DEF form_match, broker
  <2>2. CanForm => ports > 0
    BY DEF CanForm
  <2>3. Len(<<>>) = 0
    OBVIOUS
  <2> QED
    BY <1>0, <2>1, <2>2, <2>3
<1>4. CASE PopPlayer
  <2>1. /\ mpc = "form" /\ Len(match) < PLAYERS_PER_MATCH /\ ports > 0
        /\ UNCHANGED <<matchmaker_eventfd, mbatch, form_match_eventfd>>
    BY <1>0, <1>4 DEF PopPlayer, broker
  <2>2. CASE QueueEmpty
    <3>1. mpc' = "handle" /\ match' = <<>>
      BY <1>4, <2>2 DEF PopPlayer
    <3> QED
      BY <1>0, <2>1, <3>1
  <2>3. CASE ~QueueEmpty
    <3>1. PICK p \in players : match' = Append(match, p)
      BY <1>4, <2>3 DEF PopPlayer
    <3>2. match' # <<>> /\ Len(match') = Len(match) + 1
      BY <1>0, <3>1, AppendOf
    <3>3. CASE Len(match) + 1 = PLAYERS_PER_MATCH
      BY <1>0, <1>4, <2>1, <2>3, <3>2, <3>3 DEF PopPlayer, Spawn
    <3>4. CASE Len(match) + 1 # PLAYERS_PER_MATCH
      BY <1>0, <1>4, <2>1, <2>3, <3>2, <3>4 DEF PopPlayer
    <3> QED
      BY <3>3, <3>4
  <2> QED
    BY <2>2, <2>3
<1>5. CASE Notify
  <2>1. /\ mpc = "notify" /\ match # <<>> /\ match' = Tail(match)
        /\ UNCHANGED <<matchmaker_eventfd, mbatch, ports, form_match_eventfd>>
    BY <1>0, <1>5 DEF Notify
  <2>2. CASE Tail(match) = <<>>
    <3>1. mpc' = IF found /\ CanForm THEN "form" ELSE "handle"
      BY <1>5, <2>2 DEF Notify
    <3>2. mpc' = "handle" \/ (mpc' = "form" /\ ports > 0)
      BY <3>1 DEF CanForm
    <3>3. Len(<<>>) = 0
      OBVIOUS
    <3> QED
      BY <1>0, <2>1, <2>2, <3>2, <3>3
  <2>3. CASE Tail(match) # <<>>
    BY <1>0, <1>5, <2>1, <2>3 DEF Notify
  <2> QED
    BY <2>2, <2>3
<1>6. CASE PortReturned
  BY <1>0, <1>6 DEF PortReturned, broker
<1>7. CASE UNCHANGED <<forming, pq>>
  <2>1. matchmaker_eventfd' = matchmaker_eventfd \/ matchmaker_eventfd' = matchmaker_eventfd + 1
        \/ process_broker_msg
    BY BrokerFrame DEF broker, process_broker, process_usr_request, Notify
  <2> QED
    BY <1>0, <1>2, <1>7, <2>1 DEF forming
<1> QED
  BY <1>1, <1>2, <1>3, <1>4, <1>5, <1>6, <1>7, MatchmakerFrame

(* A push writes the eventfd once; an event takes one message and one       *)
(* signal, or one signal more than the descriptor queue has entries.        *)
LEMMA SignalsStep ==
  ASSUME IndInv, [Next]_vars
  PROVE  SignalsMatchQueues'
<1> USE DEF SignalsMatchQueues
<1>0. /\ SignalsMatchQueues /\ MatchmakerPlace /\ EventsAreDue
      /\ q_session_man \in Seq(Request) /\ q_orch \in Seq(Result)
      /\ recv_queue \in Seq(Fd) /\ send_queue \in Seq(Fd)
      /\ recv_eventfd \in Nat /\ send_eventfd \in Nat
      /\ matchmaker_eventfd \in Nat /\ orch_eventfd \in Nat
      /\ owner \in [Fd -> Conn \union {None}]
  BY DEF IndInv, TypeOK
<1>1. /\ matchmaker_eventfd' = Len(q_session_man') /\ orch_eventfd' = Len(q_orch')
  <2>1. CASE process_broker
    <3>1. /\ <<"orch", None>> \in batch /\ orch_eventfd' = orch_eventfd - 1
          /\ q_orch' = Tail(q_orch) /\ UNCHANGED <<q_session_man, matchmaker_eventfd>>
      BY <2>1 DEF process_broker, Takes
    <3>2. q_orch # <<>>
      BY <1>0, <3>1 DEF EventsAreDue
    <3> QED
      BY <1>0, <3>1, <3>2, TailOf
  <2>2. CASE process_usr_request
    <3>1. /\ UNCHANGED <<q_orch, orch_eventfd>>
          /\ \/ UNCHANGED <<q_session_man, matchmaker_eventfd>>
             \/ /\ \E m : q_session_man' = Append(q_session_man, m)
                /\ matchmaker_eventfd' = matchmaker_eventfd + 1
      BY <2>2 DEF process_usr_request
    <3> QED
      BY <1>0, <3>1
  <2>3. CASE process_broker_msg
    <3>1. /\ "msg" \in mbatch /\ matchmaker_eventfd' = matchmaker_eventfd - 1
          /\ q_session_man' = Tail(q_session_man)
      BY <2>3 DEF process_broker_msg, TakesMessage
    <3>2. \/ UNCHANGED <<q_orch, orch_eventfd>>
          \/ \E r : q_orch' = Append(q_orch, r) /\ orch_eventfd' = orch_eventfd + 1
      BY <2>3 DEF process_broker_msg, ProcessRequest, ProcessCancel, ProcessUnknown, PushResult
    <3>3. q_session_man # <<>>
      BY <1>0, <3>1 DEF MatchmakerPlace
    <3> QED
      BY <1>0, <3>1, <3>2, <3>3, TailOf
  <2>4. CASE Notify
    <3>1. /\ UNCHANGED <<q_session_man, matchmaker_eventfd>>
          /\ \/ UNCHANGED <<q_orch, orch_eventfd>>
             \/ \E r : q_orch' = Append(q_orch, r) /\ orch_eventfd' = orch_eventfd + 1
      BY <2>4 DEF Notify, PushResult
    <3> QED
      BY <1>0, <3>1
  <2>5. CASE UNCHANGED broker
    BY <1>0, <2>5 DEF broker
  <2> QED
    BY <2>1, <2>2, <2>3, <2>4, <2>5, BrokerFrame
<1>2. Len(recv_queue') <= recv_eventfd'
  <2>1. CASE process_usr_request
    <3>1. recv_eventfd' = recv_eventfd - 1 /\ <<"recv", None>> \in batch
      BY <2>1 DEF process_usr_request, Takes
    <3>2. recv_queue = <<>> => recv_queue' = <<>>
      BY <2>1 DEF process_usr_request
    <3>3. recv_queue # <<>> => recv_queue' = Tail(recv_queue)
      BY <2>1 DEF process_usr_request
    <3>4. recv_eventfd > 0
      BY <1>0, <3>1 DEF EventsAreDue
    <3>5. Len(<<>>) = 0
      OBVIOUS
    <3> QED
      BY <1>0, <3>1, <3>2, <3>3, <3>4, <3>5, TailOf
  <2>2. ASSUME NEW f \in Fd, read_incoming_data(f)
        PROVE  Len(recv_queue') <= recv_eventfd'
    <3>1. \/ UNCHANGED <<recv_queue, recv_eventfd>>
          \/ /\ recv_queue' = recv_queue \/ recv_queue' = Append(recv_queue, f)
             /\ recv_eventfd' = recv_eventfd + 1
      BY <2>2 DEF read_incoming_data, PushRecv, recvs
    <3> QED
      BY <1>0, <3>1
  <2>3. ASSUME NEW f \in Fd, \/ accept_connections \/ process_broker \/ NothingToSend
                             \/ disconnect_handler(f) \/ SendAll(f) \/ SendPart(f)
                             \/ SendFails(f)
        PROVE  Len(recv_queue') <= recv_eventfd'
    BY <1>0, <2>3 DEF accept_connections, process_broker, NothingToSend, disconnect_handler,
       SendAll, SendPart, SendFails, recvs
  <2>4. CASE UNCHANGED <<owner, buffers, recvs, sends, history>>
    BY <1>0, <2>4 DEF recvs
  <2>5. Fd # {}
    BY LobbyAssumption
  <2> QED
    BY <2>1, <2>2, <2>3, <2>4, <2>5, OrchestratorFrame
<1>3. Len(send_queue') <= send_eventfd'
  <2>1. CASE process_broker
    <3>1. \/ UNCHANGED <<send_queue, send_eventfd>>
          \/ /\ \/ send_queue' = send_queue
                \/ send_queue' = Append(send_queue, Head(q_orch).fd)
             /\ send_eventfd' = send_eventfd + 1
      BY <2>1 DEF process_broker, PushSend, sends
    <3> QED
      BY <1>0, <3>1
  <2>2. CASE NothingToSend
    <3>1. send_eventfd' = send_eventfd - 1 /\ <<"send", None>> \in batch
      BY <2>2 DEF NothingToSend, Takes
    <3>2. \/ send_queue = <<>> /\ send_queue' = <<>>
          \/ send_queue # <<>> /\ send_queue' = Tail(send_queue)
      BY <2>2 DEF NothingToSend
    <3>3. send_eventfd > 0 /\ Len(<<>>) = 0
      BY <1>0, <3>1 DEF EventsAreDue
    <3> QED
      BY <1>0, <3>1, <3>2, <3>3, TailOf
  <2>3. ASSUME NEW f \in Fd, SendAll(f) \/ SendFails(f) \/ SendPart(f)
        PROVE  Len(send_queue') <= send_eventfd'
    <3>1. send_queue # <<>> /\ f = Head(send_queue)
      BY <2>3 DEF SendAll, SendFails, SendPart, Sends
    <3>2. \/ send_queue' = Tail(send_queue) /\ send_eventfd' = send_eventfd - 1
          \/ /\ \/ send_queue' = Tail(send_queue)
                \/ send_queue' = Append(Tail(send_queue), f)
             /\ send_eventfd' = send_eventfd
      BY <1>0, <2>3 DEF SendAll, SendFails, SendPart, PushSend
    <3> QED
      BY <1>0, <3>1, <3>2, TailOf
  <2>4. ASSUME NEW f \in Fd, \/ accept_connections \/ process_usr_request
                             \/ disconnect_handler(f) \/ read_incoming_data(f)
        PROVE  Len(send_queue') <= send_eventfd'
    BY <1>0, <2>4 DEF accept_connections, process_usr_request, disconnect_handler,
       read_incoming_data, sends
  <2>5. CASE UNCHANGED <<owner, buffers, recvs, sends, history>>
    BY <1>0, <2>5 DEF sends
  <2>6. Fd # {}
    BY LobbyAssumption
  <2> QED
    BY <2>1, <2>2, <2>3, <2>4, <2>5, <2>6, OrchestratorFrame
<1> QED
  BY <1>1, <1>2, <1>3

-----------------------------------------------------------------------------
(* Buffers and descriptor queues                                            *)

(* A descriptor leaves send_queue when its buffer is empty, was emptied or  *)
(* cannot be sent, or goes back to the end.                                 *)
LEMMA OutputStep ==
  ASSUME IndInv, [Next]_vars
  PROVE  OutputWillBeSent'
<1> DEFINE Safe(f) == output[f] # None =>
      overflow \/ peer[owner[f]] = "down" \/ Holds(send_queue, f)
<1>0. /\ FreeIsClean /\ OthersAreDown /\ EventsAreDue
      /\ owner \in [Fd -> Conn \union {None}] /\ output \in [Fd -> Result \union {None}]
      /\ peer \in [Conn -> {"none", "up", "down"}] /\ send_queue \in Seq(Fd)
      /\ None \notin Conn /\ overflow \in BOOLEAN
      /\ q_orch \in Seq(Result) /\ SignalsMatchQueues /\ orch_eventfd \in Nat
  BY LobbyAssumption DEF IndInv, TypeOK
<1>s. \A f \in Fd : Safe(f)
  BY DEF IndInv, OutputWillBeSent, Holds
<1> SUFFICES \A f \in Fd : Safe(f)'
  BY DEF OutputWillBeSent, Holds
<1>t. \A e : send_queue # <<>> /\ e # Head(send_queue) /\ Holds(send_queue, e)
             => Holds(Tail(send_queue), e)
  BY <1>0, TailHolds
<1>1. ASSUME NEW c \in Conn, Connect(c) \/ HangUp(c)
      PROVE  \A f \in Fd : Safe(f)'
  <2>1. UNCHANGED <<output, overflow, owner, send_queue>>
    BY <1>1 DEF Connect, HangUp, buffers, conns, history, sends
  <2>2. \A d \in Conn : peer[d] = "down" => peer'[d] = "down"
    BY <1>0, <1>1 DEF Connect, HangUp
  <2>3. \A f \in Fd : output[f] # None => owner[f] \in Conn
    BY <1>0 DEF FreeIsClean
  <2> QED
    BY <1>s, <2>1, <2>2, <2>3
<1>2. CASE accept_connections
  <2>1. UNCHANGED <<output, overflow, peer, send_queue>>
    BY <1>2 DEF accept_connections, clients, history, sends
  <2>2. PICK g \in Fd : owner[g] = None /\ owner' = [owner EXCEPT ![g] = Head(backlog)]
    BY <1>2 DEF accept_connections, AcceptOn, Owned
  <2>3. output[g] = None
    BY <1>0, <2>2 DEF FreeIsClean
  <2> QED
    BY <1>0, <1>s, <2>1, <2>2, <2>3
<1>3. ASSUME NEW g \in Fd, disconnect_handler(g)
      PROVE  \A f \in Fd : Safe(f)'
  <2>1. /\ UNCHANGED <<overflow, peer, send_queue>>
        /\ owner' = [owner EXCEPT ![g] = None] /\ output' = [output EXCEPT ![g] = None]
    BY <1>3 DEF disconnect_handler, clients, sends
  <2> QED
    BY <1>0, <1>s, <2>1
<1>4. CASE process_broker
  <2> DEFINE g == Head(q_orch).fd
  <2>1. UNCHANGED <<peer, owner>>
    BY <1>4 DEF process_broker, clients, conns
  <2>2. CASE ~OutputFree(g)
    BY <1>4, <1>s, <2>1, <2>2 DEF process_broker, sends
  <2>3. CASE OutputFree(g)
    <3>1. /\ output' = [output EXCEPT ![g] = Head(q_orch)]
          /\ send_queue' = IF Len(send_queue) < FD_QUEUE_CAPACITY
                           THEN Append(send_queue, g) ELSE send_queue
          /\ overflow' = (overflow \/ Len(send_queue) >= FD_QUEUE_CAPACITY)
      BY <1>4, <2>3 DEF process_broker, PushSend
    <3>2. <<"orch", None>> \in batch
      BY <1>4 DEF process_broker, Takes
    <3>3. g \in Fd
      <4>1. q_orch # <<>>
        BY <1>0, <3>2 DEF EventsAreDue, SignalsMatchQueues
      <4>2. Head(q_orch) \in Result
        BY <1>0, <4>1, TailOf
      <4> QED
        BY <4>2 DEF Result
    <3> HIDE DEF g
    <3>4. CASE Len(send_queue) < FD_QUEUE_CAPACITY
      <4>1. Holds(send_queue', g) /\ \A e : Holds(send_queue, e) => Holds(send_queue', e)
        BY <1>0, <3>1, <3>3, <3>4, AppendHolds
      <4>2. overflow => overflow'
        BY <3>1
      <4> QED
        BY <1>0, <1>s, <2>1, <3>1, <3>3, <4>1, <4>2
    <3>5. CASE ~(Len(send_queue) < FD_QUEUE_CAPACITY)
      <4>1. Len(send_queue) >= FD_QUEUE_CAPACITY
        BY <1>0, <3>5, LobbyAssumption
      <4>2. overflow'
        BY <3>1, <4>1
      <4> QED
        BY <4>2
    <3> QED
      BY <3>4, <3>5
  <2> QED
    BY <2>2, <2>3
<1>5. CASE NothingToSend
  <2>1. UNCHANGED <<peer, owner, output, overflow>>
    BY <1>5 DEF NothingToSend, clients, conns, buffers, history
  <2>2. \A f \in Fd : output[f] # None /\ Holds(send_queue, f) => Holds(send_queue', f)
    <3>1. CASE send_queue = <<>>
      BY <1>5, <3>1 DEF NothingToSend
    <3>2. CASE send_queue # <<>>
      BY <1>5, <1>t, <3>2 DEF NothingToSend
    <3> QED
      BY <3>1, <3>2
  <2> QED
    BY <1>s, <2>1, <2>2
<1>6. ASSUME NEW g \in Fd, SendAll(g) \/ SendFails(g)
      PROVE  \A f \in Fd : Safe(f)'
  <2>1. /\ UNCHANGED <<peer, owner, overflow>> /\ send_queue # <<>> /\ g = Head(send_queue)
        /\ send_queue' = Tail(send_queue)
        /\ \/ output' = [output EXCEPT ![g] = None]
           \/ output' = output /\ peer[owner[g]] = "down"
    BY <1>6 DEF SendAll, SendFails, Sends, clients, conns, buffers, history
  <2>2. \A f \in Fd : f # g /\ Holds(send_queue, f) => Holds(send_queue', f)
    BY <1>t, <2>1
  <2> QED
    BY <1>0, <1>s, <2>1, <2>2
<1>7. ASSUME NEW g \in Fd, SendPart(g)
      PROVE  \A f \in Fd : Safe(f)'
  <2>1. /\ UNCHANGED <<peer, owner, output>> /\ send_queue # <<>> /\ g = Head(send_queue)
        /\ send_queue' = IF Len(Tail(send_queue)) < FD_QUEUE_CAPACITY
                         THEN Append(Tail(send_queue), g) ELSE Tail(send_queue)
        /\ overflow' = (overflow \/ Len(Tail(send_queue)) >= FD_QUEUE_CAPACITY)
    BY <1>7 DEF SendPart, Sends, PushSend, clients, conns, buffers
  <2>2. Tail(send_queue) \in Seq(Fd) /\ Len(Tail(send_queue)) \in Nat
    BY <1>0, <2>1, TailOf
  <2>3. CASE Len(Tail(send_queue)) < FD_QUEUE_CAPACITY
    <3>1. /\ Holds(send_queue', g)
          /\ \A e : Holds(Tail(send_queue), e) => Holds(send_queue', e)
      BY <2>1, <2>2, <2>3, AppendHolds
    <3>2. \A f \in Fd : Holds(send_queue, f) => Holds(send_queue', f)
      BY <1>t, <2>1, <3>1
    <3>3. overflow => overflow'
      BY <2>1
    <3> QED
      BY <1>s, <2>1, <3>2, <3>3
  <2>4. CASE ~(Len(Tail(send_queue)) < FD_QUEUE_CAPACITY)
    <3>1. Len(Tail(send_queue)) >= FD_QUEUE_CAPACITY
      BY <2>2, <2>4, LobbyAssumption
    <3>2. overflow'
      BY <2>1, <3>1
    <3> QED
      BY <3>2
  <2> QED
    BY <2>3, <2>4
<1>8. ASSUME NEW g \in Fd, process_usr_request \/ read_incoming_data(g)
      PROVE  \A f \in Fd : Safe(f)'
  <2>1. UNCHANGED <<peer, owner, output, send_queue>>
    BY <1>8 DEF process_usr_request, read_incoming_data, clients, conns, sends
  <2>2. overflow => overflow'
    BY <1>8 DEF process_usr_request, read_incoming_data, PushRecv
  <2> QED
    BY <1>s, <2>1, <2>2
<1>9. CASE UNCHANGED <<peer, conns>> /\ UNCHANGED <<owner, buffers, recvs, sends, history>>
  BY <1>s, <1>9 DEF conns, buffers, sends, history
<1>10. Fd # {}
  BY LobbyAssumption
<1> QED
  BY <1>1, <1>2, <1>3, <1>4, <1>5, <1>6, <1>7, <1>8, <1>9, <1>10,
     ConnectionFrame, OrchestratorFrame

(* A full buffer puts its descriptor into recv_queue, and what takes it out *)
(* empties the buffer and reads on.                                         *)
LEMMA ReadingStep ==
  ASSUME IndInv, [Next]_vars
  PROVE  ReadingResumes'
<1> DEFINE Safe(f) == owner[f] # None =>
      /\ f \in reading => Len(input[f]) < SEG
      /\ f \notin reading => overflow \/ f \in refused \/ Holds(recv_queue, f)
<1>0. /\ FreeIsClean /\ EventsAreDue
      /\ owner \in [Fd -> Conn \union {None}] /\ input \in [Fd -> Seq(0..4)]
      /\ reading \in SUBSET Fd /\ refused \in SUBSET Fd /\ recv_queue \in Seq(Fd)
      /\ wire \in [Conn -> Seq(0..4)]
      /\ None \notin Conn /\ overflow \in BOOLEAN /\ SEG \in Nat \ {0}
  BY LobbyAssumption DEF IndInv, TypeOK
<1>s. \A f \in Fd : Safe(f)
  BY DEF IndInv, ReadingResumes, Owned, Holds
<1> SUFFICES \A f \in Fd : Safe(f)'
  BY DEF ReadingResumes, Owned, Holds
<1>t. \A e : recv_queue # <<>> /\ e # Head(recv_queue) /\ Holds(recv_queue, e)
             => Holds(Tail(recv_queue), e)
  BY <1>0, TailHolds
<1>e. Len(<<>>) = 0
  OBVIOUS
<1>1. CASE accept_connections
  <2>1. UNCHANGED <<input, overflow, refused, recv_queue>>
    BY <1>1 DEF accept_connections, history, recvs
  <2>2. PICK g \in Fd : /\ owner[g] = None /\ owner' = [owner EXCEPT ![g] = Head(backlog)]
                        /\ reading' = reading \union {g}
    BY <1>1 DEF accept_connections, AcceptOn, Owned
  <2>3. input[g] = <<>>
    BY <1>0, <2>2 DEF FreeIsClean
  <2> QED
    BY <1>0, <1>e, <1>s, <2>1, <2>2, <2>3
<1>2. ASSUME NEW g \in Fd, disconnect_handler(g)
      PROVE  \A f \in Fd : Safe(f)'
  <2>1. /\ UNCHANGED <<overflow, recv_queue>> /\ refused' = refused \ {g}
        /\ owner' = [owner EXCEPT ![g] = None] /\ input' = [input EXCEPT ![g] = <<>>]
        /\ reading' = reading \ {g}
    BY <1>2 DEF disconnect_handler, recvs
  <2> QED
    BY <1>0, <1>s, <2>1
<1>3. CASE process_usr_request
  <2>1. UNCHANGED <<owner, overflow>>
    BY <1>3 DEF process_usr_request, conns
  <2>2. CASE recv_queue = <<>> \/ owner[Head(recv_queue)] = None
    <3>1. UNCHANGED <<input, reading, refused>>
      BY <1>3, <2>2 DEF process_usr_request
    <3>2. recv_queue = <<>> => recv_queue' = recv_queue
      BY <1>3 DEF process_usr_request
    <3>3. recv_queue # <<>> => recv_queue' = Tail(recv_queue)
      BY <1>3 DEF process_usr_request
    <3>4. \A f \in Fd : owner[f] # None /\ Holds(recv_queue, f) => Holds(recv_queue', f)
      BY <1>t, <2>2, <3>2, <3>3
    <3> QED
      BY <1>s, <2>1, <3>1, <3>4
  <2>3. CASE ~(recv_queue = <<>> \/ owner[Head(recv_queue)] = None)
    <3> DEFINE g == Head(recv_queue)
    <3>1. /\ recv_queue' = Tail(recv_queue) /\ input' = [input EXCEPT ![g] = <<>>]
          /\ \/ reading' = reading \union {g} /\ refused' = refused
             \/ reading' = reading /\ refused' = refused \union {g}
      BY <1>3, <2>3 DEF process_usr_request
    <3>2. /\ g \in Fd
          /\ \A f \in Fd : f # g /\ Holds(recv_queue, f) => Holds(recv_queue', f)
      BY <1>0, <1>t, <2>3, <3>1, TailOf
    <3> HIDE DEF g
    <3>3. input'[g] = <<>> /\ Len(input'[g]) < SEG /\ (g \in reading' \/ g \in refused')
      BY <1>0, <1>e, <3>1, <3>2
    <3> TAKE f \in Fd
    <3>4. CASE f = g
      BY <3>3, <3>4
    <3>5. CASE f # g
      BY <1>0, <1>s, <2>1, <3>1, <3>2, <3>5
    <3> QED
      BY <3>4, <3>5
  <2> QED
    BY <2>2, <2>3
<1>4. ASSUME NEW g \in Fd, read_incoming_data(g)
      PROVE  \A f \in Fd : Safe(f)'
  <2>1. UNCHANGED <<owner, refused>>
    BY <1>4 DEF read_incoming_data, conns
  <2>2. owner[g] \in Conn
    BY <1>0, <1>4 DEF read_incoming_data, Takes, EventsAreDue, FreeIsClean
  <2>3. PICK n \in 1..SEG :
          LET buffered == input[g] \o SubSeq(wire[owner[g]], 1, n)
          IN /\ n <= Len(wire[owner[g]]) /\ Len(buffered) <= SEG
             /\ input' = [input EXCEPT ![g] = buffered]
             /\ IF Len(buffered) = SEG
                THEN PushRecv(g) /\ reading' = reading \ {g}
                ELSE UNCHANGED <<recvs, reading, overflow>>
    BY <1>4 DEF read_incoming_data
  <2> DEFINE b == input[g] \o SubSeq(wire[owner[g]], 1, n)
  <2>4. b \in Seq(0..4) /\ Len(b) \in Nat
    BY <1>0, <2>2, <2>3
  <2>5. Len(b) <= SEG /\ input' = [input EXCEPT ![g] = b]
    BY <2>3
  <2>6. CASE Len(b) = SEG
    <3>1. PushRecv(g) /\ reading' = reading \ {g}
      BY <2>3, <2>6
    <3>2. CASE Len(recv_queue) < FD_QUEUE_CAPACITY
      <4>1. recv_queue' = Append(recv_queue, g) /\ (overflow => overflow')
        BY <3>1, <3>2 DEF PushRecv
      <4>2. Holds(recv_queue', g) /\ \A e : Holds(recv_queue, e) => Holds(recv_queue', e)
        BY <1>0, <4>1, AppendHolds
      <4> QED
        BY <1>0, <1>s, <2>1, <2>5, <3>1, <4>1, <4>2
    <3>3. CASE ~(Len(recv_queue) < FD_QUEUE_CAPACITY)
      <4>0. Len(recv_queue) >= FD_QUEUE_CAPACITY
        BY <1>0, <3>3, LobbyAssumption
      <4>1. overflow'
        BY <3>1, <4>0 DEF PushRecv
      <4> QED
        BY <1>0, <1>s, <2>1, <2>5, <3>1, <4>1
    <3> QED
      BY <3>2, <3>3
  <2>7. CASE Len(b) # SEG
    <3>1. UNCHANGED <<recv_queue, reading, overflow>>
      BY <2>3, <2>7 DEF recvs
    <3> HIDE DEF b
    <3> QED
      BY <1>0, <1>s, <2>1, <2>4, <2>5, <2>7, <3>1
  <2> QED
    BY <2>6, <2>7
<1>5. ASSUME NEW g \in Fd, \/ process_broker \/ NothingToSend \/ SendAll(g) \/ SendPart(g)
                           \/ SendFails(g)
      PROVE  \A f \in Fd : Safe(f)'
  <2>1. UNCHANGED <<owner, input, reading, recv_queue, refused>>
    BY <1>5 DEF process_broker, NothingToSend, SendAll, SendPart, SendFails, conns, recvs,
       buffers, history
  <2>2. overflow => overflow'
    BY <1>5 DEF process_broker, NothingToSend, SendAll, SendPart, SendFails, PushSend, history
  <2> QED
    BY <1>s, <2>1, <2>2
<1>6. CASE UNCHANGED <<owner, buffers, recvs, sends, history>>
  BY <1>s, <1>6 DEF buffers, recvs, history
<1>7. Fd # {}
  BY LobbyAssumption
<1> QED
  BY <1>1, <1>2, <1>3, <1>4, <1>5, <1>6, <1>7, OrchestratorFrame

-----------------------------------------------------------------------------
(* Identities                                                               *)

(* player_id and fd are read together from the connection and travel        *)
(* together; a connection keeps its descriptor's number for good.           *)
LEMMA IdentityStep ==
  ASSUME IndInv, [Next]_vars
  PROVE  IdentityTravels'
<1> USE DEF Names
<1>0. /\ IdentityTravels /\ OthersAreDown /\ BacklogIsNew /\ EventsAreDue
      /\ MatchmakerPlace /\ SignalsMatchQueues
      /\ fdOf \in [Conn -> Fd \union {None}] /\ owner \in [Fd -> Conn \union {None}]
      /\ players \in SUBSET Player /\ match \in Seq(Player)
      /\ q_session_man \in Seq(Request) /\ q_orch \in Seq(Result)
      /\ output \in [Fd -> Result \union {None}] /\ backlog \in Seq(Conn)
      /\ recv_queue \in Seq(Fd) /\ None \notin Fd
      /\ matchmaker_eventfd \in Nat /\ orch_eventfd \in Nat
  BY LobbyAssumption DEF IndInv, TypeOK, QueueTypeOK
<1>f. \A c \in Conn : fdOf[c] # None => fdOf'[c] = fdOf[c]
  <2>1. CASE accept_connections
    <3>1. backlog # <<>>
      BY <2>1 DEF accept_connections
    <3>2. Head(backlog) \in Conn /\ fdOf[Head(backlog)] = None
      BY <1>0, <3>1, TailOf DEF BacklogIsNew
    <3>3. \E f \in Fd : fdOf' = [fdOf EXCEPT ![Head(backlog)] = f]
      BY <2>1 DEF accept_connections, AcceptOn
    <3> QED
      BY <1>0, <3>2, <3>3
  <2>2. CASE fdOf' = fdOf
    BY <2>2
  <2> QED
    BY <2>1, <2>2, ConnectionFrame DEF Connect, HangUp, disconnect_handler, conns
<1>1. \A p \in players' : fdOf'[p.player_id] = p.fd
  <2>1. CASE process_broker_msg
    <3>1. "msg" \in mbatch
      BY <2>1 DEF process_broker_msg, TakesMessage
    <3>2. q_session_man # <<>>
      BY <1>0, <3>1 DEF MatchmakerPlace, SignalsMatchQueues
    <3> DEFINE msg == Head(q_session_man)
    <3>3. msg \in Request /\ fdOf[msg.player_id] = msg.fd
      BY <1>0, <3>2, TailOf DEF IdentityTravels
    <3>4. \A p \in players' : \/ p \in players
                              \/ p.fd = msg.fd /\ p.player_id = msg.player_id
      BY <2>1 DEF process_broker_msg, ProcessRequest, ProcessCancel, ProcessUnknown,
         pq_add_player, pq_remove_player, pq
    <3> HIDE DEF msg
    <3> QED
      BY <1>0, <1>f, <3>3, <3>4 DEF IdentityTravels, Player, Request
  <2>2. CASE players' \subseteq players
    BY <1>0, <1>f, <2>2 DEF IdentityTravels, Player
  <2> QED
    BY <2>1, <2>2, MatchmakerFrame DEF NextRound, form_match, PopPlayer, pop_from_queue,
       Notify, PortReturned, pq
<1>2. Names(match)'
  <2>1. CASE PopPlayer
    <3>1. \/ match' = <<>>
          \/ \E p \in players : match' = Append(match, p)
      BY <2>1 DEF PopPlayer
    <3>2. CASE match' = <<>>
      BY <3>2
    <3>3. ASSUME NEW p \in players, match' = Append(match, p) PROVE Names(match)'
      <4>1. \A i \in DOMAIN match' : \/ i \in DOMAIN match /\ match'[i] = match[i]
                                     \/ match'[i] = p
        BY <1>0, <3>3, AppendOf
      <4>2. fdOf[p.player_id] = p.fd /\ p \in Player
        BY <1>0 DEF IdentityTravels
      <4>3. \A i \in DOMAIN match : match[i] \in Player /\ fdOf[match[i].player_id] = match[i].fd
        BY <1>0 DEF IdentityTravels
      <4> QED
        BY <1>0, <1>f, <4>1, <4>2, <4>3 DEF Player
    <3> QED
      BY <3>1, <3>2, <3>3
  <2>2. CASE Notify
    <3>1. match # <<>> /\ match' = Tail(match)
      BY <1>0, <2>2 DEF Notify, MatchmakerPlace
    <3>2. \A i \in DOMAIN match' : i + 1 \in DOMAIN match /\ match'[i] = match[i + 1]
      BY <1>0, <3>1, TailOf
    <3>3. \A i \in DOMAIN match : match[i] \in Player /\ fdOf[match[i].player_id] = match[i].fd
      BY <1>0 DEF IdentityTravels
    <3> QED
      BY <1>0, <1>f, <3>2, <3>3 DEF Player
  <2>3. CASE match' = match
    <3>1. \A i \in DOMAIN match : match[i] \in Player /\ fdOf[match[i].player_id] = match[i].fd
      BY <1>0 DEF IdentityTravels
    <3> QED
      BY <1>0, <1>f, <2>3, <3>1 DEF Player
  <2> QED
    BY <2>1, <2>2, <2>3, MatchmakerFrame DEF NextRound, process_broker_msg, TakesMessage,
       form_match, PortReturned, forming
<1>3. Names(q_session_man)'
  <2>0. \A i \in DOMAIN q_session_man :
          q_session_man[i] \in Request /\ fdOf'[q_session_man[i].player_id] = q_session_man[i].fd
    <3>1. \A i \in DOMAIN q_session_man : /\ q_session_man[i] \in Request
                                         /\ fdOf[q_session_man[i].player_id] = q_session_man[i].fd
      BY <1>0 DEF IdentityTravels
    <3>2. \A m \in Request : m.player_id \in Conn /\ m.fd \in Fd
      BY DEF Request
    <3> QED
      BY <1>0, <1>f, <3>1, <3>2
  <2>1. CASE process_usr_request
    <3>1. CASE q_session_man' = q_session_man
      BY <2>0, <3>1
    <3>2. CASE q_session_man' # q_session_man
      <4> DEFINE g == Head(recv_queue)
      <4>1. /\ recv_queue # <<>> /\ owner[g] # None
            /\ \E e \in EventType(input[g]) : q_session_man' =
                 Append(q_session_man, [player_id |-> owner[g], fd |-> g, event_type |-> e])
        BY <2>1, <3>2 DEF process_usr_request
      <4>2. g \in Fd
        BY <1>0, <4>1, TailOf
      <4>3. fdOf[owner[g]] = g /\ owner[g] \in Conn
        BY <1>0, <4>1, <4>2 DEF OthersAreDown, Owned
      <4> HIDE DEF g
      <4>4. PICK e : q_session_man' =
                 Append(q_session_man, [player_id |-> owner[g], fd |-> g, event_type |-> e])
        BY <4>1
      <4>5. \A i \in DOMAIN q_session_man' :
              \/ i \in DOMAIN q_session_man /\ q_session_man'[i] = q_session_man[i]
              \/ q_session_man'[i] = [player_id |-> owner[g], fd |-> g, event_type |-> e]
        BY <1>0, <4>4
      <4> QED
        BY <1>0, <1>f, <2>0, <4>2, <4>3, <4>5
    <3> QED
      BY <3>1, <3>2
  <2>2. CASE process_broker_msg
    <3>1. "msg" \in mbatch /\ q_session_man' = Tail(q_session_man)
      BY <2>2 DEF process_broker_msg, TakesMessage
    <3>2. q_session_man # <<>>
      BY <1>0, <3>1 DEF MatchmakerPlace, SignalsMatchQueues
    <3>3. \A i \in DOMAIN q_session_man' :
            i + 1 \in DOMAIN q_session_man /\ q_session_man'[i] = q_session_man[i + 1]
      BY <1>0, <3>1, <3>2, TailOf
    <3> QED
      BY <2>0, <3>3
  <2>3. CASE q_session_man' = q_session_man
    BY <2>0, <2>3
  <2> QED
    BY <2>1, <2>2, <2>3, BrokerFrame DEF process_broker, Notify, broker
<1>4. Names(q_orch)'
  <2>0. \A i \in DOMAIN q_orch :
          q_orch[i] \in Result /\ fdOf'[q_orch[i].player_id] = q_orch[i].fd
    <3>1. \A i \in DOMAIN q_orch : /\ q_orch[i] \in Result
                                  /\ fdOf[q_orch[i].player_id] = q_orch[i].fd
      BY <1>0 DEF IdentityTravels
    <3>2. \A r \in Result : r.player_id \in Conn /\ r.fd \in Fd
      BY DEF Result
    <3> QED
      BY <1>0, <1>f, <3>1, <3>2
  <2>1. ASSUME NEW p, NEW e, PushResult(p, e), fdOf[p.player_id] = p.fd,
               p.player_id \in Conn, p.fd \in Fd
        PROVE  Names(q_orch)'
    <3>1. CASE q_orch' = q_orch
      BY <2>0, <3>1
    <3>2. CASE q_orch' # q_orch
      <4>1. q_orch' = Append(q_orch, [player_id |-> p.player_id, fd |-> p.fd, event_type |-> e])
        BY <2>1, <3>2 DEF PushResult
      <4>2. \A i \in DOMAIN q_orch' :
              \/ i \in DOMAIN q_orch /\ q_orch'[i] = q_orch[i]
              \/ q_orch'[i] = [player_id |-> p.player_id, fd |-> p.fd, event_type |-> e]
        BY <1>0, <4>1
      <4> QED
        BY <1>0, <1>f, <2>0, <2>1, <4>2
    <3> QED
      BY <3>1, <3>2
  <2>2. CASE process_broker_msg
    <3>1. "msg" \in mbatch
      BY <2>2 DEF process_broker_msg, TakesMessage
    <3>2. q_session_man # <<>>
      BY <1>0, <3>1 DEF MatchmakerPlace, SignalsMatchQueues
    <3> DEFINE msg == Head(q_session_man)
    <3>3. msg \in Request /\ fdOf[msg.player_id] = msg.fd
      BY <1>0, <3>2, TailOf DEF IdentityTravels
    <3>4. q_orch' = q_orch \/ \E e : PushResult(msg, e)
      BY <2>2 DEF process_broker_msg, ProcessRequest, ProcessCancel, ProcessUnknown
    <3> HIDE DEF msg
    <3>5. msg.player_id \in Conn /\ msg.fd \in Fd
      BY <3>3 DEF Request
    <3> QED
      BY <2>0, <2>1, <3>3, <3>4, <3>5
  <2>3. CASE Notify
    <3>1. match # <<>> /\ \E e : PushResult(Head(match), e)
      BY <1>0, <2>3 DEF Notify, MatchmakerPlace
    <3>2. Head(match) \in Player /\ fdOf[Head(match).player_id] = Head(match).fd
      BY <1>0, <3>1, TailOf DEF IdentityTravels
    <3>3. Head(match).player_id \in Conn /\ Head(match).fd \in Fd
      BY <3>2 DEF Player
    <3> QED
      BY <2>1, <3>1, <3>2, <3>3
  <2>4. CASE process_broker
    <3>1. <<"orch", None>> \in batch /\ q_orch' = Tail(q_orch)
      BY <2>4 DEF process_broker, Takes
    <3>2. q_orch # <<>>
      BY <1>0, <3>1 DEF EventsAreDue, SignalsMatchQueues
    <3>3. \A i \in DOMAIN q_orch' : i + 1 \in DOMAIN q_orch /\ q_orch'[i] = q_orch[i + 1]
      BY <1>0, <3>1, <3>2, TailOf
    <3> QED
      BY <2>0, <3>3
  <2>5. CASE q_orch' = q_orch
    BY <2>0, <2>5
  <2> QED
    BY <2>2, <2>3, <2>4, <2>5, BrokerFrame DEF process_usr_request, broker
<1>5. \A f \in Fd : output'[f] # None =>
        output'[f].fd = f /\ fdOf'[output'[f].player_id] = f
  <2>0. \A f \in Fd : output[f] # None =>
          output[f].fd = f /\ fdOf'[output[f].player_id] = f
    BY <1>0, <1>f DEF IdentityTravels, Result
  <2>1. CASE process_broker
    <3>1. <<"orch", None>> \in batch
      BY <2>1 DEF process_broker, Takes
    <3>2. q_orch # <<>>
      BY <1>0, <3>1 DEF EventsAreDue, SignalsMatchQueues
    <3> DEFINE r == Head(q_orch)
    <3>3. r \in Result /\ fdOf[r.player_id] = r.fd
      BY <1>0, <3>2, TailOf DEF IdentityTravels
    <3>4. output' = output \/ output' = [output EXCEPT ![r.fd] = r]
      BY <2>1 DEF process_broker
    <3> HIDE DEF r
    <3>5. r.fd \in Fd /\ r.player_id \in Conn /\ fdOf'[r.player_id] = r.fd
      BY <1>0, <1>f, <3>3 DEF Result
    <3> QED
      BY <1>0, <2>0, <3>4, <3>5
  <2>2. CASE output' = output
    BY <2>0, <2>2
  <2>3. ASSUME NEW g \in Fd, output' = [output EXCEPT ![g] = None]
        PROVE  \A f \in Fd : output'[f] # None =>
                 output'[f].fd = f /\ fdOf'[output'[f].player_id] = f
    BY <1>0, <2>0, <2>3
  <2> QED
    BY <2>1, <2>2, <2>3, OrchestratorFrame DEF accept_connections, process_usr_request,
       NothingToSend, read_incoming_data, disconnect_handler, SendAll, SendPart, SendFails, buffers
<1> QED
  BY <1>1, <1>2, <1>3, <1>4, <1>5 DEF IdentityTravels

(* What is written to a descriptor was meant for its owner or for one of    *)
(* the connections before, and those have hung up.                          *)
LEMMA OwnResultStep ==
  ASSUME IndInv, [Next]_vars
  PROVE  OwnResultWhileUp'
<1> USE DEF OwnResultWhileUp
<1>0. /\ OwnResultWhileUp /\ OthersAreDown /\ IdentityTravels /\ EventsAreDue /\ FreeIsClean
      /\ peer \in [Conn -> {"none", "up", "down"}] /\ fdOf \in [Conn -> Fd \union {None}]
      /\ owner \in [Fd -> Conn \union {None}] /\ output \in [Fd -> Result \union {None}]
      /\ mail \in [Conn -> Seq(Result)] /\ None \notin Fd
  BY LobbyAssumption DEF IndInv, TypeOK
<1>d. \A c \in Conn : peer[c] = "down" => peer'[c] = "down"
  BY <1>0, ConnectionFrame DEF Connect, HangUp, accept_connections, disconnect_handler, clients
<1>m. \A c \in Conn : \A i \in DOMAIN mail[c] : mail[c][i].player_id \in Conn
  <2>1. \A c \in Conn : \A i \in DOMAIN mail[c] : mail[c][i] \in Result
    BY <1>0
  <2> QED
    BY <2>1 DEF Result
<1>1. CASE UNCHANGED mail
  BY <1>0, <1>d, <1>m, <1>1
<1>2. ASSUME NEW c \in Conn, HangUp(c)
      PROVE  OwnResultWhileUp'
  <2>1. mail' = [mail EXCEPT ![c] = <<>>]
    BY <1>2 DEF HangUp
  <2> QED
    BY <1>0, <1>d, <1>m, <2>1
<1>3. ASSUME NEW c \in Conn, handle_tcp_response(c)
      PROVE  OwnResultWhileUp'
  <2>1. mail' = [mail EXCEPT ![c] = Tail(@)] /\ mail[c] # <<>>
    BY <1>3 DEF handle_tcp_response
  <2>2. \A i \in DOMAIN mail'[c] : i + 1 \in DOMAIN mail[c] /\ mail'[c][i] = mail[c][i + 1]
    BY <1>0, <2>1, TailOf
  <2>3. \A d \in Conn : d # c => mail'[d] = mail[d]
    BY <1>0, <2>1
  <2> QED
    BY <1>0, <1>d, <1>m, <2>2, <2>3
<1>4. ASSUME NEW f \in Fd, SendAll(f)
      PROVE  OwnResultWhileUp'
  <2> DEFINE c == owner[f]
             r == output[f]
  <2>1. /\ r # None /\ peer' = peer
        /\ mail' = mail \/ mail' = [mail EXCEPT ![c] = Append(@, r)]
    BY <1>4 DEF SendAll, Sends, clients
  <2>2. r \in Result /\ c \in Conn /\ fdOf[c] = f /\ fdOf[r.player_id] = f
    BY <1>0, <2>1 DEF FreeIsClean, OthersAreDown, Owned, IdentityTravels
  <2>3. r.player_id \in Conn
    BY <2>2 DEF Result
  <2>4. r.player_id = c \/ peer[r.player_id] = "down"
    BY <1>0, <2>2, <2>3 DEF OthersAreDown
  <2> HIDE DEF c, r
  <2>5. CASE mail' = mail
    BY <1>1, <2>5
  <2>6. CASE mail' = [mail EXCEPT ![c] = Append(@, r)]
    <3>1. mail[c] \in Seq(Result) /\ mail'[c] = Append(mail[c], r)
      BY <1>0, <2>2, <2>6
    <3>2. \A i \in DOMAIN mail'[c] :
            \/ i \in DOMAIN mail[c] /\ mail'[c][i] = mail[c][i]
            \/ mail'[c][i] = r
      BY <2>2, <3>1, AppendOf
    <3>3. \A d \in Conn : d # c => mail'[d] = mail[d]
      BY <1>0, <2>6
    <3>4. ASSUME NEW d \in Conn, d # c, NEW i \in DOMAIN mail'[d]
          PROVE  mail'[d][i].player_id = d \/ peer'[mail'[d][i].player_id] = "down"
      BY <1>0, <1>d, <1>m, <3>3, <3>4
    <3>5. ASSUME NEW i \in DOMAIN mail'[c]
          PROVE  mail'[c][i].player_id = c \/ peer'[mail'[c][i].player_id] = "down"
      BY <1>0, <2>1, <2>2, <2>4, <3>2
    <3> QED
      BY <3>4, <3>5
  <2> QED
    BY <2>1, <2>5, <2>6
<1>5. \/ mail' = mail
      \/ \E c \in Conn : HangUp(c) \/ handle_tcp_response(c)
      \/ \E f \in Fd : SendAll(f)
  <2> USE DEF streams, outside
  <2>1. CASE Client
    BY <2>1 DEF Client, Connect, start_search, stop_search
  <2>2. CASE Orchestrator
    BY <2>2 DEF Orchestrator, epoll_wait, accept_connections, process_broker,
       process_usr_request, NothingToSend, read_incoming_data, ReadFails,
       disconnect_handler, SendPart, SendFails
  <2>3. CASE Matchmaker \/ PortReturned \/ UNCHANGED vars
    BY <2>3 DEF Matchmaker, NextRound, process_broker_msg, TakesMessage, form_match,
       PopPlayer, Notify, PortReturned, vars
  <2> QED
    BY <2>1, <2>2, <2>3 DEF Next
<1> QED
  BY <1>1, <1>2, <1>3, <1>4, <1>5

-----------------------------------------------------------------------------
(* Types                                                                    *)

(* The frame of a client request.                                           *)
LEMMA FrameType ==
  ASSUME NEW e \in 0..4
  PROVE  Frame(e) \in Seq(0..4)
<1>1. Frame(e) \in [1..SEG -> 0..4]
  BY DEF Frame
<1> QED
  BY <1>1, LobbyAssumption

(* What the matchmaker's queue does to its own variables.                   *)
LEMMA QueueTypes ==
  ASSUME QueueTypeOK,
         \/ \E f \in Fd, c \in Conn : pq_add_player(f, c)
         \/ \E f \in Fd : pq_remove_player(f)
         \/ \E p \in players : pop_from_queue(p)
  PROVE  QueueTypeOK'
<1> USE DEF QueueTypeOK
<1>1. ASSUME NEW f \in Fd, NEW c \in Conn, pq_add_player(f, c)
      PROVE  QueueTypeOK'
  <2>1. [seq_num |-> seq_num, fd |-> f, player_id |-> c] \in Player
    BY DEF Player
  <2>2. <<seq_num>> \o fd_seq_mapping[f] \in Seq(Nat)
    OBVIOUS
  <2>3. cur_size' \in 0..SIZE_MAX /\ seq_num' \in Nat
    BY <1>1, QueueAssumption DEF pq_add_player, AtCapacity
  <2>4. players' \in SUBSET Player /\ fd_seq_mapping' \in [Fd -> Seq(Nat)]
    BY <1>1, <2>1, <2>2 DEF pq_add_player
  <2> QED
    BY <2>3, <2>4
<1>2. cur_size \in 0..SIZE_MAX => Decremented(cur_size) \in 0..SIZE_MAX
  BY QueueAssumption DEF Decremented
<1>3. ASSUME NEW f \in Fd, pq_remove_player(f)
      PROVE  QueueTypeOK'
  <2>1. Tail(fd_seq_mapping[f]) \in Seq(Nat)
    BY <1>3, TailOf DEF pq_remove_player, NotFound
  <2> QED
    BY <1>2, <1>3, <2>1 DEF pq_remove_player
<1>4. ASSUME NEW p \in players, pop_from_queue(p)
      PROVE  QueueTypeOK'
  <2>1. p.fd \in Fd
    BY DEF Player
  <2>2. fd_seq_mapping[p.fd] # <<>> => Tail(fd_seq_mapping[p.fd]) \in Seq(Nat)
    BY <2>1, TailOf
  <2> QED
    BY <1>2, <1>4, <2>1, <2>2 DEF pop_from_queue
<1> QED
  BY <1>1, <1>3, <1>4

(* What a client does keeps the types.                                      *)
LEMMA ClientTypes ==
  ASSUME IndInv, Client
  PROVE  TypeOK'
<1> USE DEF streams, conns, buffers, recvs, sends, broker, forming, pq, history
<1>0. TypeOK
  BY DEF IndInv
<1>1. ASSUME NEW c \in Conn, Connect(c)
      PROVE  TypeOK'
  <2>1. Append(backlog, c) \in Seq(Conn)
    BY <1>0 DEF TypeOK
  <2> QED
    BY <1>0, <1>1, <2>1 DEF TypeOK, QueueTypeOK, Connect
<1>2. ASSUME NEW c \in Conn, start_search(c) \/ stop_search(c)
      PROVE  TypeOK'
  <2>1. PICK e \in 0..4 : send_tcp(c, e)
    BY <1>2 DEF start_search, stop_search, MATCH_REQUEST, MATCH_CANCEL
  <2>2. wire[c] \o Frame(e) \in Seq(0..4)
    BY <1>0, FrameType DEF TypeOK
  <2>3. wire' \in [Conn -> Seq(0..4)]
    BY <1>0, <2>1, <2>2 DEF TypeOK, send_tcp
  <2>4. CASE start_search(c)
    BY <1>0, <2>3, <2>4 DEF TypeOK, QueueTypeOK, start_search
  <2>5. CASE stop_search(c)
    BY <1>0, <2>3, <2>5 DEF TypeOK, QueueTypeOK, stop_search
  <2> QED
    BY <1>2, <2>4, <2>5
<1>3. ASSUME NEW c \in Conn, handle_tcp_response(c)
      PROVE  TypeOK'
  <2>1. Tail(mail[c]) \in Seq(Result)
    BY <1>0, <1>3, TailOf DEF TypeOK, handle_tcp_response
  <2> QED
    BY <1>0, <1>3, <2>1 DEF TypeOK, QueueTypeOK, handle_tcp_response
<1>4. ASSUME NEW c \in Conn, HangUp(c)
      PROVE  TypeOK'
  <2>1. <<>> \in Seq(Result)
    OBVIOUS
  <2> QED
    BY <1>0, <1>4, <2>1 DEF TypeOK, QueueTypeOK, HangUp
<1> QED
  BY <1>1, <1>2, <1>3, <1>4 DEF Client

(* What the orchestrator does keeps the types.                              *)
LEMMA OrchestratorTypes ==
  ASSUME IndInv, Orchestrator
  PROVE  TypeOK'
<1> USE DEF clients, streams, conns, buffers, recvs, sends, broker, forming, pq, history
<1>0. TypeOK /\ EventsAreDue /\ FreeIsClean /\ SignalsMatchQueues
  BY DEF IndInv
<1>q. /\ recv_queue \in Seq(Fd) /\ send_queue \in Seq(Fd)
      /\ q_session_man \in Seq(Request) /\ q_orch \in Seq(Result)
      /\ wire \in [Conn -> Seq(0..4)] /\ input \in [Fd -> Seq(0..4)]
  BY <1>0 DEF TypeOK
<1>o. /\ owner \in [Fd -> Conn \union {None}] /\ output \in [Fd -> Result \union {None}]
      /\ reading \in SUBSET Fd /\ refused \in SUBSET Fd /\ batch \in SUBSET Event
      /\ recv_eventfd \in Nat /\ send_eventfd \in Nat
  BY <1>0 DEF TypeOK
<1>v. overflow \in BOOLEAN
  BY <1>0 DEF TypeOK
<1>b. batch' \in SUBSET Event => (UNCHANGED <<clients, streams, conns, buffers, recvs, sends,
                                          broker, forming, pq, history>> => TypeOK')
  BY <1>0 DEF TypeOK, QueueTypeOK
<1>1. CASE epoll_wait
  <2>1. ReadyEvents \subseteq Event
    <3>1. SUFFICES ASSUME NEW e \in ReadyEvents PROVE e \in Event
      OBVIOUS
    <3>2. \/ e \in {<<"listen", None>>, <<"orch", None>>, <<"send", None>>, <<"recv", None>>}
          \/ \E f \in Owned : e = <<"hup", f>>
          \/ \E f \in reading : e = <<"in", f>>
      BY DEF ReadyEvents
    <3> QED
      BY <1>o, <3>2 DEF Event, Owned
  <2> QED
    BY <1>1, <1>b, <2>1 DEF epoll_wait
<1>2. CASE accept_connections
  <2>1. backlog \in Seq(Conn) /\ backlog # <<>>
    BY <1>0, <1>2 DEF TypeOK, accept_connections
  <2>2. Head(backlog) \in Conn /\ Tail(backlog) \in Seq(Conn)
    BY <2>1, TailOf
  <2>3. batch' \in SUBSET Event
    <3>1. <<"accepting", None>> \in Event
      BY DEF Event
    <3> QED
      BY <1>0, <1>2, <3>1 DEF TypeOK, accept_connections
  <2>4. PICK f \in Fd : AcceptOn(f)
    BY <1>2 DEF accept_connections
  <2>5. owner' \in [Fd -> Conn \union {None}] /\ fdOf' \in [Conn -> Fd \union {None}]
        /\ reading' \in SUBSET Fd
    BY <1>0, <2>2, <2>4 DEF TypeOK, AcceptOn
  <2> QED
    BY <1>0, <1>2, <2>2, <2>3, <2>5 DEF TypeOK, QueueTypeOK, accept_connections
<1>3. CASE process_broker
  <2>1. /\ <<"orch", None>> \in batch /\ batch' \in SUBSET Event
        /\ q_orch' = Tail(q_orch) /\ orch_eventfd' = orch_eventfd - 1
    BY <1>0, <1>3 DEF TypeOK, process_broker, Takes
  <2>2. q_orch # <<>> /\ orch_eventfd > 0
    BY <1>0, <2>1 DEF TypeOK, EventsAreDue, SignalsMatchQueues
  <2>3. Head(q_orch) \in Result /\ Tail(q_orch) \in Seq(Result)
    BY <1>0, <2>2, TailOf DEF TypeOK
  <2>4. Head(q_orch).fd \in Fd
    BY <2>3 DEF Result
  <2>5. orch_eventfd' \in Nat
    BY <1>0, <2>1, <2>2 DEF TypeOK
  <2>6. /\ output' \in [Fd -> Result \union {None}] /\ send_queue' \in Seq(Fd)
        /\ send_eventfd' \in Nat /\ overflow' \in BOOLEAN
    <3>1. CASE ~OutputFree(Head(q_orch).fd)
      BY <1>0, <1>3, <3>1 DEF TypeOK, process_broker
    <3>2. CASE OutputFree(Head(q_orch).fd)
      <4>1. Append(send_queue, Head(q_orch).fd) \in Seq(Fd)
        BY <1>q, <2>4
      <4>2. output' \in [Fd -> Result \union {None}]
        BY <1>o, <1>3, <2>3, <3>2 DEF process_broker
      <4>3. send_queue' \in Seq(Fd) /\ send_eventfd' \in Nat
        <5>1. /\ \/ send_queue' = Append(send_queue, Head(q_orch).fd)
                 \/ send_queue' = send_queue
              /\ send_eventfd' = send_eventfd + 1
          BY <1>3, <3>2 DEF process_broker, PushSend
        <5>2. send_queue' \in Seq(Fd)
          <6>1. send_queue \in Seq(Fd)
            BY <1>q
          <6> QED
            BY <4>1, <5>1, <6>1
        <5>3. send_eventfd' \in Nat
          BY <1>o, <5>1
        <5> QED
          BY <5>2, <5>3
      <4>4. overflow' \in BOOLEAN
        BY <1>3, <3>2 DEF process_broker, PushSend
      <4> QED
        BY <4>2, <4>3, <4>4
    <3> QED
      BY <3>1, <3>2
  <2> QED
    BY <1>0, <1>3, <2>1, <2>3, <2>5, <2>6 DEF TypeOK, QueueTypeOK, process_broker
<1>4. CASE process_usr_request
  <2>1. /\ <<"recv", None>> \in batch /\ batch' \in SUBSET Event
        /\ recv_eventfd' = recv_eventfd - 1
    BY <1>0, <1>4 DEF TypeOK, process_usr_request, Takes
  <2>2. recv_eventfd' \in Nat
    BY <1>0, <2>1 DEF TypeOK, EventsAreDue
  <2>3. CASE recv_queue = <<>> \/ owner[Head(recv_queue)] = None
    <3>1. recv_queue' \in Seq(Fd)
      <4>1. CASE recv_queue = <<>>
        BY <1>0, <1>4, <4>1 DEF TypeOK, process_usr_request
      <4>2. CASE recv_queue # <<>>
        <5>1. recv_queue' = Tail(recv_queue)
          BY <1>4, <2>3, <4>2 DEF process_usr_request
        <5> QED
          BY <1>q, <4>2, <5>1, TailOf
      <4> QED
        BY <4>1, <4>2
    <3>2. UNCHANGED <<input, reading, q_session_man, matchmaker_eventfd, refused>>
      BY <1>4, <2>3 DEF process_usr_request
    <3> QED
      BY <1>0, <1>4, <2>1, <2>2, <3>1, <3>2 DEF TypeOK, QueueTypeOK, process_usr_request
  <2>4. CASE ~(recv_queue = <<>> \/ owner[Head(recv_queue)] = None)
    <3> DEFINE g == Head(recv_queue)
    <3>1. g \in Fd /\ Tail(recv_queue) \in Seq(Fd)
      BY <1>0, <2>4, TailOf DEF TypeOK
    <3>2. owner[g] \in Conn
      BY <1>0, <2>4, <3>1 DEF TypeOK
    <3>3. /\ recv_queue' = Tail(recv_queue) /\ input' = [input EXCEPT ![g] = <<>>]
          /\ reading' = reading \/ reading' = reading \union {g}
          /\ refused' = refused \/ refused' = refused \union {g}
          /\ matchmaker_eventfd' = matchmaker_eventfd
             \/ matchmaker_eventfd' = matchmaker_eventfd + 1
      BY <1>4, <2>4 DEF process_usr_request
    <3>4. \/ q_session_man' = q_session_man
          \/ \E e \in EventType(input[g]) : q_session_man' =
               Append(q_session_man, [player_id |-> owner[g], fd |-> g, event_type |-> e])
      BY <1>4, <2>4 DEF process_usr_request
    <3>5. EventType(input[g]) \subseteq 0..4
      <4>1. input[g] \in Seq(0..4)
        BY <1>0, <3>1 DEF TypeOK
      <4> HIDE DEF g
      <4>2. input[g] # <<>> => input[g][1] \in 0..4
        BY <4>1, TailOf
      <4> QED
        BY <4>2 DEF EventType, MATCH_REQUEST, MATCH_CANCEL, OtherEvent
    <3> HIDE DEF g
    <3>6. q_session_man' \in Seq(Request)
      <4>1. ASSUME NEW e \in 0..4
            PROVE  Append(q_session_man, [player_id |-> owner[g], fd |-> g, event_type |-> e])
                     \in Seq(Request)
        <5>1. [player_id |-> owner[g], fd |-> g, event_type |-> e] \in Request
          BY <3>1, <3>2 DEF Request
        <5> QED
          BY <1>q, <5>1
      <4> QED
        BY <1>q, <3>4, <3>5, <4>1
    <3>7. /\ input' \in [Fd -> Seq(0..4)] /\ reading' \in SUBSET Fd /\ refused' \in SUBSET Fd
          /\ matchmaker_eventfd' \in Nat /\ recv_queue' \in Seq(Fd)
      BY <1>0, <3>1, <3>3 DEF TypeOK
    <3> QED
      BY <1>0, <1>4, <2>1, <2>2, <3>6, <3>7 DEF TypeOK, QueueTypeOK, process_usr_request
  <2> QED
    BY <2>3, <2>4
<1>5. CASE NothingToSend
  <2>1. /\ <<"send", None>> \in batch /\ batch' \in SUBSET Event
        /\ send_eventfd' = send_eventfd - 1
    BY <1>0, <1>5 DEF TypeOK, NothingToSend, Takes
  <2>2. send_eventfd' \in Nat
    BY <1>0, <2>1 DEF TypeOK, EventsAreDue
  <2>3. send_queue' \in Seq(Fd)
    <3>1. \/ send_queue' = send_queue
          \/ send_queue # <<>> /\ send_queue' = Tail(send_queue)
      BY <1>5 DEF NothingToSend
    <3>2. send_queue # <<>> => Tail(send_queue) \in Seq(Fd)
      BY <1>q, TailOf
    <3> QED
      BY <1>q, <3>1, <3>2
  <2> QED
    BY <1>0, <1>5, <2>1, <2>2, <2>3 DEF TypeOK, QueueTypeOK, NothingToSend
<1>6. ASSUME NEW f \in Fd, SendAll(f) \/ SendPart(f) \/ SendFails(f)
      PROVE  TypeOK'
  <2>1. /\ <<"send", None>> \in batch /\ batch' \in SUBSET Event
        /\ send_queue # <<>> /\ output[f] # None
    BY <1>0, <1>6 DEF TypeOK, SendAll, SendPart, SendFails, Sends, Takes
  <2>2. send_eventfd - 1 \in Nat /\ send_eventfd \in Nat
    BY <1>0, <2>1 DEF TypeOK, EventsAreDue
  <2>3. Tail(send_queue) \in Seq(Fd) /\ Append(Tail(send_queue), f) \in Seq(Fd)
    <3>1. Tail(send_queue) \in Seq(Fd)
      BY <1>0, <2>1, TailOf DEF TypeOK
    <3> QED
      BY <3>1
  <2>4. output[f] \in Result /\ owner[f] \in Conn
    BY <1>0, <2>1 DEF TypeOK, FreeIsClean
  <2>5. Append(mail[owner[f]], output[f]) \in Seq(Result)
    BY <1>0, <2>4 DEF TypeOK
  <2>6. CASE SendAll(f)
    <3>1. mail' \in [Conn -> Seq(Result)] /\ output' \in [Fd -> Result \union {None}]
      BY <1>0, <2>4, <2>5, <2>6 DEF TypeOK, SendAll
    <3>2. send_queue' \in Seq(Fd) /\ send_eventfd' \in Nat
      BY <2>2, <2>3, <2>6 DEF SendAll
    <3> QED
      BY <1>0, <2>1, <2>6, <3>1, <3>2 DEF TypeOK, QueueTypeOK, SendAll
  <2>7. CASE SendPart(f)
    <3>1. send_queue' \in Seq(Fd) /\ send_eventfd' \in Nat /\ overflow' \in BOOLEAN
      BY <2>2, <2>3, <2>7 DEF SendPart, PushSend
    <3> QED
      BY <1>0, <2>1, <2>7, <3>1 DEF TypeOK, QueueTypeOK, SendPart
  <2>8. CASE SendFails(f)
    <3>1. send_queue' \in Seq(Fd) /\ send_eventfd' \in Nat
      BY <2>2, <2>3, <2>8 DEF SendFails
    <3> QED
      BY <1>0, <2>1, <2>8, <3>1 DEF TypeOK, QueueTypeOK, SendFails
  <2> QED
    BY <1>6, <2>6, <2>7, <2>8
<1>7. ASSUME NEW f \in Fd, read_incoming_data(f)
      PROVE  TypeOK'
  <2>1. <<"in", f>> \in batch /\ batch' \in SUBSET Event
    BY <1>0, <1>7 DEF TypeOK, read_incoming_data, Takes
  <2>2. owner[f] \in Conn
    BY <1>0, <1>o, <2>1 DEF EventsAreDue, FreeIsClean
  <2>3. PICK n \in 1..SEG :
          LET buffered == input[f] \o SubSeq(wire[owner[f]], 1, n)
          IN /\ n <= Len(wire[owner[f]])
             /\ wire' = [wire EXCEPT ![owner[f]] = SubSeq(@, n + 1, Len(@))]
             /\ input' = [input EXCEPT ![f] = buffered]
             /\ IF Len(buffered) = SEG
                THEN PushRecv(f) /\ reading' = reading \ {f}
                ELSE UNCHANGED <<recvs, reading, overflow>>
    BY <1>7 DEF read_incoming_data
  <2>4. wire[owner[f]] \in Seq(0..4) /\ input[f] \in Seq(0..4) /\ n \in Nat /\ n >= 1
    BY <1>q, <2>2, LobbyAssumption
  <2>5. /\ SubSeq(wire[owner[f]], 1, n) \in Seq(0..4)
        /\ SubSeq(wire[owner[f]], n + 1, Len(wire[owner[f]])) \in Seq(0..4)
    BY <2>3, <2>4, PartOf
  <2>6. wire' \in [Conn -> Seq(0..4)] /\ input' \in [Fd -> Seq(0..4)]
    <3>1. input[f] \o SubSeq(wire[owner[f]], 1, n) \in Seq(0..4)
      BY <2>4, <2>5
    <3>2. /\ wire' = [wire EXCEPT ![owner[f]] =
                       SubSeq(wire[owner[f]], n + 1, Len(wire[owner[f]]))]
          /\ input' = [input EXCEPT ![f] = input[f] \o SubSeq(wire[owner[f]], 1, n)]
      BY <2>3
    <3> QED
      BY <1>q, <2>2, <2>5, <3>1, <3>2
  <2>7. /\ recv_queue' \in Seq(Fd) /\ recv_eventfd' \in Nat /\ overflow' \in BOOLEAN
        /\ reading' \in SUBSET Fd
    <3>1. Append(recv_queue, f) \in Seq(Fd)
      BY <1>q
    <3>2. \/ PushRecv(f) /\ reading' = reading \ {f}
          \/ UNCHANGED <<recv_queue, recv_eventfd, reading, overflow>>
      BY <2>3
    <3>3. recv_queue' \in Seq(Fd) /\ recv_eventfd' \in Nat /\ reading' \in SUBSET Fd
      <4>1. /\ \/ recv_queue' = Append(recv_queue, f)
               \/ recv_queue' = recv_queue
            /\ \/ recv_eventfd' = recv_eventfd + 1
               \/ recv_eventfd' = recv_eventfd
            /\ reading' \subseteq reading
        BY <3>2 DEF PushRecv
      <4>2. recv_queue' \in Seq(Fd)
        <5>1. recv_queue \in Seq(Fd)
          BY <1>q
        <5> QED
          BY <3>1, <4>1, <5>1
      <4>3. recv_eventfd' \in Nat
        BY <1>o, <4>1
      <4>4. reading' \in SUBSET Fd
        BY <1>o, <4>1
      <4> QED
        BY <4>2, <4>3, <4>4
    <3>4. overflow' \in BOOLEAN
      BY <1>v, <3>2 DEF PushRecv
    <3> QED
      BY <3>3, <3>4
  <2> QED
    BY <1>0, <1>7, <2>1, <2>6, <2>7 DEF TypeOK, QueueTypeOK, read_incoming_data
<1>8. ASSUME NEW f \in Fd, ReadFails(f)
      PROVE  TypeOK'
  BY <1>0, <1>8, <1>b DEF TypeOK, ReadFails, Takes
<1>9. ASSUME NEW f \in Fd, disconnect_handler(f)
      PROVE  TypeOK'
  <2>1. <<"hup", f>> \in batch /\ batch' \in SUBSET Event
    BY <1>0, <1>9 DEF TypeOK, disconnect_handler, Takes
  <2>2. /\ owner' \in [Fd -> Conn \union {None}] /\ input' \in [Fd -> Seq(0..4)]
        /\ output' \in [Fd -> Result \union {None}] /\ reading' \in SUBSET Fd
        /\ refused' \in SUBSET Fd /\ wire' \in [Conn -> Seq(0..4)]
    <3>1. <<>> \in Seq(0..4)
      OBVIOUS
    <3> QED
      BY <1>o, <1>q, <1>9, <3>1 DEF disconnect_handler
  <2> QED
    BY <1>0, <1>9, <2>1, <2>2 DEF TypeOK, QueueTypeOK, disconnect_handler
<1> QED
  BY <1>1, <1>2, <1>3, <1>4, <1>5, <1>6, <1>7, <1>8, <1>9 DEF Orchestrator

(* What the matchmaker does keeps the types.                                *)
LEMMA MatchmakerTypes ==
  ASSUME IndInv, Matchmaker \/ PortReturned
  PROVE  TypeOK'
<1> USE DEF outside, orchestrator, clients, streams, conns, buffers, recvs, sends, history
<1>0. TypeOK /\ MatchmakerPlace /\ SignalsMatchQueues /\ QueueTypeOK
  BY DEF IndInv, TypeOK
<1>q. /\ q_session_man \in Seq(Request) /\ q_orch \in Seq(Result) /\ match \in Seq(Player)
      /\ matchmaker_eventfd \in Nat /\ orch_eventfd \in Nat /\ form_match_eventfd \in Nat
      /\ mbatch \in SUBSET {"msg", "form"} /\ ports \in 0..PORTS_LIMIT
      /\ mpc \in {"handle", "form", "notify"}
  BY <1>0 DEF TypeOK
<1>v. found \in BOOLEAN
  BY <1>0 DEF TypeOK
<1>p. PORTS_LIMIT \in Nat
  BY LobbyAssumption
<1>r. ASSUME NEW p, p.player_id \in Conn, p.fd \in Fd, NEW e \in {MATCH_FOUND, MATCH_NOT_FOUND},
             PushResult(p, e)
      PROVE  q_orch' \in Seq(Result) /\ orch_eventfd' \in Nat
  <2>1. [player_id |-> p.player_id, fd |-> p.fd, event_type |-> e] \in Result
    BY <1>r DEF Result
  <2>2. Append(q_orch, [player_id |-> p.player_id, fd |-> p.fd, event_type |-> e]) \in Seq(Result)
    BY <1>q, <2>1
  <2>3. q_orch' \in Seq(Result)
    BY <1>q, <1>r, <2>2 DEF PushResult
  <2>4. orch_eventfd' \in Nat
    BY <1>q, <1>r DEF PushResult
  <2> QED
    BY <2>3, <2>4
<1>1. CASE NextRound
  <2>1. form_match_eventfd' \in Nat /\ mbatch' \in SUBSET {"msg", "form"}
    BY <1>q, <1>1 DEF NextRound
  <2> QED
    BY <1>0, <1>1, <2>1 DEF TypeOK, QueueTypeOK, NextRound, broker, pq
<1>2. CASE process_broker_msg
  <2>1. /\ "msg" \in mbatch /\ mbatch' \subseteq mbatch
        /\ matchmaker_eventfd' = matchmaker_eventfd - 1 /\ q_session_man' = Tail(q_session_man)
    BY <1>2 DEF process_broker_msg, TakesMessage
  <2>2. matchmaker_eventfd > 0 /\ q_session_man # <<>>
    BY <1>0, <1>q, <2>1 DEF MatchmakerPlace, SignalsMatchQueues
  <2> DEFINE msg == Head(q_session_man)
  <2>3. msg \in Request /\ Tail(q_session_man) \in Seq(Request)
    BY <1>q, <2>2, TailOf
  <2>4. ProcessRequest(msg) \/ ProcessCancel(msg) \/ ProcessUnknown(msg)
    BY <1>2 DEF process_broker_msg
  <2> HIDE DEF msg
  <2>5. msg.fd \in Fd /\ msg.player_id \in Conn
    BY <2>3 DEF Request
  <2>6. QueueTypeOK'
    <3>1. CASE UNCHANGED pq
      BY <1>0, <3>1 DEF QueueTypeOK, pq
    <3>2. CASE pq_add_player(msg.fd, msg.player_id) \/ pq_remove_player(msg.fd)
      BY <1>0, <2>5, <3>2, QueueTypes
    <3> QED
      BY <2>4, <3>1, <3>2 DEF ProcessRequest, ProcessCancel, ProcessUnknown, pq
  <2>7. q_orch' \in Seq(Result) /\ orch_eventfd' \in Nat
    <3>1. CASE UNCHANGED <<q_orch, orch_eventfd>>
      BY <1>q, <3>1
    <3>2. CASE PushResult(msg, MATCH_NOT_FOUND)
      BY <1>r, <2>5, <3>2
    <3> QED
      BY <2>4, <3>1, <3>2 DEF ProcessRequest, ProcessCancel, ProcessUnknown
  <2>8. matchmaker_eventfd' \in Nat /\ q_session_man' \in Seq(Request)
    BY <1>q, <2>1, <2>2, <2>3
  <2> QED
    BY <1>0, <1>2, <1>q, <2>1, <2>6, <2>7, <2>8 DEF TypeOK, process_broker_msg, TakesMessage
<1>3. CASE form_match
  <2>1. form_match_eventfd' \in Nat /\ mpc' \in {"handle", "form", "notify"}
        /\ mbatch' \in SUBSET {"msg", "form"}
    BY <1>0, <1>q, <1>3 DEF form_match, MatchmakerPlace
  <2> QED
    BY <1>0, <1>3, <2>1 DEF TypeOK, QueueTypeOK, form_match, broker, pq
<1>4. CASE PopPlayer
  <2>1. mpc = "form" /\ ports > 0
    BY <1>0, <1>4 DEF PopPlayer, MatchmakerPlace
  <2>2. QueueTypeOK'
    <3>1. CASE UNCHANGED pq
      BY <1>0, <3>1 DEF QueueTypeOK, pq
    <3>2. CASE \E p \in players : pop_from_queue(p)
      BY <1>0, <3>2, QueueTypes
    <3> QED
      BY <1>4, <3>1, <3>2 DEF PopPlayer
  <2>3. match' \in Seq(Player)
    <3>1. \/ match' = <<>>
          \/ \E p \in players : match' = Append(match, p)
      BY <1>4 DEF PopPlayer
    <3>2. players \subseteq Player
      BY <1>0 DEF QueueTypeOK
    <3>3. \A p \in Player : Append(match, p) \in Seq(Player)
      BY <1>q
    <3>4. <<>> \in Seq(Player)
      OBVIOUS
    <3> QED
      BY <3>1, <3>2, <3>3, <3>4
  <2>4. mpc' \in {"handle", "form", "notify"} /\ ports' \in 0..PORTS_LIMIT
    BY <1>p, <1>q, <1>4, <2>1 DEF PopPlayer, Spawn
  <2>5. found' \in BOOLEAN
    BY <1>v, <1>4 DEF PopPlayer, Spawn
  <2> QED
    BY <1>0, <1>4, <2>2, <2>3, <2>4, <2>5 DEF TypeOK, PopPlayer, broker
<1>5. CASE Notify
  <2>1. match # <<>> /\ match' = Tail(match)
    BY <1>0, <1>5 DEF Notify, MatchmakerPlace
  <2>2. Head(match) \in Player /\ match' \in Seq(Player)
    BY <1>q, <2>1, TailOf
  <2>3. Head(match).player_id \in Conn /\ Head(match).fd \in Fd
    BY <2>2 DEF Player
  <2>4. PushResult(Head(match), MATCH_FOUND) \/ PushResult(Head(match), MATCH_NOT_FOUND)
    BY <1>5 DEF Notify
  <2>5. q_orch' \in Seq(Result) /\ orch_eventfd' \in Nat
    BY <1>r, <2>3, <2>4
  <2>6. mpc' \in {"handle", "form", "notify"}
    BY <1>q, <1>5 DEF Notify
  <2>7. found' \in BOOLEAN
    BY <1>v, <1>5 DEF Notify
  <2> QED
    BY <1>0, <1>5, <2>2, <2>5, <2>6, <2>7 DEF TypeOK, QueueTypeOK, Notify, pq
<1>6. CASE PortReturned
  <2>1. ports' \in 0..PORTS_LIMIT
    BY <1>p, <1>q, <1>6 DEF PortReturned
  <2> QED
    BY <1>0, <1>6, <2>1 DEF TypeOK, QueueTypeOK, PortReturned, broker, pq
<1> QED
  BY <1>1, <1>2, <1>3, <1>4, <1>5, <1>6 DEF Matchmaker

(* Every step keeps the types.                                             *)
LEMMA TypeStep ==
  ASSUME IndInv, [Next]_vars
  PROVE  TypeOK'
<1>1. CASE UNCHANGED vars
  BY <1>1 DEF IndInv, TypeOK, QueueTypeOK, vars, clients, streams, conns, buffers, recvs,
     sends, broker, forming, pq, history
<1> QED
  BY <1>1, ClientTypes, OrchestratorTypes, MatchmakerTypes DEF Next

(* At the start all is empty.                                              *)
LEMMA InitInd == Init => IndInv
<1> SUFFICES ASSUME Init PROVE IndInv
  OBVIOUS
<1> USE DEF Init
<1>1. TypeOK
  <2>1. QueueTypeOK
    BY QueueAssumption DEF pq_create, QueueTypeOK
  <2>2. /\ <<>> \in Seq(0..4) /\ <<>> \in Seq(Result) /\ <<>> \in Seq(Request)
        /\ <<>> \in Seq(Conn) /\ <<>> \in Seq(Fd) /\ <<>> \in Seq(Player)
    OBVIOUS
  <2>3. PORTS_LIMIT \in 0..PORTS_LIMIT
    BY LobbyAssumption
  <2> QED
    BY <2>1, <2>2, <2>3 DEF TypeOK
<1>2. SignalsMatchQueues /\ MatchmakerPlace
  BY DEF SignalsMatchQueues, MatchmakerPlace
<1>3. EventsAreDue /\ FreeIsClean /\ BacklogIsNew
  BY DEF EventsAreDue, FreeIsClean, BacklogIsNew
<1>4. OthersAreDown /\ OutputWillBeSent /\ ReadingResumes
  BY DEF OthersAreDown, OutputWillBeSent, ReadingResumes, Owned
<1>5. IdentityTravels /\ OwnResultWhileUp
  BY DEF IdentityTravels, Names, OwnResultWhileUp, pq_create
<1> QED
  BY <1>1, <1>2, <1>3, <1>4, <1>5 DEF IndInv

-----------------------------------------------------------------------------
(* The inductive invariant: what each thread and the clients know of the    *)
(* others through descriptors, events and queues.                           *)
THEOREM Inductive == Spec => []IndInv
<1>1. IndInv /\ [Process]_<<vars, running>> => IndInv'
  BY StepOfProcess, TypeStep, SignalsStep, PlaceStep, EventsStep, FreeStep, BacklogStep,
     OthersStep, IdentityStep, OutputStep, ReadingStep, OwnResultStep DEF IndInv
<1> QED
  BY <1>1, InitInd, PTL DEF Spec

(* Every variable keeps its type: no handler takes from an empty queue or   *)
(* runs for a descriptor that its batch has already closed.                 *)
THEOREM TypeCorrect == Spec => []TypeOK
<1>1. IndInv => TypeOK
  BY DEF IndInv
<1> QED
  BY <1>1, Inductive, PTL

(* Every signal of a broker queue finds its message, and no descriptor      *)
(* waits in a descriptor queue unsignalled.                                 *)
THEOREM SignalsCorrect == Spec => []SignalsMatchQueues
<1>1. IndInv => SignalsMatchQueues
  BY DEF IndInv
<1> QED
  BY <1>1, Inductive, PTL

(* check_match_readiness never leaves more than one signal.                 *)
THEOREM FormSignalledOnce == Spec => []OneFormSignal
<1>1. IndInv => OneFormSignal
  BY DEF IndInv, MatchmakerPlace, OneFormSignal
<1> QED
  BY <1>1, Inductive, PTL

(* A buffered result is always on its way out.                              *)
THEOREM ResultsKeepMoving == Spec => []OutputWillBeSent
<1>1. IndInv => OutputWillBeSent
  BY DEF IndInv
<1> QED
  BY <1>1, Inductive, PTL

(* A connection that is not read has a request that will resume it, or met  *)
(* a full queue.                                                            *)
THEOREM ReadersResume == Spec => []ReadingResumes
<1>1. IndInv => ReadingResumes
  BY DEF IndInv
<1> QED
  BY <1>1, Inductive, PTL

(* Two clients that stay never get each other's results, however            *)
(* descriptors are handed out and results delayed.                          *)
THEOREM ResultsStayWithTheLiving == Spec => []OwnResultWhileUp
<1>1. IndInv => OwnResultWhileUp
  BY DEF IndInv
<1> QED
  BY <1>1, Inductive, PTL

=============================================================================
