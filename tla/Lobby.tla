-------------------------------- MODULE Lobby -------------------------------
(***************************************************************************)
(* The supervisor's two threads and their clients.  The orchestrator       *)
(* (src/server/supervisor/src/orchestrator/) accepts connections, collects *)
(* requests, hands them to the matchmaker and sends its results back; the  *)
(* matchmaker (src/server/supervisor/src/matchmaker/matchmaker.c) queues   *)
(* players and forms matches.  They meet in the broker (broker.c): two     *)
(* bounded queues, each with a semaphore eventfd.  A connection is known   *)
(* by its file descriptor, and the kernel hands a closed one out again.    *)
(*                                                                         *)
(* A thread takes a batch of ready events from epoll_wait and runs one     *)
(* handler per event, each a step, in any order; form_match is a step per  *)
(* player popped and per result sent.  A push and the write of its eventfd *)
(* are one step (SpscQueue has the push in detail): the other thread pops  *)
(* only on the event.  A client request is SEG parts long, its event type  *)
(* in the first and zeros in the rest, and may be read in pieces.          *)
(*                                                                         *)
(* The clients follow lobby.gd: one search at a time, cancelled at most    *)
(* once.  A client that lost its connection keeps its lobby, so that a new *)
(* connection may begin in the middle of a search.                         *)
(***************************************************************************)
EXTENDS PlayersQueue

CONSTANTS
  None,
  PLAYERS_PER_MATCH,
  PORTS_LIMIT,
  BROKER_ROOM,        \* what a broker queue holds: BROKER_QUEUE_CAPACITY - 1
  FD_QUEUE_CAPACITY,
  SEG,                \* parts of a request: TCP_SEGMENT_SIZE
  MaxRequest,         \* bound: requests sent
  MaxHangUp           \* bound: connections lost

ASSUME LobbyAssumption ==
  /\ Fd \subseteq Nat /\ Fd # {} /\ None \notin Fd \union Conn
  /\ PLAYERS_PER_MATCH \in Nat \ {0} /\ PORTS_LIMIT \in Nat
  /\ BROKER_ROOM \in Nat /\ FD_QUEUE_CAPACITY \in Nat
  /\ SEG \in Nat \ {0} /\ MaxRequest \in Nat /\ MaxHangUp \in Nat

VARIABLES
  \* clients and kernel
  peer,       \* of each connection: none, up or down
  ui,         \* of its lobby: idle, searching, cancelling or playing
  requests,   \* requests sent by all of them
  wire,       \* parts sent and not yet read by the server
  mail,       \* results received and not yet looked at
  backlog,    \* connections waiting for accept
  fdOf,       \* the descriptor a connection was accepted on
  \* orchestrator
  owner,      \* clients and buffers: the connection behind a descriptor
  input,      \* its input buffer
  output,     \* its output buffer: the result in it
  reading,    \* descriptors with EPOLLIN in their interest
  recv_queue, recv_eventfd,
  send_queue, send_eventfd,
  batch,      \* events of the last epoll_wait still to be handled
  \* broker
  q_session_man, matchmaker_eventfd,
  q_orch, orch_eventfd,
  \* matchmaker
  mpc,        \* its place in matchmaker_run_t and form_match
  mbatch,
  match,      \* players of the match being formed
  found,      \* result_event of that match is MATCH_FOUND
  ports,      \* number of free ports
  form_match_eventfd,
  \* history
  overflow,   \* a push into a descriptor queue was dropped
  refused,    \* descriptors whose request found the broker full
  heirs,      \* connections whose descriptor had an affair of another left
  \* the process
  running     \* no signal has ended it

clients == <<peer, ui, requests>>
streams == <<wire, mail>>
conns == <<backlog, fdOf, owner>>
buffers == <<input, output, reading>>
recvs == <<recv_queue, recv_eventfd>>
sends == <<send_queue, send_eventfd>>
broker == <<q_session_man, matchmaker_eventfd, q_orch, orch_eventfd>>
forming == <<mpc, mbatch, match, found, ports, form_match_eventfd>>
history == <<overflow, refused, heirs>>
vars == <<clients, streams, conns, buffers, recvs, sends, batch, broker,
          forming, pq, history>>

MATCH_REQUEST == 0
MATCH_CANCEL == 1
MATCH_FOUND == 2
MATCH_NOT_FOUND == 3
OtherEvent == 4       \* any event type that the matchmaker does not know

Request == [player_id : Conn, fd : Fd, event_type : 0..4]
Result == [player_id : Conn, fd : Fd, event_type : {MATCH_FOUND, MATCH_NOT_FOUND}]

Event == {"listen", "accepting", "orch", "send", "recv", "in", "hup"}
         \X (Fd \union {None})

Init ==
  /\ peer = [c \in Conn |-> "none"] /\ ui = [c \in Conn |-> "idle"]
  /\ requests = 0
  /\ wire = [c \in Conn |-> <<>>] /\ mail = [c \in Conn |-> <<>>]
  /\ backlog = <<>> /\ fdOf = [c \in Conn |-> None]
  /\ owner = [f \in Fd |-> None] /\ input = [f \in Fd |-> <<>>]
  /\ output = [f \in Fd |-> None] /\ reading = {}
  /\ recv_queue = <<>> /\ recv_eventfd = 0
  /\ send_queue = <<>> /\ send_eventfd = 0
  /\ batch = {}
  /\ q_session_man = <<>> /\ matchmaker_eventfd = 0
  /\ q_orch = <<>> /\ orch_eventfd = 0
  /\ mpc = "handle" /\ mbatch = {} /\ match = <<>> /\ found = FALSE
  /\ ports = PORTS_LIMIT /\ form_match_eventfd = 0
  /\ pq_create
  /\ overflow = FALSE /\ refused = {} /\ heirs = {}
  /\ running = TRUE

-----------------------------------------------------------------------------
(* Clients *)

Owned == {f \in Fd : owner[f] # None}

Lost == {c \in Conn : peer[c] = "down"}

\* The TCP handshake.  After a loss the lobby may still be in a search.  Bound:
\* connections never outnumber the descriptors; in the code accept4 would fail
\* and cc_accept_connection try again for good.
Connect(c) ==
  /\ peer[c] = "none" /\ Len(backlog) + Cardinality(Owned) < Cardinality(Fd)
  /\ peer' = [peer EXCEPT ![c] = "up"]
  /\ \/ UNCHANGED ui
     \/ Lost # {} /\ \E s \in {"searching", "cancelling"} : ui' = [ui EXCEPT ![c] = s]
  /\ backlog' = Append(backlog, c)
  /\ UNCHANGED <<requests, streams, fdOf, owner, buffers, recvs, sends, batch,
                 broker, forming, pq, history>>

Frame(e) == [i \in 1..SEG |-> IF i = 1 THEN e ELSE 0]

send_tcp(c, e) == wire' = [wire EXCEPT ![c] = @ \o Frame(e)]

\* A player who has played comes back to the lobby on the same connection.
start_search(c) ==
  /\ peer[c] = "up" /\ ui[c] \in {"idle", "playing"} /\ requests < MaxRequest
  /\ send_tcp(c, MATCH_REQUEST)
  /\ ui' = [ui EXCEPT ![c] = "searching"]
  /\ requests' = requests + 1
  /\ UNCHANGED <<peer, mail, conns, buffers, recvs, sends, batch, broker,
                 forming, pq, history>>

\* The button stays disabled until the answer.
stop_search(c) ==
  /\ peer[c] = "up" /\ ui[c] = "searching" /\ requests < MaxRequest
  /\ send_tcp(c, MATCH_CANCEL)
  /\ ui' = [ui EXCEPT ![c] = "cancelling"]
  /\ requests' = requests + 1
  /\ UNCHANGED <<peer, mail, conns, buffers, recvs, sends, batch,
                 broker, forming, pq, history>>

\* A result is looked at only while searching: one that comes at another
\* time waits for the next search.
handle_tcp_response(c) ==
  /\ peer[c] = "up" /\ ui[c] \in {"searching", "cancelling"} /\ mail[c] # <<>>
  /\ ui' = [ui EXCEPT ![c] =
              IF Head(mail[c]).event_type = MATCH_FOUND THEN "playing" ELSE "idle"]
  /\ mail' = [mail EXCEPT ![c] = Tail(@)]
  /\ UNCHANGED <<peer, requests, wire, conns, buffers, recvs, sends, batch,
                 broker, forming, pq, history>>

\* The client quits or its network fails: what it had received is gone.
HangUp(c) ==
  /\ peer[c] = "up" /\ Cardinality(Lost) < MaxHangUp
  /\ peer' = [peer EXCEPT ![c] = "down"]
  /\ ui' = [ui EXCEPT ![c] = "idle"]
  /\ mail' = [mail EXCEPT ![c] = <<>>]
  /\ UNCHANGED <<requests, wire, conns, buffers, recvs, sends, batch,
                 broker, forming, pq, history>>

-----------------------------------------------------------------------------
(* Orchestrator *)

ReadyEvents ==
  LET Signalled(name, n) == IF n > 0 THEN {<<name, None>>} ELSE {}
      gone == {f \in Owned : peer[owner[f]] = "down"}
  IN Signalled("listen", Len(backlog)) \union Signalled("orch", orch_eventfd)
     \union Signalled("send", send_eventfd) \union Signalled("recv", recv_eventfd)
     \union {<<"hup", f>> : f \in gone}
     \union {<<"in", f>> : f \in {g \in reading \ gone : wire[owner[g]] # <<>>}}

epoll_wait ==
  /\ batch = {} /\ ReadyEvents # {}
  /\ batch' = ReadyEvents
  /\ UNCHANGED <<clients, streams, conns, buffers, recvs, sends, broker, forming,
                 pq, history>>

\* The handler of event e runs; none does while connections are accepted.
Takes(e) ==
  /\ e \in batch /\ <<"accepting", None>> \notin batch
  /\ batch' = batch \ {e}

\* The kernel gives out the lowest free descriptor, with every event enabled.
AcceptOn(f) ==
  /\ f \in Fd \ Owned /\ \A g \in Fd \ Owned : f <= g
  /\ owner' = [owner EXCEPT ![f] = Head(backlog)]
  /\ fdOf' = [fdOf EXCEPT ![Head(backlog)] = f]
  /\ reading' = reading \union {f}

\* What is still under way about a descriptor: nobody tells the matchmaker of a
\* disconnect, and recv_queue and the broker keep what they have.
LeftOver(f) ==
  \/ \E i \in DOMAIN recv_queue : recv_queue[i] = f
  \/ \E p \in players : p.fd = f
  \/ \E i \in DOMAIN match : match[i].fd = f
  \/ \E i \in DOMAIN q_session_man : q_session_man[i].fd = f
  \/ \E i \in DOMAIN q_orch : q_orch[i].fd = f

\* One turn of the loop of cc_accept_connection, which ends with the backlog.
accept_connections ==
  /\ \/ <<"listen", None>> \in batch /\ <<"accepting", None>> \notin batch
     \/ <<"accepting", None>> \in batch
  /\ backlog # <<>>
  /\ \E f \in Fd : AcceptOn(f) /\ heirs' = IF LeftOver(f) THEN heirs \union {Head(backlog)}
                                          ELSE heirs
  /\ backlog' = Tail(backlog)
  /\ batch' = (batch \ {<<"listen", None>>, <<"accepting", None>>}) \union
              (IF Tail(backlog) = <<>> THEN {} ELSE {<<"accepting", None>>})
  /\ UNCHANGED <<clients, streams, input, output, recvs, sends, broker, forming,
                 pq, overflow, refused>>

\* fdq_push and the write that follows it: a full queue drops the descriptor,
\* but is signalled all the same.
PushRecv(f) ==
  /\ recv_queue' = IF Len(recv_queue) < FD_QUEUE_CAPACITY
                   THEN Append(recv_queue, f) ELSE recv_queue
  /\ recv_eventfd' = recv_eventfd + 1
  /\ overflow' = (overflow \/ Len(recv_queue) >= FD_QUEUE_CAPACITY)

(* A read that overwrites what is in the buffer.                           *)
ReadOverwrites(f) ==
  /\ Takes(<<"in", f>>)
  /\ \E n \in 1..SEG :
       LET c == owner[f]
           buffered == SubSeq(wire[c], 1, n)
       IN /\ n <= Len(wire[c])
          /\ wire' = [wire EXCEPT ![c] = SubSeq(@, n + 1, Len(@))]
          /\ input' = [input EXCEPT ![f] = buffered]
          /\ IF Len(buffered) = SEG
             THEN PushRecv(f) /\ reading' = reading \ {f}
             ELSE UNCHANGED <<recvs, reading, overflow>>
  /\ UNCHANGED <<clients, mail, conns, output, sends, broker, forming, pq, refused, heirs>>

(* A read that takes a whole request and leaves EPOLLIN on.                *)
ReadGoesOn(f) ==
  /\ Takes(<<"in", f>>)
  /\ \E n \in 1..SEG :
       LET c == owner[f]
           buffered == input[f] \o SubSeq(wire[c], 1, n)
       IN /\ n <= Len(wire[c]) /\ Len(buffered) <= SEG
          /\ wire' = [wire EXCEPT ![c] = SubSeq(@, n + 1, Len(@))]
          /\ input' = [input EXCEPT ![f] = buffered]
          /\ IF Len(buffered) = SEG THEN PushRecv(f) ELSE UNCHANGED <<recvs, overflow>>
  /\ UNCHANGED <<clients, mail, conns, reading, output, sends, broker, forming, pq, refused, heirs>>

(* A read that suspends the connection although the request is not complete. *)
ReadSuspends(f) ==
  /\ Takes(<<"in", f>>)
  /\ \E n \in 1..SEG :
       LET c == owner[f]
           buffered == input[f] \o SubSeq(wire[c], 1, n)
       IN /\ n <= Len(wire[c]) /\ Len(buffered) <= SEG
          /\ wire' = [wire EXCEPT ![c] = SubSeq(@, n + 1, Len(@))]
          /\ input' = [input EXCEPT ![f] = buffered]
          /\ reading' = reading \ {f}
          /\ IF Len(buffered) = SEG THEN PushRecv(f) ELSE UNCHANGED <<recvs, overflow>>
  /\ UNCHANGED <<clients, mail, conns, output, sends, broker, forming, pq, refused, heirs>>

\* n parts of what has arrived.  A full buffer is a request: reading stops
\* until it has been processed.
read_incoming_data(f) ==
  /\ Takes(<<"in", f>>)
  /\ \E n \in 1..SEG :
       LET c == owner[f]
           buffered == input[f] \o SubSeq(wire[c], 1, n)
       IN /\ n <= Len(wire[c]) /\ Len(buffered) <= SEG
          /\ wire' = [wire EXCEPT ![c] = SubSeq(@, n + 1, Len(@))]
          /\ input' = [input EXCEPT ![f] = buffered]
          /\ IF Len(buffered) = SEG
             THEN PushRecv(f) /\ reading' = reading \ {f}
             ELSE UNCHANGED <<recvs, reading, overflow>>
  /\ UNCHANGED <<clients, mail, conns, output, sends, broker, forming, pq, refused, heirs>>

\* recv fails, for the client has hung up since epoll_wait.
ReadFails(f) ==
  /\ Takes(<<"in", f>>) /\ peer[owner[f]] = "down"
  /\ UNCHANGED <<clients, streams, conns, buffers, recvs, sends, broker, forming,
                 pq, history>>

(* A disconnect that leaves the output buffer to the next connection.      *)
DisconnectKeepsOutput(f) ==
  /\ Takes(<<"hup", f>>)
  /\ owner' = [owner EXCEPT ![f] = None]
  /\ input' = [input EXCEPT ![f] = <<>>]
  /\ reading' = reading \ {f}
  /\ refused' = refused \ {f}
  /\ wire' = [wire EXCEPT ![owner[f]] = <<>>]
  /\ UNCHANGED <<clients, mail, backlog, fdOf, output, recvs, sends, broker, forming,
                 pq, overflow, heirs>>

disconnect_handler(f) ==
  /\ Takes(<<"hup", f>>)
  /\ owner' = [owner EXCEPT ![f] = None]
  /\ input' = [input EXCEPT ![f] = <<>>]
  /\ output' = [output EXCEPT ![f] = None]
  /\ reading' = reading \ {f}
  /\ refused' = refused \ {f}
  /\ wire' = [wire EXCEPT ![owner[f]] = <<>>]
  /\ UNCHANGED <<clients, mail, backlog, fdOf, recvs, sends, broker, forming,
                 pq, overflow, heirs>>

\* The event type of a request: whatever the stack held when the buffer is
\* empty, for only the absence of a buffer is tested.
EventType(buffered) == IF buffered = <<>> THEN {MATCH_REQUEST, MATCH_CANCEL, OtherEvent}
                       ELSE {buffered[1]}

(* A request after which reading is not resumed.                           *)
RequestLeavesSuspended ==
  /\ Takes(<<"recv", None>>)
  /\ recv_eventfd' = recv_eventfd - 1
  /\ recv_queue' = IF recv_queue = <<>> THEN <<>> ELSE Tail(recv_queue)
  /\ IF recv_queue = <<>> \/ owner[Head(recv_queue)] = None
     THEN UNCHANGED <<input, q_session_man, matchmaker_eventfd>>
     ELSE LET f == Head(recv_queue) IN
          /\ input' = [input EXCEPT ![f] = <<>>]
          /\ Len(q_session_man) < BROKER_ROOM
          /\ \E e \in EventType(input[f]) : q_session_man' =
               Append(q_session_man, [player_id |-> owner[f], fd |-> f, event_type |-> e])
          /\ matchmaker_eventfd' = matchmaker_eventfd + 1
  /\ UNCHANGED <<clients, streams, conns, output, reading, sends, q_orch, orch_eventfd,
                 forming, pq, history>>

process_usr_request ==
  /\ Takes(<<"recv", None>>)
  /\ recv_eventfd' = recv_eventfd - 1
  /\ IF recv_queue = <<>> \/ owner[Head(recv_queue)] = None
     THEN /\ recv_queue' = IF recv_queue = <<>> THEN <<>> ELSE Tail(recv_queue)
          /\ UNCHANGED <<input, reading, q_session_man, matchmaker_eventfd, refused>>
     ELSE LET f == Head(recv_queue) IN
          /\ recv_queue' = Tail(recv_queue)
          /\ input' = [input EXCEPT ![f] = <<>>]
          /\ IF Len(q_session_man) < BROKER_ROOM
             THEN /\ \E e \in EventType(input[f]) : q_session_man' =
                       Append(q_session_man,
                              [player_id |-> owner[f], fd |-> f, event_type |-> e])
                  /\ matchmaker_eventfd' = matchmaker_eventfd + 1
                  /\ reading' = reading \union {f}
                  /\ UNCHANGED refused
             ELSE /\ refused' = refused \union {f}
                  /\ UNCHANGED <<reading, q_session_man, matchmaker_eventfd>>
  /\ UNCHANGED <<clients, streams, conns, output, sends, q_orch, orch_eventfd,
                 forming, pq, overflow, heirs>>

(* A push without its signal.                                              *)
PushUnsignalled(f, queue, signals) ==
  /\ send_queue' = IF Len(queue) < FD_QUEUE_CAPACITY THEN Append(queue, f) ELSE queue
  /\ send_eventfd' = signals
  /\ overflow' = (overflow \/ Len(queue) >= FD_QUEUE_CAPACITY)

\* The same for the send queue, as it is when the descriptor is pushed.
PushSend(f, queue, signals) ==
  /\ send_queue' = IF Len(queue) < FD_QUEUE_CAPACITY THEN Append(queue, f) ELSE queue
  /\ send_eventfd' = signals + 1
  /\ overflow' = (overflow \/ Len(queue) >= FD_QUEUE_CAPACITY)

OutputFree(f) == owner[f] # None /\ output[f] = None

(* A result that is buffered and not queued for sending.                   *)
BrokerForgetsToQueue ==
  /\ Takes(<<"orch", None>>)
  /\ orch_eventfd' = orch_eventfd - 1
  /\ q_orch' = Tail(q_orch)
  /\ output' = IF OutputFree(Head(q_orch).fd)
               THEN [output EXCEPT ![Head(q_orch).fd] = Head(q_orch)] ELSE output
  /\ UNCHANGED <<clients, streams, conns, input, reading, recvs, sends, q_session_man,
                 matchmaker_eventfd, forming, pq, history>>

\* The result goes to the descriptor; its player_id is not looked at.
process_broker ==
  /\ Takes(<<"orch", None>>)
  /\ orch_eventfd' = orch_eventfd - 1
  /\ q_orch' = Tail(q_orch)
  /\ LET f == Head(q_orch).fd IN
       IF OutputFree(f)
       THEN /\ output' = [output EXCEPT ![f] = Head(q_orch)]
            /\ PushSend(f, send_queue, send_eventfd)
       ELSE UNCHANGED <<output, sends, overflow>>
  /\ UNCHANGED <<clients, streams, conns, input, reading, recvs, q_session_man,
                 matchmaker_eventfd, forming, pq, refused, heirs>>

\* The descriptor at the head has nothing to send, or the queue is empty.
NothingToSend ==
  /\ Takes(<<"send", None>>)
  /\ \/ send_queue = <<>> /\ UNCHANGED send_queue
     \/ /\ send_queue # <<>> /\ output[Head(send_queue)] = None
        /\ send_queue' = Tail(send_queue)
  /\ send_eventfd' = send_eventfd - 1
  /\ UNCHANGED <<clients, streams, conns, buffers, recvs, broker, forming, pq, history>>

Sends(f) ==
  /\ Takes(<<"send", None>>)
  /\ send_queue # <<>> /\ f = Head(send_queue) /\ output[f] # None

SendsToGone(f) ==
  /\ <<"send", None>> \in batch /\ <<"accepting", None>> \notin batch
  /\ send_queue # <<>> /\ f = Head(send_queue) /\ output[f] # None
  /\ peer[owner[f]] = "down"

\* The rest of the result has been written; a client that is up will read it.
SendAll(f) ==
  /\ Sends(f)
  /\ send_queue' = Tail(send_queue) /\ send_eventfd' = send_eventfd - 1
  /\ output' = [output EXCEPT ![f] = None]
  /\ mail' = IF peer[owner[f]] = "up"
             THEN [mail EXCEPT ![owner[f]] = Append(@, output[f])] ELSE mail
  /\ UNCHANGED <<clients, wire, conns, input, reading, recvs, broker, forming,
                 pq, history>>

(* A send that is not tried again after EAGAIN.                            *)
SendGivesUp(f) ==
  /\ Sends(f)
  /\ send_queue' = Tail(send_queue) /\ send_eventfd' = send_eventfd - 1
  /\ UNCHANGED <<clients, streams, conns, buffers, recvs, broker, forming, pq, history>>

\* Only a part, or nothing, has been written.
SendPart(f) ==
  /\ Sends(f)
  /\ PushSend(f, Tail(send_queue), send_eventfd - 1)
  /\ UNCHANGED <<clients, streams, conns, buffers, recvs, broker, forming, pq, refused, heirs>>

\* send fails with ECONNRESET: the result stays where it is.
SendFails(f) ==
  /\ Sends(f) /\ peer[owner[f]] = "down"
  /\ send_queue' = Tail(send_queue) /\ send_eventfd' = send_eventfd - 1
  /\ UNCHANGED <<clients, streams, conns, buffers, recvs, broker, forming, pq, history>>

\* send fails with EPIPE: tcp_send passes no MSG_NOSIGNAL and nobody ignores
\* SIGPIPE, whose default action ends the process with all its threads.
Killed ==
  /\ running /\ running' = FALSE
  /\ \E f \in Fd : SendsToGone(f)
  /\ UNCHANGED vars

-----------------------------------------------------------------------------
(* Matchmaker *)

orchestrator == <<batch, recvs, sends, buffers, conns>>
outside == <<clients, streams, orchestrator, history>>

(* One player too few will do.                                             *)
CanFormShort == pq_ready(PLAYERS_PER_MATCH - 1) /\ ports > 0

CanForm == pq_ready(PLAYERS_PER_MATCH) /\ ports > 0

(* Readiness is looked at only in a round with a message.                  *)
NextRoundOnMessage ==
  /\ mpc = "handle" /\ mbatch = {}
  /\ form_match_eventfd' = IF CanForm /\ matchmaker_eventfd > 0
                           THEN form_match_eventfd + 1 ELSE form_match_eventfd
  /\ mbatch' = (IF matchmaker_eventfd > 0 THEN {"msg"} ELSE {}) \union
               (IF form_match_eventfd' > 0 THEN {"form"} ELSE {})
  /\ UNCHANGED <<outside, broker, mpc, match, found, ports, pq>>

\* The end of a round of matchmaker_run_t and the epoll_wait of the next one,
\* which also returns with nothing after EPOLL_TIMEOUT: check_match_readiness
\* reads nothing that another thread writes but ports, so no step comes between.
NextRound ==
  /\ mpc = "handle" /\ mbatch = {}
  /\ form_match_eventfd' = IF CanForm THEN form_match_eventfd + 1
                           ELSE form_match_eventfd
  /\ mbatch' = (IF matchmaker_eventfd > 0 THEN {"msg"} ELSE {}) \union
               (IF form_match_eventfd' > 0 THEN {"form"} ELSE {})
  /\ UNCHANGED <<outside, broker, mpc, match, found, ports, pq>>

TakesMessage ==
  /\ mpc = "handle" /\ "msg" \in mbatch
  /\ mbatch' = mbatch \ {"msg"}
  /\ matchmaker_eventfd' = matchmaker_eventfd - 1
  /\ q_session_man' = Tail(q_session_man)
  /\ UNCHANGED <<outside, mpc, match, found, ports, form_match_eventfd>>

\* push_data_orch and the write of orch_eventfd; a full queue loses the result.
PushResult(p, e) ==
  IF Len(q_orch) < BROKER_ROOM
  THEN /\ q_orch' = Append(q_orch, [player_id |-> p.player_id, fd |-> p.fd,
                                    event_type |-> e])
       /\ orch_eventfd' = orch_eventfd + 1
  ELSE UNCHANGED <<q_orch, orch_eventfd>>

ProcessRequest(msg) ==
  /\ msg.event_type = MATCH_REQUEST
  /\ UNCHANGED <<q_orch, orch_eventfd>>
  /\ \/ pq_add_player(msg.fd, msg.player_id)
     \/ AtCapacity /\ UNCHANGED pq

(* A cancel that is answered whether the player waits or not.              *)
CancelAlwaysAnswered(msg) ==
  /\ msg.event_type = MATCH_CANCEL
  /\ pq_remove_player(msg.fd) \/ (NotFound(msg.fd) /\ UNCHANGED pq)
  /\ PushResult(msg, MATCH_NOT_FOUND)

ProcessCancel(msg) ==
  /\ msg.event_type = MATCH_CANCEL
  /\ \/ pq_remove_player(msg.fd) /\ PushResult(msg, MATCH_NOT_FOUND)
     \/ NotFound(msg.fd) /\ UNCHANGED <<pq, q_orch, orch_eventfd>>

ProcessUnknown(msg) ==
  /\ msg.event_type = OtherEvent
  /\ UNCHANGED <<pq, q_orch, orch_eventfd>>

process_broker_msg ==
  /\ TakesMessage
  /\ LET msg == Head(q_session_man)
     IN ProcessRequest(msg) \/ ProcessCancel(msg) \/ ProcessUnknown(msg)

form_match ==
  /\ mpc = "handle" /\ "form" \in mbatch
  /\ mbatch' = mbatch \ {"form"}
  /\ form_match_eventfd' = form_match_eventfd - 1
  /\ mpc' = IF CanForm THEN "form" ELSE "handle"
  /\ UNCHANGED <<outside, broker, match, found, ports, pq>>

\* The game has been spawned on a port; or its id, its process or the entry of
\* its port failed, and the port has come back.
Spawn ==
  /\ mpc' = "notify"
  /\ \E ok \in BOOLEAN : found' = ok /\ ports' = IF ok THEN ports - 1 ELSE ports

\* One player is popped, and the match started with its last one.  When the
\* queue has no player although it was ready, form_match ends, and those
\* popped before are forgotten.
PopPlayer ==
  /\ mpc = "form"
  /\ IF QueueEmpty
     THEN mpc' = "handle" /\ match' = <<>> /\ UNCHANGED <<pq, found, ports>>
     ELSE /\ \E p \in players : pop_from_queue(p) /\ match' = Append(match, p)
          /\ IF Len(match) + 1 = PLAYERS_PER_MATCH
             THEN Spawn ELSE UNCHANGED <<mpc, found, ports>>
  /\ UNCHANGED <<outside, broker, mbatch, form_match_eventfd>>

(* The descriptor is taken from another player of the match.               *)
NotifyMixed ==
  /\ mpc = "notify"
  /\ PushResult([Head(match) EXCEPT !.fd = match[Len(match)].fd],
                IF found THEN MATCH_FOUND ELSE MATCH_NOT_FOUND)
  /\ match' = Tail(match)
  /\ IF Tail(match) = <<>>
     THEN mpc' = (IF found /\ CanForm THEN "form" ELSE "handle") /\ found' = FALSE
     ELSE UNCHANGED <<mpc, found>>
  /\ UNCHANGED <<outside, q_session_man, matchmaker_eventfd, mbatch, ports,
                 form_match_eventfd, pq>>

\* One player is told.  After the last one form_match ends if the match failed
\* (do_break), or goes on as long as it can.
Notify ==
  /\ mpc = "notify"
  /\ PushResult(Head(match), IF found THEN MATCH_FOUND ELSE MATCH_NOT_FOUND)
  /\ match' = Tail(match)
  /\ IF Tail(match) = <<>>
     THEN mpc' = (IF found /\ CanForm THEN "form" ELSE "handle") /\ found' = FALSE
     ELSE UNCHANGED <<mpc, found>>
  /\ UNCHANGED <<outside, q_session_man, matchmaker_eventfd, mbatch, ports,
                 form_match_eventfd, pq>>

\* A game ended and the reaper returned its port (PortManager).
PortReturned ==
  /\ ports < PORTS_LIMIT
  /\ ports' = ports + 1
  /\ UNCHANGED <<outside, broker, mpc, mbatch, match, found, form_match_eventfd, pq>>

-----------------------------------------------------------------------------
Client == \E c \in Conn :
  \/ Connect(c) \/ start_search(c) \/ stop_search(c) \/ handle_tcp_response(c)
  \/ HangUp(c)

Orchestrator ==
  \/ epoll_wait \/ accept_connections \/ process_broker \/ process_usr_request
  \/ NothingToSend
  \/ \E f \in Fd : \/ read_incoming_data(f) \/ ReadFails(f) \/ disconnect_handler(f)
                   \/ SendAll(f) \/ SendPart(f) \/ SendFails(f)

Matchmaker == NextRound \/ process_broker_msg \/ form_match \/ PopPlayer \/ Notify

Next == Client \/ Orchestrator \/ Matchmaker \/ PortReturned

\* Whatever is done, the process runs; a signal ends it between two steps.
While(Step) == running /\ Step /\ UNCHANGED running

Dead == ~running /\ UNCHANGED <<vars, running>>

Process == While(Next) \/ Killed \/ Dead

Spec == Init /\ [][Process]_<<vars, running>>

\* Both threads keep running; a client that stays reads, so that its socket
\* does not refuse data for good.
FairSpec ==
  /\ Spec
  /\ WF_<<vars, running>>(While(Orchestrator)) /\ WF_<<vars, running>>(While(Matchmaker))
  /\ \A f \in Fd : SF_<<vars, running>>(While(SendAll(f)))

-----------------------------------------------------------------------------
(* Properties *)

\* Every variable has its type.
TypeOK ==
  /\ peer \in [Conn -> {"none", "up", "down"}]
  /\ ui \in [Conn -> {"idle", "searching", "cancelling", "playing"}]
  /\ requests \in Nat
  /\ wire \in [Conn -> Seq(0..4)] /\ mail \in [Conn -> Seq(Result)]
  /\ backlog \in Seq(Conn) /\ fdOf \in [Conn -> Fd \union {None}]
  /\ owner \in [Fd -> Conn \union {None}]
  /\ input \in [Fd -> Seq(0..4)] /\ output \in [Fd -> Result \union {None}]
  /\ reading \in SUBSET Fd /\ refused \in SUBSET Fd /\ heirs \in SUBSET Conn /\ overflow \in BOOLEAN
  /\ recv_queue \in Seq(Fd) /\ send_queue \in Seq(Fd)
  /\ recv_eventfd \in Nat /\ send_eventfd \in Nat
  /\ batch \in SUBSET Event
  /\ q_session_man \in Seq(Request) /\ q_orch \in Seq(Result)
  /\ matchmaker_eventfd \in Nat /\ orch_eventfd \in Nat
  /\ mpc \in {"handle", "form", "notify"} /\ mbatch \in SUBSET {"msg", "form"}
  /\ match \in Seq(Player) /\ found \in BOOLEAN
  /\ ports \in 0..PORTS_LIMIT /\ form_match_eventfd \in Nat
  /\ QueueTypeOK

\* Signals and queues stay in step although they are counted apart: each
\* signal of a broker queue finds a message, and no descriptor waits in
\* recv_queue or send_queue without a signal that will take it out.
SignalsMatchQueues ==
  /\ matchmaker_eventfd = Len(q_session_man) /\ orch_eventfd = Len(q_orch)
  /\ Len(recv_queue) <= recv_eventfd /\ Len(send_queue) <= send_eventfd

\* check_match_readiness signals in every round in which a match can be formed,
\* and form_match serves all of them at once: signals still do not pile up.
OneFormSignal == form_match_eventfd <= 1

\* A result in an output buffer has its descriptor in send_queue: nothing
\* else would ever send it.  Excepted are a push dropped by the full queue and
\* a connection that failed.
OutputWillBeSent ==
  \A f \in Fd : output[f] # None =>
    \/ overflow \/ peer[owner[f]] = "down"
    \/ \E i \in DOMAIN send_queue : send_queue[i] = f

\* A connection is not read only while its request waits in recv_queue, whose
\* processing resumes the reading, and one that is read has room for it; the
\* exceptions are a push dropped by the full queue and a full broker.
ReadingResumes ==
  \A f \in Owned :
    /\ f \in reading => Len(input[f]) < SEG
    /\ f \notin reading => \/ overflow \/ f \in refused
                           \/ \E i \in DOMAIN recv_queue : recv_queue[i] = f

\* A result that came to another connection than its own was for a client that
\* has hung up: two clients that stay never get each other's match.
OwnResultWhileUp ==
  \A c \in Conn : \A i \in DOMAIN mail[c] :
    mail[c][i].player_id = c \/ peer[mail[c][i].player_id] = "down"

\* Descriptors may have been used again, but each time the server was done with
\* the connection before.
NoHeirs == heirs = {}

\* Without heirs the tree, the table and cur_size agree, one entry per client.
QueueAgreesWithoutHeirs == NoHeirs => QueueAgrees

\* What the server has got from c and not yet dealt with.
Stream(c) == IF fdOf[c] # None /\ owner[fdOf[c]] = c
             THEN input[fdOf[c]] \o wire[c] ELSE wire[c]

\* Where a search of c can be: its request on the way in, the player in the
\* queue or popped from it, and the answer on the way out.
Begins(e, s) == {i \in DOMAIN s : i % SEG = 1 % SEG /\ s[i] = e}

Asked(s) == Begins(MATCH_REQUEST, s)

Of(c, seq) == {i \in DOMAIN seq : seq[i].player_id = c}

Searching(c) ==
  ({"asked"} \X Asked(Stream(c)))
  \union ({"passed"} \X {i \in Of(c, q_session_man) :
                           q_session_man[i].event_type = MATCH_REQUEST})
  \union ({"waiting"} \X {p \in players : p.player_id = c})
  \union ({"popped"} \X Of(c, match))
  \union ({"decided"} \X Of(c, q_orch))
  \union ({"sending"} \X {f \in Fd : output[f] # None /\ output[f].player_id = c})
  \union ({"answered"} \X DOMAIN mail[c])

\* Without heirs a search has one place at a time, from the request through the
\* queue and the match to the answer: it is answered at most once, however the
\* cancel races with the match, and who is back in the lobby waits nowhere.
OneOutcome ==
  NoHeirs => \A c \in Conn :
    /\ \A x, y \in Searching(c) : x = y
    /\ Searching(c) # {} => ui[c] \in {"searching", "cancelling"} \/ peer[c] = "down"

\* What the supervisor promises: requests and cancels on their way, the line with
\* the match in the making, and the answers from the match to the client.
Has(c, e, seq) == \E i \in Of(c, seq) : seq[i].event_type = e

Requested(c, e) == Begins(e, Stream(c)) # {} \/ Has(c, e, q_session_man)

InLine == players \union (IF mpc = "form" THEN {match[i] : i \in DOMAIN match} ELSE {})

Outcome == IF found THEN MATCH_FOUND ELSE MATCH_NOT_FOUND

Answers(c, e) ==
  \/ mpc = "notify" /\ e = Outcome /\ Of(c, match) # {}
  \/ Has(c, e, q_orch)
  \/ \E f \in Fd : output[f] # None /\ output[f].player_id = c /\ output[f].event_type = e
  \/ \E i \in DOMAIN mail[c] : mail[c][i].event_type = e

Place(p) == [seq_num |-> p.seq_num, client |-> p.player_id]

Asking == {c \in Conn : Requested(c, MATCH_REQUEST)}
Leaving == {c \in Conn : Requested(c, MATCH_CANCEL)}
Line == {Place(p) : p \in InLine}
Told == {a \in Conn \X {MATCH_FOUND, MATCH_NOT_FOUND} : Answers(a[1], a[2])}

Service == INSTANCE Matchmaking WITH
  Client <- Conn, Size <- PLAYERS_PER_MATCH,
  FOUND <- MATCH_FOUND, NOT_FOUND <- MATCH_NOT_FOUND,
  asking <- Asking, leaving <- Leaving, line <- Line, ticket <- seq_num, told <- Told

\* Without heirs every step of the two threads is one of the service, or none.
ImplementsMatchmaking ==
  Service!Init /\ [][NoHeirs' => [Service!Next]_(Service!service)]_vars

\* What a client sends is cut into requests where the client cut it, whatever
\* the others do.  Excepted is an heir, whose request may be taken out of the
\* buffer half read, by an entry of recv_queue that is older than it.
RequestsStayWhole ==
  \A c \in Conn : peer[c] = "up" /\ c \notin heirs => Len(Stream(c)) % SEG = 0

\* As long as the process runs, the result of a client that stays reaches it,
\* unless fdq_push drops a descriptor or the client is an heir, whose output
\* buffer a result for the connection before may fill.
ResultReachesClient ==
  \A c \in Conn :
    Of(c, q_orch) # {}
    ~> (Of(c, mail[c]) # {} \/ peer[c] = "down" \/ c \in heirs \/ overflow \/ ~running)

\* What a client has sent is read while the process runs, unless an earlier
\* request found the broker or recv_queue full.
RequestIsRead ==
  \A c \in Conn : wire[c] # <<>>
    ~> (wire[c] = <<>> \/ peer[c] = "down" \/ overflow \/ fdOf[c] \in refused \/ ~running)

\* Players and port at hand, the match is formed.
MatchIsFormed == CanForm ~> (mpc = "form" \/ ~CanForm \/ ~running)

-----------------------------------------------------------------------------
(* The inductive invariant *)

\* Where the matchmaker is says what it holds, and its batch what is signalled.
MatchmakerPlace ==
  /\ "msg" \in mbatch => matchmaker_eventfd > 0
  /\ form_match_eventfd = IF "form" \in mbatch THEN 1 ELSE 0
  /\ mpc = "handle" => match = <<>>
  /\ mpc = "form" => Len(match) < PLAYERS_PER_MATCH /\ ports > 0
  /\ mpc = "notify" => match # <<>>

\* An event of the batch is still due when its turn comes: no handler before it
\* has served it or taken its descriptor away.
EventsAreDue ==
  /\ <<"orch", None>> \in batch => orch_eventfd > 0
  /\ <<"send", None>> \in batch => send_eventfd > 0
  /\ <<"recv", None>> \in batch => recv_eventfd > 0
  /\ \A f \in Fd :
       /\ <<"in", f>> \in batch => f \in reading
       /\ <<"hup", f>> \in batch =>
            owner[f] # None /\ peer[owner[f]] = "down" /\ <<"in", f>> \notin batch

\* A free descriptor has nothing left of its last connection.
FreeIsClean ==
  \A f \in Fd : owner[f] = None =>
    f \notin reading /\ input[f] = <<>> /\ output[f] = None

\* A connection waits for accept at most once, and has no descriptor before.
BacklogIsNew ==
  /\ \A i \in DOMAIN backlog :
       fdOf[backlog[i]] = None /\ peer[backlog[i]] # "none"
  /\ \A i, j \in DOMAIN backlog : backlog[i] = backlog[j] => i = j
  /\ \A c \in Conn : peer[c] = "none" => fdOf[c] = None

\* A descriptor belongs to the last connection accepted on it, and the ones
\* before have hung up.
OthersAreDown ==
  /\ \A f \in Owned : fdOf[owner[f]] = f
  /\ \A c \in Conn : fdOf[c] # None => owner[fdOf[c]] = c \/ peer[c] = "down"

Names(seq) == \A i \in DOMAIN seq : fdOf[seq[i].player_id] = seq[i].fd

\* Wherever a player goes, player_id and fd name one connection.
IdentityTravels ==
  /\ \A p \in players : fdOf[p.player_id] = p.fd
  /\ Names(match) /\ Names(q_session_man) /\ Names(q_orch)
  /\ \A f \in Fd : output[f] # None => output[f].fd = f /\ fdOf[output[f].player_id] = f

\* The inductive invariant.
IndInv ==
  /\ TypeOK /\ SignalsMatchQueues /\ MatchmakerPlace /\ EventsAreDue
  /\ FreeIsClean /\ BacklogIsNew /\ OthersAreDown /\ IdentityTravels
  /\ OutputWillBeSent /\ ReadingResumes /\ OwnResultWhileUp

\* A connection that was not made yet has asked for nothing and got nothing.
NewIsIdle ==
  \A c \in Conn : peer[c] = "none" => ui[c] = "idle" /\ wire[c] = <<>> /\ mail[c] = <<>>

\* A seq_num is given to one player.
SeqNumsDiffer ==
  \A p, q \in players : p.seq_num < seq_num /\ (p.seq_num = q.seq_num => p = q)

\* The descriptor of a connection that is no heir waits in recv_queue once, with
\* a whole request.
RequestsWait ==
  \A i \in DOMAIN recv_queue : LET f == recv_queue[i] IN
    owner[f] \notin heirs \union {None} =>
      /\ f \notin reading /\ Len(input[f]) = SEG
      /\ \A j \in DOMAIN recv_queue : recv_queue[j] = f => j = i

HeldBy(f, c, seq) == \A i \in DOMAIN seq : seq[i].fd = f => seq[i].player_id = c

\* What is under way about a descriptor is all of one connection, the one that
\* has the descriptor, if it has one.
OneHolder ==
  \A f \in Fd : \E c \in Conn \union {None} :
    /\ owner[f] \in {c, None}
    /\ \A p \in players : p.fd = f => p.player_id = c
    /\ HeldBy(f, c, match) /\ HeldBy(f, c, q_session_man) /\ HeldBy(f, c, q_orch)
    /\ output[f] # None => output[f].player_id = c

\* A player who waits has the only entry of its descriptor.
EntriesFollowPlayers ==
  /\ IsFiniteSet(players) /\ cur_size = Cardinality(players)
  /\ \A p \in players : fd_seq_mapping[p.fd] = <<p.seq_num>>
  /\ \A f \in Fd : (\A p \in players : p.fd # f) => fd_seq_mapping[f] = <<>>

\* A match in the making has the first of the queue, each once, and those it
\* lacks are counted.
MatchIsFirst ==
  mpc = "form" =>
    /\ \A i \in DOMAIN match : \A p \in players : match[i].seq_num < p.seq_num
    /\ \A i, j \in DOMAIN match : match[i].seq_num = match[j].seq_num => i = j
    /\ Len(match) + cur_size >= PLAYERS_PER_MATCH

\* Inductive with IndInv, the second part as long as there are no heirs.
SearchInv ==
  /\ NewIsIdle /\ SeqNumsDiffer /\ MatchIsFirst /\ RequestsWait /\ RequestsStayWhole
  /\ NoHeirs => OneHolder /\ EntriesFollowPlayers /\ OneOutcome
=============================================================================
