------------------------- MODULE LobbySearch_proofs -------------------------
(***************************************************************************)
(* What becomes of a search.  An heir is a connection accepted on a        *)
(* descriptor that something under way still names.  Requests of all who   *)
(* are none stay whole; while there is none at all, the three parts of the *)
(* players queue agree and a search has one outcome.                       *)
(*                                                                         *)
(* A search is in one of seven stages.  Each stage is a set of places, and *)
(* a step only moves a place from one stage to the next, or drops it.      *)
(* From that and MatchIsFirst follows what the two threads amount to: they *)
(* implement the service of module Matchmaking.                            *)
(***************************************************************************)
EXTENDS Lobby_proofs, FiniteSetTheorems

-----------------------------------------------------------------------------
(* Requests in a stream                                                     *)

(* A stream that loses a whole request is cut as before.                    *)
LEMMA ModShift ==
  ASSUME NEW n \in Nat
  PROVE  (SEG + n) % SEG = n % SEG
<1> DEFINE q == n \div SEG
           r == n % SEG
<1>1. SEG \in Nat \ {0}
  BY LobbyAssumption
<1>2. n = SEG * q + r /\ q \in Nat /\ r \in 0 .. (SEG - 1)
  BY <1>1
<1>3. SEG + n = SEG * (q + 1) + r
  BY <1>1, <1>2
<1>4. \A k \in Nat, s \in 0 .. (SEG - 1) : (SEG * k + s) % SEG = s
  BY <1>1
<1> QED
  BY <1>2, <1>3, <1>4

(* Of the parts of a request only the first is where requests begin.        *)
LEMMA FirstPart ==
  ASSUME NEW n \in Nat, n % SEG = 0, NEW i \in 1 .. SEG
  PROVE  (n + i) % SEG = 1 % SEG <=> i = 1
BY LobbyAssumption

(* A client's request makes its stream longer by one request.              *)
LEMMA BeginsMore ==
  ASSUME NEW s \in Seq(0..4), Len(s) % SEG = 0, NEW e \in 0..4, NEW x
  PROVE  /\ s \o Frame(e) \in Seq(0..4) /\ Len(s \o Frame(e)) % SEG = 0
         /\ e # x => Begins(x, s \o Frame(e)) = Begins(x, s)
         /\ Begins(x, s \o Frame(e)) \subseteq Begins(x, s) \union {Len(s) + 1}
<1>0. SEG \in Nat \ {0}
  BY LobbyAssumption
<1>1. /\ Frame(e) \in Seq(0..4) /\ Len(Frame(e)) = SEG /\ Frame(e)[1] = e
  BY <1>0 DEF Frame
<1> DEFINE t == s \o Frame(e)
<1>2. /\ t \in Seq(0..4) /\ Len(t) = Len(s) + SEG
      /\ \A i \in 1 .. Len(s) : t[i] = s[i]
      /\ \A i \in 1 .. SEG : t[Len(s) + i] = Frame(e)[i]
  BY <1>0, <1>1
<1>3. Len(t) % SEG = 0
  <2>1. Len(s) \in Nat /\ Len(t) = SEG + Len(s)
    BY <1>0, <1>2
  <2> QED
    BY <2>1, ModShift
<1>4. ASSUME NEW j \in 1 .. Len(t), j > Len(s), j % SEG = 1 % SEG
      PROVE  j = Len(s) + 1 /\ t[j] = e
  <2>1. j - Len(s) \in 1 .. SEG /\ Len(s) \in Nat /\ j = Len(s) + (j - Len(s))
    BY <1>0, <1>2, <1>4
  <2>2. j - Len(s) = 1
    BY <1>4, <2>1, FirstPart
  <2> QED
    BY <1>0, <1>1, <1>2, <2>1, <2>2
<1>5. DOMAIN t = 1 .. Len(t) /\ DOMAIN s = 1 .. Len(s)
  BY <1>2
<1> HIDE DEF t
<1>6. \A j \in Begins(x, t) : j \in Begins(x, s) \/ (j = Len(s) + 1 /\ e = x)
  BY <1>2, <1>4, <1>5 DEF Begins
<1>7. Begins(x, s) \subseteq Begins(x, t)
  BY <1>0, <1>2, <1>5 DEF Begins
<1> QED
  BY <1>2, <1>3, <1>6, <1>7 DEF t

(* A stream without its first request.                                     *)
LEMMA BeginsLess ==
  ASSUME NEW a \in Seq(0..4), NEW b \in Seq(0..4), Len(a) = SEG, NEW x
  PROVE  /\ \A i \in Begins(x, b) : SEG + i \in Begins(x, a \o b) /\ SEG + i # 1
         /\ a[1] = x => 1 \in Begins(x, a \o b)
         /\ Len(a \o b) % SEG = Len(b) % SEG
<1>0. SEG \in Nat \ {0}
  BY LobbyAssumption
<1>1. /\ DOMAIN (a \o b) = 1 .. (SEG + Len(b)) /\ Len(a \o b) = SEG + Len(b)
      /\ \A i \in 1 .. SEG : (a \o b)[i] = a[i]
      /\ \A i \in 1 .. Len(b) : (a \o b)[SEG + i] = b[i]
  BY <1>0
<1>2. \A i \in Nat : (SEG + i) % SEG = i % SEG
  BY ModShift
<1>3. ASSUME NEW i \in Begins(x, b)
      PROVE  SEG + i \in Begins(x, a \o b) /\ SEG + i # 1
  <2>1. i \in 1 .. Len(b) /\ i % SEG = 1 % SEG /\ b[i] = x
    BY <1>3 DEF Begins
  <2>2. SEG + i \in 1 .. (SEG + Len(b)) /\ (SEG + i) % SEG = 1 % SEG /\ SEG + i # 1
    BY <1>0, <1>2, <2>1
  <2> QED
    BY <1>1, <2>1, <2>2 DEF Begins
<1>4. ASSUME a[1] = x
      PROVE  1 \in Begins(x, a \o b)
  <2>1. 1 \in 1 .. SEG /\ 1 \in 1 .. (SEG + Len(b))
    BY <1>0
  <2> QED
    BY <1>1, <1>4, <2>1 DEF Begins
<1>5. Len(a \o b) % SEG = Len(b) % SEG
  <2>1. Len(b) \in Nat
    OBVIOUS
  <2> QED
    BY <1>1, <1>2, <2>1
<1> QED
  BY <1>3, <1>4, <1>5

LEMMA AskedMore ==
  ASSUME NEW s \in Seq(0..4), Len(s) % SEG = 0, NEW e \in 0..4
  PROVE  /\ s \o Frame(e) \in Seq(0..4) /\ Len(s \o Frame(e)) % SEG = 0
         /\ e # MATCH_REQUEST => Asked(s \o Frame(e)) = Asked(s)
         /\ Asked(s \o Frame(e)) \subseteq Asked(s) \union {Len(s) + 1}
BY BeginsMore DEF Asked

LEMMA AskedLess ==
  ASSUME NEW a \in Seq(0..4), NEW b \in Seq(0..4), Len(a) = SEG
  PROVE  /\ \A i \in Asked(b) : SEG + i \in Asked(a \o b) /\ SEG + i # 1
         /\ a[1] = MATCH_REQUEST => 1 \in Asked(a \o b)
         /\ Len(a \o b) % SEG = Len(b) % SEG
BY BeginsLess DEF Asked

(* Two sequences one after the other.                                       *)
LEMMA ConcatOf ==
  ASSUME NEW S, NEW a \in Seq(S), NEW b \in Seq(S)
  PROVE  /\ a \o b \in Seq(S) /\ Len(a \o b) = Len(a) + Len(b)
         /\ Len(a) \in Nat /\ Len(b) \in Nat
         /\ \A i \in 1 .. Len(a) : (a \o b)[i] = a[i]
         /\ \A i \in 1 .. Len(b) : (a \o b)[Len(a) + i] = b[i]
OBVIOUS

LEMMA ConcatAssociates ==
  ASSUME NEW S, NEW a \in Seq(S), NEW b \in Seq(S), NEW c \in Seq(S)
  PROVE  (a \o b) \o c = a \o (b \o c)
<1> DEFINE x == (a \o b) \o c
           y == a \o (b \o c)
<1>1. /\ a \o b \in Seq(S) /\ Len(a \o b) = Len(a) + Len(b)
      /\ b \o c \in Seq(S) /\ Len(b \o c) = Len(b) + Len(c)
      /\ Len(a) \in Nat /\ Len(b) \in Nat /\ Len(c) \in Nat
  BY ConcatOf
<1>2. x \in Seq(S) /\ Len(x) = (Len(a) + Len(b)) + Len(c)
  BY <1>1, ConcatOf
<1>3. y \in Seq(S) /\ Len(y) = Len(a) + (Len(b) + Len(c))
  BY <1>1, ConcatOf
<1>4. ASSUME NEW i \in 1 .. Len(a)
      PROVE  x[i] = a[i] /\ y[i] = a[i]
  <2>1. i \in 1 .. Len(a \o b)
    BY <1>1
  <2> QED
    BY <1>1, <2>1, ConcatOf
<1>5. ASSUME NEW i \in 1 .. Len(b)
      PROVE  x[Len(a) + i] = b[i] /\ y[Len(a) + i] = b[i]
  <2>1. Len(a) + i \in 1 .. Len(a \o b) /\ i \in 1 .. Len(b \o c)
    BY <1>1
  <2>2. (a \o b)[Len(a) + i] = b[i] /\ (b \o c)[i] = b[i]
    BY ConcatOf
  <2> QED
    BY <1>1, <2>1, <2>2, ConcatOf
<1>6. ASSUME NEW i \in 1 .. Len(c)
      PROVE  /\ x[(Len(a) + Len(b)) + i] = c[i]
             /\ y[Len(a) + (Len(b) + i)] = c[i]
  <2>1. Len(b) + i \in 1 .. Len(b \o c) /\ (b \o c)[Len(b) + i] = c[i]
    BY <1>1, ConcatOf
  <2> QED
    BY <1>1, <2>1, ConcatOf
<1> HIDE DEF x, y
<1>7. ASSUME NEW i \in 1 .. Len(x)
      PROVE  x[i] = y[i]
  <2>0. i \in Nat /\ i >= 1 /\ i <= (Len(a) + Len(b)) + Len(c)
    BY <1>1, <1>2
  <2>1. CASE i <= Len(a)
    BY <1>1, <1>4, <2>0, <2>1
  <2>2. CASE i > Len(a) /\ i <= Len(a) + Len(b)
    <3>1. i - Len(a) \in 1 .. Len(b) /\ i = Len(a) + (i - Len(a))
      BY <1>1, <2>0, <2>2
    <3> QED
      BY <1>5, <3>1
  <2>3. CASE i > Len(a) + Len(b)
    <3> DEFINE j == i - (Len(a) + Len(b))
    <3>1. j \in 1 .. Len(c) /\ i = (Len(a) + Len(b)) + j /\ i = Len(a) + (Len(b) + j)
      BY <1>1, <2>0, <2>3
    <3> QED
      BY <1>6, <3>1
  <2> QED
    BY <1>1, <2>0, <2>1, <2>2, <2>3
<1>8. x = y
  <2>1. Len(x) = Len(y)
    BY <1>1, <1>2, <1>3
  <2> QED
    BY <1>2, <1>3, <1>7, <2>1
<1> QED
  BY <1>8 DEF x, y

(* What is read moves from the wire to the end of the buffer.               *)
LEMMA Halves ==
  ASSUME NEW S, NEW w \in Seq(S), NEW n \in Nat, n <= Len(w)
  PROVE  /\ SubSeq(w, 1, n) \in Seq(S) /\ SubSeq(w, n + 1, Len(w)) \in Seq(S)
         /\ SubSeq(w, 1, n) \o SubSeq(w, n + 1, Len(w)) = w
<1> DEFINE u == SubSeq(w, 1, n)
           v == SubSeq(w, n + 1, Len(w))
<1>1. u \in Seq(S) /\ v \in Seq(S) /\ Len(w) \in Nat
  BY PartOf
<1>2. Len(u) = n /\ \A i \in 1 .. n : u[i] = w[i]
  OBVIOUS
<1>3. Len(v) = Len(w) - n /\ \A i \in 1 .. (Len(w) - n) : v[i] = w[n + i]
  OBVIOUS
<1> HIDE DEF u, v
<1> DEFINE x == u \o v
<1>4. /\ x \in Seq(S) /\ Len(x) = Len(u) + Len(v)
      /\ \A i \in 1 .. Len(u) : x[i] = u[i]
      /\ \A i \in 1 .. Len(v) : x[Len(u) + i] = v[i]
  BY <1>1, ConcatOf
<1> HIDE DEF x
<1>5. Len(x) = Len(w)
  BY <1>1, <1>2, <1>3, <1>4
<1>6. ASSUME NEW i \in 1 .. Len(w)
      PROVE  x[i] = w[i]
  <2>0. i \in Nat /\ i >= 1 /\ i <= Len(w)
    BY <1>1
  <2>1. CASE i <= n
    BY <1>2, <1>4, <2>0, <2>1
  <2>2. CASE i > n
    <3> DEFINE k == i - n
    <3>1. k \in 1 .. (Len(w) - n) /\ i = n + k
      BY <1>1, <2>0, <2>2
    <3> HIDE DEF k
    <3>2. x[n + k] = v[k] /\ v[k] = w[n + k]
      BY <1>2, <1>3, <1>4, <3>1
    <3> QED
      BY <3>1, <3>2
  <2> QED
    BY <2>0, <2>1, <2>2
<1>7. x = w
  BY <1>1, <1>4, <1>5, <1>6
<1> QED
  BY <1>1, <1>7 DEF u, v, x

LEMMA Regroup ==
  ASSUME NEW S, NEW a \in Seq(S), NEW w \in Seq(S), NEW n \in Nat, n <= Len(w)
  PROVE  (a \o SubSeq(w, 1, n)) \o SubSeq(w, n + 1, Len(w)) = a \o w
<1> DEFINE u == SubSeq(w, 1, n)
           v == SubSeq(w, n + 1, Len(w))
<1>1. u \in Seq(S) /\ v \in Seq(S) /\ u \o v = w
  BY Halves
<1> HIDE DEF u, v
<1>2. \A x, y \in Seq(S) : (a \o x) \o y = a \o (x \o y)
  BY ConcatAssociates
<1>3. (a \o u) \o v = a \o w
  BY <1>1, <1>2, Zenon
<1> QED
  BY <1>3 DEF u, v

-----------------------------------------------------------------------------
(* Streams                                                                  *)

(* What the server has got from a client and not dealt with is a sequence.  *)
LEMMA StreamType ==
  ASSUME TypeOK, NEW c \in Conn
  PROVE  Stream(c) \in Seq(0..4)
<1>1. wire[c] \in Seq(0..4) /\ \A f \in Fd : input[f] \in Seq(0..4)
  BY DEF TypeOK
<1>2. fdOf[c] # None => fdOf[c] \in Fd
  BY DEF TypeOK
<1>3. \A f \in Fd : input[f] \o wire[c] \in Seq(0..4)
  BY <1>1, ConcatOf
<1> QED
  BY <1>1, <1>2, <1>3, Zenon DEF Stream

LEMMA EmptyFirst ==
  ASSUME NEW S, NEW s \in Seq(S)
  PROVE  <<>> \o s = s
OBVIOUS

(* Who touches the streams.                                                 *)
LEMMA StreamFrame ==
  ASSUME [Next]_vars
  PROVE  \/ \E c \in Conn : start_search(c) \/ stop_search(c)
         \/ accept_connections \/ process_usr_request
         \/ \E f \in Fd : read_incoming_data(f) \/ disconnect_handler(f)
         \/ UNCHANGED <<wire, input, owner, fdOf>>
<1> USE DEF conns, streams, buffers, outside, orchestrator
<1>1. CASE Client
  BY <1>1 DEF Client, Connect, HangUp, handle_tcp_response
<1>2. CASE Orchestrator
  BY <1>2 DEF Orchestrator, epoll_wait, process_broker, NothingToSend, ReadFails, SendAll,
       SendPart, SendFails
<1>3. CASE Matchmaker \/ PortReturned
  BY <1>3 DEF Matchmaker, NextRound, process_broker_msg, TakesMessage, form_match, PopPlayer,
       Notify, PortReturned
<1>4. CASE UNCHANGED vars
  BY <1>4 DEF vars
<1> QED
  BY <1>1, <1>2, <1>3, <1>4 DEF Next

(* A connection begins with an empty buffer.                                *)
LEMMA AcceptKeepsStream ==
  ASSUME IndInv, accept_connections, NEW c \in Conn
  PROVE  Stream(c)' = Stream(c)
<1>0. /\ BacklogIsNew /\ FreeIsClean /\ OthersAreDown /\ backlog \in Seq(Conn)
      /\ fdOf \in [Conn -> Fd \union {None}] /\ owner \in [Fd -> Conn \union {None}]
      /\ wire[c] \in Seq(0..4) /\ None \notin Conn /\ None \notin Fd
  BY LobbyAssumption DEF IndInv, TypeOK
<1> DEFINE b == Head(backlog)
<1>1. backlog # <<>> /\ wire' = wire /\ input' = input
  BY DEF accept_connections, streams
<1>2. b \in Conn /\ fdOf[b] = None
  BY <1>0, <1>1, TailOf DEF BacklogIsNew
<1>3. PICK f \in Fd : /\ owner[f] = None /\ owner' = [owner EXCEPT ![f] = b]
                      /\ fdOf' = [fdOf EXCEPT ![b] = f]
  BY DEF accept_connections, AcceptOn, Owned
<1> HIDE DEF b
<1>4. CASE c = b
  <2>1. fdOf'[c] = f /\ owner'[f] = c /\ input[f] = <<>> /\ f # None
    BY <1>0, <1>2, <1>3, <1>4 DEF FreeIsClean
  <2>2. Stream(c)' = input[f] \o wire[c]
    BY <1>1, <2>1 DEF Stream
  <2>3. Stream(c)' = wire[c]
    BY <1>0, <2>1, <2>2, EmptyFirst
  <2>4. Stream(c) = wire[c]
    BY <1>2, <1>4 DEF Stream
  <2> QED
    BY <2>3, <2>4
<1>5. CASE c # b
  <2>1. fdOf'[c] = fdOf[c]
    BY <1>0, <1>3, <1>5
  <2>2. fdOf[c] # None => (owner'[fdOf[c]] = c <=> owner[fdOf[c]] = c)
    BY <1>0, <1>2, <1>3, <1>5
  <2> QED
    BY <1>1, <2>1, <2>2 DEF Stream
<1> QED
  BY <1>4, <1>5

(* What is read stays in the stream.                                        *)
LEMMA ReadKeepsStream ==
  ASSUME IndInv, NEW f \in Fd, read_incoming_data(f), NEW c \in Conn
  PROVE  Stream(c)' = Stream(c)
<1>0. /\ EventsAreDue /\ FreeIsClean /\ OthersAreDown
      /\ fdOf \in [Conn -> Fd \union {None}] /\ owner \in [Fd -> Conn \union {None}]
      /\ wire \in [Conn -> Seq(0..4)] /\ input \in [Fd -> Seq(0..4)]
      /\ None \notin Conn /\ None \notin Fd /\ SEG \in Nat
  BY LobbyAssumption DEF IndInv, TypeOK
<1> DEFINE d == owner[f]
<1>1. d \in Conn /\ fdOf[d] = f
  BY <1>0 DEF read_incoming_data, Takes, EventsAreDue, FreeIsClean, OthersAreDown, Owned
<1>2. UNCHANGED <<fdOf, owner>>
  BY DEF read_incoming_data, conns
<1>3. PICK n \in 1..SEG :
        /\ n <= Len(wire[d])
        /\ wire' = [wire EXCEPT ![d] = SubSeq(wire[d], n + 1, Len(wire[d]))]
        /\ input' = [input EXCEPT ![f] = input[f] \o SubSeq(wire[d], 1, n)]
  BY DEF read_incoming_data
<1> HIDE DEF d
<1>4. CASE c = d
  <2>1. Stream(c) = input[f] \o wire[d]
    BY <1>0, <1>1, <1>4 DEF Stream, d
  <2>2. Stream(c)' = input'[f] \o wire'[d]
    BY <1>0, <1>1, <1>2, <1>4 DEF Stream, d
  <2>3. /\ input'[f] = input[f] \o SubSeq(wire[d], 1, n)
        /\ wire'[d] = SubSeq(wire[d], n + 1, Len(wire[d]))
    BY <1>0, <1>1, <1>3
  <2>4. n \in Nat /\ wire[d] \in Seq(0..4) /\ input[f] \in Seq(0..4)
    BY <1>0, <1>1
  <2>5. (input[f] \o SubSeq(wire[d], 1, n)) \o SubSeq(wire[d], n + 1, Len(wire[d]))
          = input[f] \o wire[d]
    BY <1>3, <2>4, Regroup, Zenon
  <2> QED
    BY <2>1, <2>2, <2>3, <2>5, Zenon
<1>5. CASE c # d
  <2>1. wire'[c] = wire[c]
    BY <1>0, <1>1, <1>3, <1>5
  <2>2. fdOf[c] # None /\ owner[fdOf[c]] = c => fdOf[c] \in Fd /\ fdOf[c] # f
    BY <1>0, <1>5 DEF d
  <2>3. fdOf[c] # None /\ owner[fdOf[c]] = c => input'[fdOf[c]] = input[fdOf[c]]
    BY <1>0, <1>3, <2>2
  <2> QED
    BY <1>2, <2>1, <2>3 DEF Stream
<1> QED
  BY <1>4, <1>5

(* A request of a client is added to the end of its stream.                 *)
LEMMA SendStream ==
  ASSUME IndInv, NEW d \in Conn, NEW e \in 0..4, send_tcp(d, e),
         UNCHANGED <<input, owner, fdOf>>, NEW c \in Conn
  PROVE  Stream(c)' = IF c = d THEN Stream(c) \o Frame(e) ELSE Stream(c)
<1>0. /\ fdOf \in [Conn -> Fd \union {None}] /\ wire \in [Conn -> Seq(0..4)]
      /\ input \in [Fd -> Seq(0..4)] /\ SEG \in Nat
  BY LobbyAssumption DEF IndInv, TypeOK
<1>1. wire' = [wire EXCEPT ![d] = wire[d] \o Frame(e)]
  BY DEF send_tcp
<1>2. CASE c # d
  BY <1>0, <1>1, <1>2 DEF Stream
<1>3. CASE c = d
  <2>1. wire'[c] = wire[c] \o Frame(e) /\ wire[c] \in Seq(0..4)
    BY <1>0, <1>1, <1>3
  <2>2. Frame(e) \in Seq(0..4)
    BY <1>0 DEF Frame
  <2>3. CASE fdOf[c] # None /\ owner[fdOf[c]] = c
    <3>1. input[fdOf[c]] \in Seq(0..4)
      BY <1>0, <2>3
    <3>2. \A x, y, z \in Seq(0..4) : (x \o y) \o z = x \o (y \o z)
      BY ConcatAssociates
    <3>3. Stream(c)' = input[fdOf[c]] \o (wire[c] \o Frame(e))
      BY <2>1, <2>3 DEF Stream
    <3>4. Stream(c) = input[fdOf[c]] \o wire[c]
      BY <2>3 DEF Stream
    <3>5. (input[fdOf[c]] \o wire[c]) \o Frame(e) = input[fdOf[c]] \o (wire[c] \o Frame(e))
      BY <2>1, <2>2, <3>1, <3>2, Zenon
    <3> QED
      BY <1>3, <3>3, <3>4, <3>5, Zenon
  <2>4. CASE ~(fdOf[c] # None /\ owner[fdOf[c]] = c)
    BY <1>3, <2>1, <2>4 DEF Stream
  <2> QED
    BY <2>3, <2>4
<1> QED
  BY <1>2, <1>3

(* With the connection goes what it had sent.                               *)
LEMMA DisconnectStream ==
  ASSUME IndInv, NEW f \in Fd, disconnect_handler(f), NEW c \in Conn
  PROVE  IF c = owner[f] THEN peer[c] = "down" /\ Stream(c)' = <<>>
         ELSE Stream(c)' = Stream(c)
<1>0. /\ EventsAreDue /\ OthersAreDown
      /\ fdOf \in [Conn -> Fd \union {None}] /\ owner \in [Fd -> Conn \union {None}]
      /\ wire \in [Conn -> Seq(0..4)] /\ input \in [Fd -> Seq(0..4)]
      /\ None \notin Conn /\ None \notin Fd
  BY LobbyAssumption DEF IndInv, TypeOK
<1> DEFINE d == owner[f]
<1>1. d \in Conn /\ fdOf[d] = f /\ peer[d] = "down"
  BY <1>0 DEF disconnect_handler, Takes, EventsAreDue, OthersAreDown, Owned
<1>2. /\ fdOf' = fdOf /\ owner' = [owner EXCEPT ![f] = None]
      /\ input' = [input EXCEPT ![f] = <<>>] /\ wire' = [wire EXCEPT ![d] = <<>>]
  BY DEF disconnect_handler
<1> HIDE DEF d
<1>3. CASE c = d
  <2>1. wire'[c] = <<>> /\ fdOf'[c] = f /\ owner'[f] = None /\ c # None
    BY <1>0, <1>1, <1>2, <1>3
  <2> QED
    BY <1>1, <1>3, <2>1 DEF Stream, d
<1>4. CASE c # d
  <2>1. wire'[c] = wire[c] /\ fdOf'[c] = fdOf[c]
    BY <1>0, <1>1, <1>2, <1>4
  <2>2. fdOf[c] # None => (owner'[fdOf[c]] = c <=> owner[fdOf[c]] = c)
    BY <1>0, <1>2, <1>4 DEF d
  <2>3. fdOf[c] # None /\ owner[fdOf[c]] = c => input'[fdOf[c]] = input[fdOf[c]]
    BY <1>0, <1>2, <1>4 DEF d
  <2> QED
    BY <1>4, <2>1, <2>2, <2>3 DEF Stream, d
<1> QED
  BY <1>3, <1>4

(* Processing a request takes it off the front of its stream.               *)
LEMMA RequestStream ==
  ASSUME IndInv, process_usr_request, NEW c \in Conn
  PROVE  IF recv_queue # <<>> /\ owner[Head(recv_queue)] = c
         THEN /\ Stream(c)' \in Seq(0..4)
              /\ Stream(c) = input[Head(recv_queue)] \o Stream(c)'
         ELSE Stream(c)' = Stream(c)
<1>0. /\ OthersAreDown /\ recv_queue \in Seq(Fd)
      /\ fdOf \in [Conn -> Fd \union {None}] /\ owner \in [Fd -> Conn \union {None}]
      /\ wire \in [Conn -> Seq(0..4)] /\ input \in [Fd -> Seq(0..4)]
      /\ None \notin Conn /\ None \notin Fd
  BY LobbyAssumption DEF IndInv, TypeOK
<1>1. UNCHANGED <<wire, fdOf, owner>>
  BY DEF process_usr_request, conns, streams
<1>2. CASE recv_queue = <<>> \/ owner[Head(recv_queue)] = None
  <2>1. input' = input
    BY <1>2 DEF process_usr_request
  <2> QED
    BY <1>0, <1>1, <1>2, <2>1 DEF Stream
<1>3. CASE ~(recv_queue = <<>> \/ owner[Head(recv_queue)] = None)
  <2> DEFINE f == Head(recv_queue)
  <2>1. f \in Fd /\ input' = [input EXCEPT ![f] = <<>>]
    BY <1>0, <1>3, TailOf DEF process_usr_request
  <2>2. owner[f] \in Conn /\ fdOf[owner[f]] = f
    BY <1>0, <1>3, <2>1 DEF OthersAreDown, Owned
  <2> HIDE DEF f
  <2>3. CASE c = owner[f]
    <3>1. Stream(c) = input[f] \o wire[c]
      BY <1>0, <2>1, <2>2, <2>3 DEF Stream
    <3>2. Stream(c)' = <<>> \o wire[c]
      BY <1>0, <1>1, <2>1, <2>2, <2>3 DEF Stream
    <3>3. wire[c] \in Seq(0..4)
      BY <1>0
    <3>4. Stream(c)' = wire[c]
      BY <3>2, <3>3, EmptyFirst
    <3> QED
      BY <1>3, <2>3, <3>1, <3>3, <3>4, Zenon DEF f
  <2>4. CASE c # owner[f]
    <3>1. fdOf[c] # None /\ owner[fdOf[c]] = c => input'[fdOf[c]] = input[fdOf[c]]
      BY <1>0, <2>1, <2>4
    <3> QED
      BY <1>1, <2>4, <3>1 DEF Stream, f
  <2> QED
    BY <2>3, <2>4
<1> QED
  BY <1>2, <1>3

-----------------------------------------------------------------------------
(* Descriptors and requests                                                 *)

(* Who has taken over a descriptor with an affair left stays an heir, and   *)
(* only an accept makes one.                                                *)
LEMMA HeirsStay ==
  ASSUME [Next]_vars
  PROVE  heirs \subseteq heirs' /\ (accept_connections \/ heirs' = heirs)
<1> USE DEF history
<1>1. CASE Client
  BY <1>1 DEF Client, Connect, HangUp, handle_tcp_response, start_search, stop_search
<1>2. CASE Orchestrator
  BY <1>2 DEF Orchestrator, epoll_wait, accept_connections, process_broker, process_usr_request,
       NothingToSend, read_incoming_data, ReadFails, disconnect_handler, SendAll, SendPart,
       SendFails
<1>3. CASE Matchmaker \/ PortReturned
  BY <1>3 DEF Matchmaker, NextRound, process_broker_msg, TakesMessage, form_match, PopPlayer,
       Notify, PortReturned, outside
<1>4. CASE UNCHANGED vars
  BY <1>4 DEF vars
<1> QED
  BY <1>1, <1>2, <1>3, <1>4 DEF Next

LEMMA NoNewHeirs ==
  ASSUME [Next]_vars, NoHeirs'
  PROVE  NoHeirs
BY HeirsStay DEF NoHeirs

(* Who touches descriptors, buffers and the queue of requests.              *)
LEMMA RequestFrame ==
  ASSUME [Next]_vars
  PROVE  \/ accept_connections \/ process_usr_request
         \/ \E f \in Fd : read_incoming_data(f) \/ disconnect_handler(f)
         \/ UNCHANGED <<recv_queue, reading, input, owner, fdOf>>
<1> USE DEF conns, buffers, recvs, outside, orchestrator
<1>1. CASE Client
  BY <1>1 DEF Client, Connect, HangUp, handle_tcp_response, start_search, stop_search
<1>2. CASE Orchestrator
  BY <1>2 DEF Orchestrator, epoll_wait, process_broker, NothingToSend, ReadFails, SendAll,
       SendPart, SendFails
<1>3. CASE Matchmaker \/ PortReturned
  BY <1>3 DEF Matchmaker, NextRound, process_broker_msg, TakesMessage, form_match, PopPlayer,
       Notify, PortReturned
<1>4. CASE UNCHANGED vars
  BY <1>4 DEF vars
<1> QED
  BY <1>1, <1>2, <1>3, <1>4 DEF Next

(* A descriptor is pushed with its buffer full and its reading suspended,   *)
(* and nobody changes that before it is popped, unless it is closed; who    *)
(* gets it then is an heir.                                                 *)
LEMMA WaitStep ==
  ASSUME IndInv, [Next]_vars, RequestsWait
  PROVE  RequestsWait'
<1> DEFINE Own(f) == owner[f] \notin heirs \union {None}
<1>0. /\ BacklogIsNew /\ EventsAreDue /\ FreeIsClean
      /\ backlog \in Seq(Conn) /\ recv_queue \in Seq(Fd) /\ reading \in SUBSET Fd
      /\ owner \in [Fd -> Conn \union {None}]
      /\ input \in [Fd -> Seq(0..4)] /\ None \notin Conn /\ None \notin Fd
  BY LobbyAssumption DEF IndInv, TypeOK
<1>w. \A i \in DOMAIN recv_queue :
        /\ recv_queue[i] \in Fd
        /\ Own(recv_queue[i]) =>
             /\ recv_queue[i] \notin reading /\ Len(input[recv_queue[i]]) = SEG
             /\ \A j \in DOMAIN recv_queue : recv_queue[j] = recv_queue[i] => j = i
  BY <1>0 DEF RequestsWait
<1>h. heirs \subseteq heirs' /\ (accept_connections \/ heirs' = heirs)
  BY HeirsStay
<1>1. CASE accept_connections
  <2> DEFINE b == Head(backlog)
  <2>1. UNCHANGED <<input, recv_queue>>
    BY <1>1 DEF accept_connections, recvs
  <2>3. PICK f \in Fd : /\ owner' = [owner EXCEPT ![f] = b]
                        /\ reading' = reading \union {f}
                        /\ heirs' = IF LeftOver(f) THEN heirs \union {b} ELSE heirs
    BY <1>1 DEF accept_connections, AcceptOn
  <2> HIDE DEF b
  <2>4. ASSUME NEW i \in DOMAIN recv_queue, recv_queue[i] = f
        PROVE  ~Own(f)'
    BY <1>0, <2>3, <2>4 DEF LeftOver
  <2>5. ASSUME NEW i \in DOMAIN recv_queue, Own(recv_queue[i])'
        PROVE  Own(recv_queue[i]) /\ recv_queue[i] # f
    <3>1. recv_queue[i] # f
      BY <2>1, <2>4, <2>5
    <3> QED
      BY <1>0, <1>h, <1>w, <2>1, <2>3, <2>5, <3>1
  <2>6. ASSUME NEW i \in DOMAIN recv_queue, Own(recv_queue[i])'
        PROVE  /\ recv_queue[i] \notin reading' /\ Len(input[recv_queue[i]]) = SEG
               /\ \A j \in DOMAIN recv_queue : recv_queue[j] = recv_queue[i] => j = i
    BY <1>w, <2>3, <2>5, <2>6
  <2> QED
    BY <2>1, <2>6 DEF RequestsWait
<1>2. CASE process_usr_request
  <2>1. UNCHANGED <<owner, heirs>>
    BY <1>2 DEF process_usr_request, conns
  <2>2. CASE recv_queue = <<>>
    <3>1. recv_queue' = <<>>
      BY <1>2, <2>2 DEF process_usr_request
    <3> QED
      BY <3>1 DEF RequestsWait
  <2>3. CASE recv_queue # <<>>
    <3> DEFINE f == Head(recv_queue)
    <3>1. /\ recv_queue' = Tail(recv_queue)
          /\ \/ UNCHANGED <<input, reading>>
             \/ /\ input' = [input EXCEPT ![f] = <<>>]
                /\ reading' = reading \/ reading' = reading \union {f}
      BY <1>2, <2>3 DEF process_usr_request
    <3>2. /\ f = recv_queue[1] /\ 1 \in DOMAIN recv_queue
          /\ \A i \in DOMAIN recv_queue' : i + 1 \in DOMAIN recv_queue
                                           /\ recv_queue'[i] = recv_queue[i + 1]
          /\ DOMAIN recv_queue' \subseteq Nat \ {0}
      BY <1>0, <2>3, <3>1, TailOf
    <3> HIDE DEF f
    <3>3. ASSUME NEW i \in DOMAIN recv_queue', Own(recv_queue'[i])
          PROVE  /\ recv_queue'[i] \in Fd /\ recv_queue'[i] # f
                 /\ recv_queue'[i] \notin reading /\ Len(input[recv_queue'[i]]) = SEG
                 /\ \A j \in DOMAIN recv_queue' : recv_queue'[j] = recv_queue'[i] => j = i
      BY <1>w, <3>2, <3>3
    <3>5. ASSUME NEW i \in DOMAIN recv_queue', Own(recv_queue'[i])
          PROVE  /\ recv_queue'[i] \notin reading'
                 /\ input'[recv_queue'[i]] = input[recv_queue'[i]]
      BY <1>0, <3>1, <3>3, <3>5
    <3> QED
      BY <2>1, <3>3, <3>5 DEF RequestsWait
  <2> QED
    BY <2>2, <2>3
<1>3. ASSUME NEW f \in Fd, read_incoming_data(f)
      PROVE  RequestsWait'
  <2>0. <<"in", f>> \in batch
    BY <1>3 DEF read_incoming_data, Takes
  <2>1. f \in reading
    BY <1>0, <2>0 DEF EventsAreDue
  <2>2. UNCHANGED <<owner, heirs>>
    BY <1>3 DEF read_incoming_data, conns
  <2>3. PICK buffered : /\ input' = [input EXCEPT ![f] = buffered]
                        /\ IF Len(buffered) = SEG
                           THEN PushRecv(f) /\ reading' = reading \ {f}
                           ELSE UNCHANGED <<recv_queue, reading>>
    BY <1>3 DEF read_incoming_data, recvs
  <2>4. ASSUME NEW i \in DOMAIN recv_queue, Own(recv_queue[i])
        PROVE  /\ recv_queue[i] # f /\ recv_queue[i] \notin reading'
               /\ Len(input'[recv_queue[i]]) = SEG
    <3>1. recv_queue[i] # f /\ recv_queue[i] \notin reading
      BY <1>w, <2>1, <2>4
    <3> QED
      BY <1>0, <1>w, <2>3, <2>4, <3>1
  <2>6. CASE recv_queue' = recv_queue
    BY <1>w, <2>2, <2>4, <2>6 DEF RequestsWait
  <2>7. CASE recv_queue' # recv_queue
    <3>1. /\ recv_queue' = Append(recv_queue, f) /\ reading' = reading \ {f}
          /\ Len(buffered) = SEG
      BY <2>3, <2>7 DEF PushRecv
    <3>2. /\ \A i \in DOMAIN recv_queue' :
               \/ i \in DOMAIN recv_queue /\ recv_queue'[i] = recv_queue[i]
               \/ i = Len(recv_queue) + 1 /\ recv_queue'[i] = f
      BY <1>0, <3>1, AppendOf
    <3>3. Len(input'[f]) = SEG /\ f \notin reading'
      BY <1>0, <2>3, <3>1
    <3>4. ASSUME NEW i \in DOMAIN recv_queue', NEW j \in DOMAIN recv_queue',
                 Own(recv_queue'[i]), recv_queue'[j] = recv_queue'[i]
          PROVE  j = i
      BY <1>w, <2>4, <3>2, <3>4
    <3>5. ASSUME NEW i \in DOMAIN recv_queue', Own(recv_queue'[i])
          PROVE  recv_queue'[i] \notin reading' /\ Len(input'[recv_queue'[i]]) = SEG
      BY <2>4, <3>2, <3>3, <3>5
    <3> QED
      BY <2>2, <3>4, <3>5 DEF RequestsWait
  <2> QED
    BY <2>6, <2>7
<1>4. ASSUME NEW f \in Fd, disconnect_handler(f)
      PROVE  RequestsWait'
  <2>1. /\ UNCHANGED <<heirs, recv_queue>> /\ owner' = [owner EXCEPT ![f] = None]
        /\ input' = [input EXCEPT ![f] = <<>>] /\ reading' = reading \ {f}
    BY <1>4 DEF disconnect_handler, recvs
  <2>2. \A g \in Fd : Own(g)' => Own(g) /\ input'[g] = input[g]
    BY <1>0, <2>1
  <2> QED
    BY <1>w, <2>1, <2>2 DEF RequestsWait
<1>5. CASE UNCHANGED <<recv_queue, reading, input, owner, heirs>>
  BY <1>5, <1>w DEF RequestsWait
<1> QED
  BY <1>h, <1>1, <1>2, <1>3, <1>4, <1>5, RequestFrame

(* Only clients that are connected send, and a result goes to a connection  *)
(* that was accepted.                                                       *)
LEMMA IdleStep ==
  ASSUME IndInv, [Next]_vars, NewIsIdle
  PROVE  NewIsIdle'
<1> USE DEF NewIsIdle
<1>0. /\ NewIsIdle /\ FreeIsClean /\ OthersAreDown /\ BacklogIsNew /\ EventsAreDue
      /\ peer \in [Conn -> {"none", "up", "down"}]
      /\ ui \in [Conn -> {"idle", "searching", "cancelling", "playing"}]
      /\ wire \in [Conn -> Seq(0..4)] /\ mail \in [Conn -> Seq(Result)]
      /\ owner \in [Fd -> Conn \union {None}] /\ None \notin Conn /\ None \notin Fd
  BY LobbyAssumption DEF IndInv, TypeOK
<1>p. ASSUME NEW f \in Fd, owner[f] # None
      PROVE  peer[owner[f]] # "none"
  <2>1. owner[f] \in Conn /\ fdOf[owner[f]] = f
    BY <1>0, <1>p DEF OthersAreDown, Owned
  <2> QED
    BY <1>0, <2>1 DEF BacklogIsNew
<1>1. CASE Client
  <2>1. PICK c \in Conn : Connect(c) \/ start_search(c) \/ stop_search(c)
                          \/ handle_tcp_response(c) \/ HangUp(c)
    BY <1>1 DEF Client
  <2>2. peer[c] = "up" \/ peer'[c] = "up"
    BY <1>0, <2>1 DEF Connect, start_search, stop_search, handle_tcp_response, HangUp
  <2>3. peer'[c] # "none" /\ \A d \in Conn : d # c => peer'[d] = peer[d]
    BY <1>0, <2>1 DEF Connect, start_search, stop_search, handle_tcp_response, HangUp
  <2>4. ASSUME NEW d \in Conn, d # c
        PROVE  ui'[d] = ui[d] /\ wire'[d] = wire[d] /\ mail'[d] = mail[d]
    BY <1>0, <2>1, <2>4 DEF Connect, start_search, stop_search, handle_tcp_response, HangUp,
       send_tcp, streams
  <2> QED
    BY <1>0, <2>3, <2>4
<1>2. ASSUME NEW f \in Fd, read_incoming_data(f) \/ disconnect_handler(f)
      PROVE  NewIsIdle'
  <2>1. owner[f] # None
    BY <1>0, <1>2 DEF read_incoming_data, disconnect_handler, Takes, EventsAreDue, FreeIsClean
  <2>2. \A d \in Conn : d # owner[f] => wire'[d] = wire[d]
    BY <1>0, <1>2 DEF read_incoming_data, disconnect_handler
  <2> QED
    BY <1>0, <1>p, <1>2, <2>1, <2>2 DEF read_incoming_data, disconnect_handler, clients
<1>3. ASSUME NEW f \in Fd, SendAll(f)
      PROVE  NewIsIdle'
  <2>1. owner[f] # None
    BY <1>0, <1>3 DEF SendAll, Sends, FreeIsClean
  <2>2. \A d \in Conn : d # owner[f] => mail'[d] = mail[d]
    BY <1>0, <1>3 DEF SendAll
  <2> QED
    BY <1>0, <1>p, <1>3, <2>1, <2>2 DEF SendAll, clients
<1>4. CASE UNCHANGED <<peer, ui, wire, mail>>
  BY <1>0, <1>4
<1>5. \/ Client
      \/ \E f \in Fd : read_incoming_data(f) \/ disconnect_handler(f) \/ SendAll(f)
      \/ UNCHANGED <<peer, ui, wire, mail>>
  <2> USE DEF clients, streams, outside
  <2>1. CASE Orchestrator
    BY <2>1 DEF Orchestrator, epoll_wait, accept_connections, process_broker,
         process_usr_request, NothingToSend, ReadFails, SendPart, SendFails
  <2>2. CASE Matchmaker \/ PortReturned
    BY <2>2 DEF Matchmaker, NextRound, process_broker_msg, TakesMessage, form_match, PopPlayer,
         Notify, PortReturned
  <2>3. CASE UNCHANGED vars
    BY <2>3 DEF vars
  <2> QED
    BY <2>1, <2>2, <2>3 DEF Next
<1> QED
  BY <1>1, <1>2, <1>3, <1>4, <1>5

(* Requests are sent whole, and taken whole from the front of the stream.   *)
LEMMA WholeStep ==
  ASSUME IndInv, [Next]_vars, NewIsIdle, RequestsWait, RequestsStayWhole
  PROVE  RequestsStayWhole'
<1>0. /\ BacklogIsNew /\ recv_queue \in Seq(Fd) /\ SEG \in Nat \ {0} /\ None \notin Conn
      /\ peer \in [Conn -> {"none", "up", "down"}]
      /\ \A d \in Conn : Stream(d) \in Seq(0..4)
  BY LobbyAssumption, StreamType DEF IndInv, TypeOK
<1> SUFFICES ASSUME NEW c \in Conn, peer'[c] = "up", c \notin heirs'
             PROVE  Len(Stream(c)') % SEG = 0
  BY DEF RequestsStayWhole
<1>h. c \notin heirs
  BY HeirsStay
<1>1. peer[c] # "down"
  BY <1>0, ConnectionFrame DEF Connect, HangUp, accept_connections, disconnect_handler, clients,
     conns
<1>2. Len(Stream(c)) % SEG = 0
  <2>1. CASE peer[c] = "up"
    BY <1>h, <2>1 DEF RequestsStayWhole
  <2>2. CASE peer[c] = "none"
    <3>1. Stream(c) = <<>>
      BY <1>0, <2>2 DEF NewIsIdle, BacklogIsNew, Stream
    <3>2. 0 % SEG = 0
      BY <1>0
    <3> QED
      BY <3>1, <3>2
  <2> QED
    BY <1>0, <1>1, <2>1, <2>2
<1>3. ASSUME NEW d \in Conn, start_search(d) \/ stop_search(d)
      PROVE  Len(Stream(c)') % SEG = 0
  <2>1. PICK e \in 0..4 : send_tcp(d, e)
    BY <1>3 DEF start_search, stop_search, MATCH_REQUEST, MATCH_CANCEL
  <2>2. UNCHANGED <<input, owner, fdOf>>
    BY <1>3 DEF start_search, stop_search, buffers, conns
  <2>3. Stream(c)' = IF c = d THEN Stream(c) \o Frame(e) ELSE Stream(c)
    BY <2>1, <2>2, SendStream
  <2>4. Len(Stream(c) \o Frame(e)) % SEG = 0
    BY <1>0, <1>2, AskedMore
  <2> QED
    BY <1>2, <2>3, <2>4
<1>4. CASE process_usr_request
  <2>1. CASE Stream(c)' = Stream(c)
    BY <1>2, <2>1
  <2>2. CASE /\ recv_queue # <<>> /\ owner[Head(recv_queue)] = c
             /\ Stream(c)' \in Seq(0..4)
             /\ Stream(c) = input[Head(recv_queue)] \o Stream(c)'
    <3>1. Head(recv_queue) \in Fd /\ Len(input[Head(recv_queue)]) = SEG
      BY <1>0, <1>h, <2>2, TailOf DEF RequestsWait
    <3>2. input[Head(recv_queue)] \in Seq(0..4)
      BY <3>1 DEF IndInv, TypeOK
    <3> QED
      BY <1>2, <2>2, <3>1, <3>2, AskedLess
  <2> QED
    BY <1>4, <2>1, <2>2, RequestStream
<1>5. ASSUME NEW f \in Fd, disconnect_handler(f)
      PROVE  Len(Stream(c)') % SEG = 0
  BY <1>1, <1>2, <1>5, DisconnectStream
<1>6. ASSUME NEW f \in Fd, read_incoming_data(f)
      PROVE  Len(Stream(c)') % SEG = 0
  BY <1>2, <1>6, ReadKeepsStream
<1>7. CASE accept_connections
  BY <1>2, <1>7, AcceptKeepsStream
<1>8. CASE UNCHANGED <<wire, input, owner, fdOf>>
  BY <1>2, <1>8 DEF Stream
<1> QED
  BY <1>3, <1>4, <1>5, <1>6, <1>7, <1>8, StreamFrame

-----------------------------------------------------------------------------
(* The stages of a search                                                   *)

Lone(S) == \A x, y \in S : x = y

At(R, s) == {i \in DOMAIN s : s[i] \in R}

(* A stage has no place more than before, and none that came up.            *)
Shrinks(S, T) == (Lone(S) => Lone(T)) /\ (S = {} => T = {})

(* What taking the head of a queue does to the places in it ...             *)
LEMMA AtTail ==
  ASSUME NEW T, NEW s \in Seq(T), s # <<>>, NEW R
  PROVE  /\ Shrinks(At(R, s), At(R, Tail(s)))
         /\ Head(s) \in R => At(R, s) # {}
         /\ Head(s) \in R /\ Lone(At(R, s)) => At(R, Tail(s)) = {}
<1>1. /\ Head(s) = s[1] /\ 1 \in DOMAIN s /\ DOMAIN Tail(s) \subseteq Nat \ {0}
      /\ \A i \in DOMAIN Tail(s) : i + 1 \in DOMAIN s /\ Tail(s)[i] = s[i + 1]
  BY TailOf
<1> DEFINE t == Tail(s)
<1> HIDE DEF t
<1>2. \A i \in At(R, t) : i \in Nat \ {0} /\ i + 1 \in At(R, s)
  BY <1>1 DEF At, t
<1>3. Head(s) \in R => 1 \in At(R, s)
  BY <1>1 DEF At
<1>4. \A i, j \in Nat \ {0} : i + 1 # 1 /\ (i + 1 = j + 1 => i = j)
  OBVIOUS
<1> QED
  BY <1>2, <1>3, <1>4 DEF Shrinks, Lone, t

(* ... and putting something at its end.                                    *)
LEMMA AtAppend ==
  ASSUME NEW T, NEW s \in Seq(T), NEW e \in T, NEW R
  PROVE  /\ e \notin R => At(R, Append(s, e)) = At(R, s)
         /\ At(R, s) = {} => Lone(At(R, Append(s, e)))
<1>1. /\ \A i \in DOMAIN s : i \in DOMAIN Append(s, e) /\ Append(s, e)[i] = s[i]
      /\ \A i \in DOMAIN Append(s, e) :
           \/ i \in DOMAIN s /\ Append(s, e)[i] = s[i]
           \/ i = Len(s) + 1 /\ Append(s, e)[i] = e
  BY AppendOf
<1> DEFINE t == Append(s, e)
           n == Len(s) + 1
<1> HIDE DEF t, n
<1>2. \A i : i \in At(R, t) => i \in At(R, s) \/ (i = n /\ e \in R)
  BY <1>1 DEF At, t, n
<1>3. At(R, s) \subseteq At(R, t)
  BY <1>1 DEF At, t
<1>4. e \notin R => At(R, t) = At(R, s)
  BY <1>2, <1>3
<1>5. At(R, s) = {} => \A i \in At(R, t) : i = n
  BY <1>2
<1>6. At(R, s) = {} => Lone(At(R, t))
  BY <1>5 DEF Lone
<1> QED
  BY <1>4, <1>6 DEF t

RequestsOf(c) == {r \in Request : r.player_id = c /\ r.event_type = MATCH_REQUEST}
PlayersOf(c) == {p \in Player : p.player_id = c}
ResultsOf(c) == {r \in Result : r.player_id = c}

Sought(c) == Asked(Stream(c))
Passed(c) == At(RequestsOf(c), q_session_man)
Waiting(c) == {p \in players : p.player_id = c}
Popped(c) == At(PlayersOf(c), match)
Decided(c) == At(ResultsOf(c), q_orch)
Sending(c) == {f \in Fd : output[f] # None /\ output[f].player_id = c}
Answered(c) == DOMAIN mail[c]

Nothing(c) ==
  /\ Sought(c) = {} /\ Passed(c) = {} /\ Waiting(c) = {} /\ Popped(c) = {}
  /\ Decided(c) = {} /\ Sending(c) = {} /\ Answered(c) = {}

(* At most one place in all the stages.                                     *)
Single(c) ==
  /\ Lone(Sought(c)) /\ Lone(Passed(c)) /\ Lone(Waiting(c)) /\ Lone(Popped(c))
  /\ Lone(Decided(c)) /\ Lone(Sending(c)) /\ Lone(Answered(c))
  /\ Sought(c) # {} => /\ Passed(c) = {} /\ Waiting(c) = {} /\ Popped(c) = {}
                       /\ Decided(c) = {} /\ Sending(c) = {} /\ Answered(c) = {}
  /\ Passed(c) # {} => /\ Waiting(c) = {} /\ Popped(c) = {}
                       /\ Decided(c) = {} /\ Sending(c) = {} /\ Answered(c) = {}
  /\ Waiting(c) # {} => /\ Popped(c) = {}
                        /\ Decided(c) = {} /\ Sending(c) = {} /\ Answered(c) = {}
  /\ Popped(c) # {} => Decided(c) = {} /\ Sending(c) = {} /\ Answered(c) = {}
  /\ Decided(c) # {} => Sending(c) = {} /\ Answered(c) = {}
  /\ Sending(c) # {} => Answered(c) = {}

InSearch(c) == ui[c] \in {"searching", "cancelling"} \/ peer[c] = "down"

Settled(c) == Single(c) /\ (Nothing(c) \/ InSearch(c))

(* A stage of a queue is what the queue has of the client.                  *)
LEMMA PlacesOf ==
  ASSUME TypeOK, NEW c \in Conn
  PROVE  /\ Passed(c) = {i \in Of(c, q_session_man) :
                           q_session_man[i].event_type = MATCH_REQUEST}
         /\ Popped(c) = Of(c, match) /\ Decided(c) = Of(c, q_orch)
<1>0. /\ q_session_man \in Seq(Request) /\ match \in Seq(Player) /\ q_orch \in Seq(Result)
  BY DEF TypeOK
<1>1. Passed(c) = {i \in Of(c, q_session_man) : q_session_man[i].event_type = MATCH_REQUEST}
  <2>1. \A i \in DOMAIN q_session_man : q_session_man[i] \in Request
    BY <1>0
  <2> QED
    BY <2>1 DEF Passed, At, Of, RequestsOf
<1>2. Popped(c) = Of(c, match)
  <2>1. \A i \in DOMAIN match : match[i] \in Player
    BY <1>0
  <2> QED
    BY <2>1 DEF Popped, At, Of, PlayersOf
<1>3. Decided(c) = Of(c, q_orch)
  <2>1. \A i \in DOMAIN q_orch : q_orch[i] \in Result
    BY <1>0
  <2> QED
    BY <2>1 DEF Decided, At, Of, ResultsOf
<1> QED
  BY <1>1, <1>2, <1>3

(* The stages are the places of Searching, each under its own name.         *)
LEMMA Stages ==
  ASSUME TypeOK, NEW c \in Conn
  PROVE  /\ \A x, z : <<x, z>> \in Searching(c) <=>
              \/ x = "asked" /\ z \in Sought(c)
              \/ x = "passed" /\ z \in Passed(c)
              \/ x = "waiting" /\ z \in Waiting(c)
              \/ x = "popped" /\ z \in Popped(c)
              \/ x = "decided" /\ z \in Decided(c)
              \/ x = "sending" /\ z \in Sending(c)
              \/ x = "answered" /\ z \in Answered(c)
         /\ \A y \in Searching(c) : \E x, z : y = <<x, z>>
<1>4. Searching(c) =
        ({"asked"} \X Sought(c)) \union ({"passed"} \X Passed(c))
        \union ({"waiting"} \X Waiting(c)) \union ({"popped"} \X Popped(c))
        \union ({"decided"} \X Decided(c)) \union ({"sending"} \X Sending(c))
        \union ({"answered"} \X Answered(c))
  BY PlacesOf DEF Searching, Sought, Waiting, Sending, Answered
<1> QED
  BY <1>4

LEMMA OutcomeOfStages ==
  ASSUME TypeOK, NEW c \in Conn
  PROVE  ((\A x, y \in Searching(c) : x = y) /\ (Searching(c) # {} => InSearch(c)))
         <=> Settled(c)
<1>1. ASSUME \A x, y \in Searching(c) : x = y
      PROVE  Single(c)
  <2>2. /\ \A z \in Sought(c) : <<"asked", z>> \in Searching(c)
        /\ \A z \in Passed(c) : <<"passed", z>> \in Searching(c)
        /\ \A z \in Waiting(c) : <<"waiting", z>> \in Searching(c)
        /\ \A z \in Popped(c) : <<"popped", z>> \in Searching(c)
        /\ \A z \in Decided(c) : <<"decided", z>> \in Searching(c)
        /\ \A z \in Sending(c) : <<"sending", z>> \in Searching(c)
        /\ \A z \in Answered(c) : <<"answered", z>> \in Searching(c)
    BY Stages
  <2>3. /\ Lone(Sought(c)) /\ Lone(Passed(c)) /\ Lone(Waiting(c)) /\ Lone(Popped(c))
        /\ Lone(Decided(c)) /\ Lone(Sending(c)) /\ Lone(Answered(c))
    BY <1>1, <2>2 DEF Lone
  <2>4. Sought(c) # {} => /\ Passed(c) = {} /\ Waiting(c) = {} /\ Popped(c) = {}
                          /\ Decided(c) = {} /\ Sending(c) = {} /\ Answered(c) = {}
    BY <1>1, <2>2
  <2>5. Passed(c) # {} => /\ Waiting(c) = {} /\ Popped(c) = {}
                          /\ Decided(c) = {} /\ Sending(c) = {} /\ Answered(c) = {}
    BY <1>1, <2>2
  <2>6. Waiting(c) # {} => /\ Popped(c) = {}
                           /\ Decided(c) = {} /\ Sending(c) = {} /\ Answered(c) = {}
    BY <1>1, <2>2
  <2>7. Popped(c) # {} => Decided(c) = {} /\ Sending(c) = {} /\ Answered(c) = {}
    BY <1>1, <2>2
  <2>8. /\ Decided(c) # {} => Sending(c) = {} /\ Answered(c) = {}
        /\ Sending(c) # {} => Answered(c) = {}
    BY <1>1, <2>2
  <2> QED
    BY <2>3, <2>4, <2>5, <2>6, <2>7, <2>8 DEF Single
<1>2. ASSUME Single(c), NEW u \in Searching(c), NEW v \in Searching(c)
      PROVE  u = v
  <2>1. PICK w, y : u = <<w, y>>
    BY Stages
  <2>2. PICK x, z : v = <<x, z>>
    BY Stages
  <2>3. w = x /\ y = z
    BY <1>2, <2>1, <2>2, Stages DEF Single, Lone
  <2> QED
    BY <2>1, <2>2, <2>3
<1>3. Searching(c) = {} <=> Nothing(c)
  <2>1. ASSUME Searching(c) = {} PROVE Nothing(c)
    BY <2>1, Stages DEF Nothing
  <2>2. ASSUME Nothing(c) PROVE Searching(c) = {}
    BY <2>2, Stages DEF Nothing
  <2> QED
    BY <2>1, <2>2
<1> QED
  BY <1>1, <1>2, <1>3 DEF Settled

(* A step that only takes places away, or moves one, keeps it settled.      *)
LEMMA Fewer ==
  ASSUME NEW c, Settled(c), InSearch(c) => InSearch(c)',
         Shrinks(Sought(c), Sought(c)'), Shrinks(Passed(c), Passed(c)'),
         Shrinks(Waiting(c), Waiting(c)'), Shrinks(Popped(c), Popped(c)'),
         Shrinks(Decided(c), Decided(c)'), Shrinks(Sending(c), Sending(c)'),
         Shrinks(Answered(c), Answered(c)')
  PROVE  Settled(c)'
BY DEF Settled, Single, Nothing, Shrinks

LEMMA TailLone ==
  ASSUME NEW S, NEW s \in Seq(S), s # <<>>, Lone(DOMAIN s)
  PROVE  DOMAIN Tail(s) = {}
<1>1. Len(s) \in Nat \ {0} /\ DOMAIN s = 1 .. Len(s)
  OBVIOUS
<1>2. Len(s) = 1
  <2>1. 1 \in 1 .. Len(s) /\ Len(s) \in 1 .. Len(s)
    BY <1>1
  <2> QED
    BY <1>1, <2>1 DEF Lone
<1> DEFINE t == Tail(s)
<1>3. t \in Seq(S) /\ Len(t) = 0
  BY <1>2, TailOf
<1> HIDE DEF t
<1>4. DOMAIN t = {}
  BY <1>3
<1> QED
  BY <1>4 DEF t

LEMMA NoPlaces ==
  ASSUME NEW S, NEW s \in Seq(S), DOMAIN s = {}
  PROVE  s = <<>>
<1>1. Len(s) \in Nat /\ DOMAIN s = 1 .. Len(s)
  OBVIOUS
<1>2. Len(s) = 0
  BY <1>1
<1> QED
  BY <1>2

LEMMA Same ==
  ASSUME NEW S, NEW T, S = T
  PROVE  Shrinks(S, T)
BY DEF Shrinks

-----------------------------------------------------------------------------
(* What each step does to the stages                                        *)

(* The parts of SearchInv, stage by stage.                                  *)
Searches ==
  /\ NewIsIdle /\ SeqNumsDiffer /\ MatchIsFirst /\ RequestsWait /\ RequestsStayWhole
  /\ NoHeirs => /\ OneHolder /\ EntriesFollowPlayers
                /\ \A c \in Conn : Settled(c)

(* Who touches the places of a search.                                      *)
LEMMA StageFrame ==
  ASSUME [Next]_vars
  PROVE  \/ Client \/ accept_connections \/ process_usr_request \/ process_broker
         \/ process_broker_msg \/ PopPlayer \/ Notify
         \/ \E f \in Fd : read_incoming_data(f) \/ disconnect_handler(f) \/ SendAll(f)
         \/ UNCHANGED <<clients, streams, input, output, owner, fdOf,
                        q_session_man, players, match, q_orch>>
<1> USE DEF conns, buffers, outside, orchestrator, broker, forming, pq
<1>2. CASE Orchestrator
  BY <1>2 DEF Orchestrator, epoll_wait, NothingToSend, ReadFails, SendPart, SendFails
<1>3. CASE Matchmaker \/ PortReturned
  BY <1>3 DEF Matchmaker, NextRound, form_match, PortReturned
<1>4. CASE UNCHANGED vars
  BY <1>4 DEF vars
<1> QED
  BY <1>2, <1>3, <1>4 DEF Next

(* A client's own steps: a search begins when there is no other, and ends   *)
(* with its answer.                                                         *)
LEMMA ClientSettled ==
  ASSUME IndInv, Searches, NoHeirs, Client, NEW c \in Conn
  PROVE  Settled(c)'
<1> USE DEF MATCH_REQUEST, MATCH_CANCEL
<1>0. /\ Settled(c) /\ NewIsIdle
      /\ ui \in [Conn -> {"idle", "searching", "cancelling", "playing"}]
      /\ peer \in [Conn -> {"none", "up", "down"}] /\ mail \in [Conn -> Seq(Result)]
      /\ wire \in [Conn -> Seq(0..4)] /\ Stream(c) \in Seq(0..4)
  BY StreamType DEF IndInv, TypeOK, Searches
<1>1. PICK d \in Conn : Connect(d) \/ start_search(d) \/ stop_search(d)
                        \/ handle_tcp_response(d) \/ HangUp(d)
  BY DEF Client
<1>2. /\ Passed(c)' = Passed(c) /\ Waiting(c)' = Waiting(c) /\ Popped(c)' = Popped(c)
      /\ Decided(c)' = Decided(c) /\ Sending(c)' = Sending(c)
  <2>1. UNCHANGED <<q_session_man, players, match, q_orch, output>>
    BY <1>1 DEF Connect, start_search, stop_search, handle_tcp_response, HangUp, broker, pq,
       forming, buffers
  <2> QED
    BY <2>1 DEF Passed, Waiting, Popped, Decided, Sending
<1>3. UNCHANGED <<input, owner, fdOf>>
  BY <1>1 DEF Connect, start_search, stop_search, handle_tcp_response, HangUp, buffers, conns
<1>4. CASE c # d
  <2>1. ui'[c] = ui[c] /\ peer'[c] = peer[c] /\ mail'[c] = mail[c] /\ wire'[c] = wire[c]
    BY <1>0, <1>1, <1>4 DEF Connect, start_search, stop_search, handle_tcp_response, HangUp,
       send_tcp, streams
  <2>2. Sought(c)' = Sought(c) /\ Answered(c)' = Answered(c) /\ InSearch(c)' = InSearch(c)
    BY <1>3, <2>1 DEF Sought, Stream, Asked, Begins, Answered, InSearch
  <2> QED
    BY <1>0, <1>2, <2>2 DEF Settled, Single, Nothing
<1>5. CASE c = d /\ Connect(d)
  <2>1. ~InSearch(c) /\ UNCHANGED <<wire, mail>>
    BY <1>0, <1>5 DEF Connect, NewIsIdle, InSearch, streams
  <2>2. Sought(c)' = Sought(c) /\ Answered(c)' = Answered(c)
    BY <1>3, <2>1 DEF Sought, Stream, Asked, Begins, Answered
  <2> QED
    BY <1>0, <1>2, <2>1, <2>2 DEF Settled, Single, Nothing
<1>6. CASE c = d /\ (start_search(d) \/ stop_search(d))
  <2>0. peer[c] = "up" /\ mail' = mail /\ InSearch(c)'
    BY <1>0, <1>6 DEF start_search, stop_search, InSearch
  <2>1. Len(Stream(c)) % SEG = 0 /\ Answered(c)' = Answered(c)
    BY <2>0 DEF Searches, RequestsStayWhole, NoHeirs, Answered
  <2>2. CASE start_search(d)
    <3>0. send_tcp(d, MATCH_REQUEST) /\ MATCH_REQUEST \in 0..4
      BY <2>2 DEF start_search
    <3>1. Stream(c)' = Stream(c) \o Frame(MATCH_REQUEST)
      BY <1>3, <1>6, <3>0, SendStream
    <3>2. ~InSearch(c)
      BY <1>6, <2>2 DEF start_search, InSearch
    <3>3. Sought(c)' \subseteq Sought(c) \union {Len(Stream(c)) + 1}
      <4>1. Asked(Stream(c) \o Frame(MATCH_REQUEST))
              \subseteq Asked(Stream(c)) \union {Len(Stream(c)) + 1}
        BY <1>0, <2>1, <3>0, AskedMore
      <4>2. Asked(Stream(c))' = Asked(Stream(c) \o Frame(MATCH_REQUEST))
        BY <3>1, Zenon DEF Asked, Begins
      <4> QED
        BY <4>1, <4>2 DEF Sought
    <3> QED
      BY <1>0, <1>2, <2>0, <2>1, <3>2, <3>3 DEF Settled, Single, Nothing, Lone
  <2>3. CASE stop_search(d)
    <3>0. send_tcp(d, MATCH_CANCEL) /\ MATCH_CANCEL \in 0..4
      BY <2>3 DEF stop_search
    <3>1. Stream(c)' = Stream(c) \o Frame(MATCH_CANCEL)
      BY <1>3, <1>6, <3>0, SendStream
    <3>2. Sought(c)' = Sought(c)
      <4>1. Asked(Stream(c) \o Frame(MATCH_CANCEL)) = Asked(Stream(c))
        BY <1>0, <2>1, <3>0, AskedMore
      <4>2. Asked(Stream(c))' = Asked(Stream(c) \o Frame(MATCH_CANCEL))
        BY <3>1, Zenon DEF Asked, Begins
      <4> QED
        BY <4>1, <4>2 DEF Sought
    <3> QED
      BY <1>0, <1>2, <2>0, <2>1, <3>2 DEF Settled, Single, Nothing
  <2> QED
    BY <1>6, <2>2, <2>3
<1>7. CASE c = d /\ handle_tcp_response(d)
  <2>1. /\ mail[c] # <<>> /\ mail'[c] = Tail(mail[c]) /\ wire' = wire
    BY <1>0, <1>7 DEF handle_tcp_response
  <2>2. Sought(c)' = Sought(c)
    BY <1>3, <2>1 DEF Sought, Stream, Asked, Begins
  <2>3. Answered(c) # {} /\ Lone(Answered(c))
    BY <1>0, <2>1 DEF Answered, Settled, Single
  <2>4. mail[c] \in Seq(Result)
    BY <1>0
  <2>5. Answered(c)' = {}
    BY <2>1, <2>3, <2>4, TailLone DEF Answered
  <2> QED
    BY <1>0, <1>2, <2>2, <2>3, <2>5 DEF Settled, Single, Nothing, Lone
<1>8. CASE c = d /\ HangUp(d)
  <2>1. mail'[c] = <<>> /\ wire' = wire /\ InSearch(c)'
    BY <1>0, <1>8 DEF HangUp, InSearch
  <2>2. Sought(c)' = Sought(c)
    BY <1>3, <2>1 DEF Sought, Stream, Asked, Begins
  <2>3. Answered(c)' = {}
    BY <2>1 DEF Answered
  <2> QED
    BY <1>0, <1>2, <2>1, <2>2, <2>3 DEF Settled, Single, Nothing, Lone
<1> QED
  BY <1>1, <1>4, <1>5, <1>6, <1>7, <1>8

(* What is read, or belonged to a closed connection, makes no new place; a  *)
(* request processed takes its place to the broker; a result that is taken  *)
(* from the broker or sent takes its own along.                             *)
LEMMA RequestSettled ==
  ASSUME IndInv, Searches, NoHeirs, process_usr_request, NEW c \in Conn
  PROVE  Settled(c)'
<1>0. /\ Settled(c) /\ RequestsWait /\ heirs = {} /\ recv_queue \in Seq(Fd) /\ q_session_man \in Seq(Request)
      /\ owner \in [Fd -> Conn \union {None}] /\ input \in [Fd -> Seq(0..4)]
      /\ None \notin Conn /\ SEG \in Nat \ {0} /\ Stream(c) \in Seq(0..4)
  BY LobbyAssumption, StreamType DEF IndInv, TypeOK, Searches, NoHeirs
<1>1. /\ Waiting(c)' = Waiting(c) /\ Popped(c)' = Popped(c) /\ Decided(c)' = Decided(c)
      /\ Sending(c)' = Sending(c) /\ Answered(c)' = Answered(c) /\ InSearch(c)' = InSearch(c)
  BY DEF process_usr_request, clients, streams, forming, pq, Waiting, Popped, Decided, Sending,
     Answered, InSearch
<1>2. CASE recv_queue = <<>> \/ owner[Head(recv_queue)] = None
  <2>1. q_session_man' = q_session_man
    BY <1>2 DEF process_usr_request
  <2>2. Passed(c)' = Passed(c)
    BY <2>1 DEF Passed
  <2>3. Stream(c)' = Stream(c)
    BY <1>0, <1>2, RequestStream
  <2>4. Sought(c)' = Sought(c)
    BY <2>3 DEF Sought, Asked, Begins
  <2> QED
    BY <1>0, <1>1, <2>2, <2>4 DEF Settled, Single, Nothing
<1>3. CASE ~(recv_queue = <<>> \/ owner[Head(recv_queue)] = None)
  <2> DEFINE f == Head(recv_queue)
             e == input[f][1]
             r == [player_id |-> owner[f], fd |-> f, event_type |-> e]
  <2>1. f \in Fd /\ owner[f] \in Conn /\ Len(input[f]) = SEG /\ input[f] \in Seq(0..4)
    BY <1>0, <1>3, TailOf DEF RequestsWait
  <2>2. input[f] # <<>> /\ e \in 0..4
    BY <1>0, <2>1
  <2>3. r \in Request
    BY <2>1, <2>2 DEF Request
  <2>4. q_session_man' = q_session_man \/ q_session_man' = Append(q_session_man, r)
    <3>1. EventType(input[f]) = {e}
      BY <2>2 DEF EventType
    <3> QED
      BY <1>3, <3>1 DEF process_usr_request
  <2> HIDE DEF f, e, r
  <2>5. r \in RequestsOf(c) <=> owner[f] = c /\ e = MATCH_REQUEST
    <3>1. r.player_id = owner[f] /\ r.event_type = e
      BY DEF r
    <3> QED
      BY <2>3, <3>1 DEF RequestsOf
  <2>6. r \notin RequestsOf(c) => Passed(c)' = Passed(c)
    <3>1. CASE q_session_man' = q_session_man
      BY <3>1 DEF Passed, At
    <3>2. CASE q_session_man' = Append(q_session_man, r)
      <4>1. Passed(c)' = At(RequestsOf(c), Append(q_session_man, r))
        BY <3>2 DEF Passed, At
      <4> QED
        BY <1>0, <2>3, <4>1, AtAppend DEF Passed
    <3> QED
      BY <2>4, <3>1, <3>2
  <2>7. Passed(c) = {} => Lone(Passed(c)')
    <3>1. CASE q_session_man' = q_session_man
      BY <1>0, <3>1 DEF Passed, At, Settled, Single
    <3>2. CASE q_session_man' = Append(q_session_man, r)
      <4>1. Passed(c)' = At(RequestsOf(c), Append(q_session_man, r))
        BY <3>2 DEF Passed, At
      <4> QED
        BY <1>0, <2>3, <4>1, AtAppend DEF Passed
    <3> QED
      BY <2>4, <3>1, <3>2
  <2>8. CASE owner[f] # c
    <3>1. Stream(c)' = Stream(c)
      BY <1>0, <1>3, <2>8, RequestStream DEF f
    <3>2. Sought(c)' = Sought(c) /\ Passed(c)' = Passed(c)
      BY <2>5, <2>6, <2>8, <3>1 DEF Sought, Asked, Begins
    <3> QED
      BY <1>0, <1>1, <3>2 DEF Settled, Single, Nothing
  <2>9. CASE owner[f] = c
    <3>1. Stream(c)' \in Seq(0..4) /\ Stream(c) = input[f] \o Stream(c)'
      BY <1>3, <2>9, RequestStream DEF f
    <3> DEFINE t == Stream(c)'
    <3> HIDE DEF t
    <3>2. /\ \A i \in Asked(t) : SEG + i \in Asked(input[f] \o t) /\ SEG + i # 1
          /\ e = MATCH_REQUEST => 1 \in Asked(input[f] \o t)
      BY <2>1, <3>1, AskedLess DEF t, e
    <3>3. Sought(c)' = Asked(t) /\ Sought(c) = Asked(input[f] \o t)
      BY <3>1 DEF Sought, Asked, Begins, t
    <3>4. \A i \in Asked(t) : i \in Nat
      BY <3>1 DEF Asked, Begins, t
    <3>5. \A i, j \in Nat : SEG + i = SEG + j => i = j
      BY <1>0
    <3>6. Shrinks(Sought(c), Sought(c)')
      BY <3>2, <3>3, <3>4, <3>5 DEF Shrinks, Lone
    <3>7. CASE e # MATCH_REQUEST
      <4>1. Passed(c)' = Passed(c)
        BY <2>5, <2>6, <3>7
      <4> QED
        BY <1>0, <1>1, <3>6, <4>1 DEF Shrinks, Settled, Single, Nothing
    <3>8. CASE e = MATCH_REQUEST
      <4>1. Lone(Sought(c)) /\ 1 \in Sought(c)
        BY <1>0, <3>2, <3>3, <3>8 DEF Settled, Single
      <4>2. Sought(c)' = {}
        BY <3>2, <3>3, <4>1 DEF Lone
      <4>3. Passed(c) = {} /\ InSearch(c)
        BY <1>0, <4>1 DEF Settled, Single, Nothing
      <4> QED
        BY <1>0, <1>1, <2>7, <4>1, <4>2, <4>3 DEF Settled, Single, Lone
    <3> QED
      BY <3>7, <3>8
  <2> QED
    BY <2>8, <2>9
<1> QED
  BY <1>2, <1>3

(* A result in a buffer is for the client that has the descriptor.          *)
LEMMA BufferOwner ==
  ASSUME IndInv, OneHolder, NEW f \in Fd, output[f] # None
  PROVE  /\ output[f] \in Result /\ owner[f] \in Conn
         /\ output[f].player_id = owner[f]
<1>1. /\ output \in [Fd -> Result \union {None}] /\ owner \in [Fd -> Conn \union {None}]
      /\ FreeIsClean
  BY DEF IndInv, TypeOK
<1>2. output[f] \in Result /\ owner[f] \in Conn /\ owner[f] # None
  BY <1>1, LobbyAssumption DEF FreeIsClean
<1> QED
  BY <1>2 DEF OneHolder

LEMMA OrchestratorSettled ==
  ASSUME IndInv, Searches, NoHeirs, NEW c \in Conn,
         \/ accept_connections \/ process_broker
         \/ \E f \in Fd : read_incoming_data(f) \/ disconnect_handler(f) \/ SendAll(f)
  PROVE  Settled(c)'
<1>0. /\ Settled(c) /\ FreeIsClean /\ OthersAreDown /\ IdentityTravels /\ EventsAreDue
      /\ SignalsMatchQueues
      /\ output \in [Fd -> Result \union {None}] /\ q_orch \in Seq(Result)
      /\ mail \in [Conn -> Seq(Result)] /\ owner \in [Fd -> Conn \union {None}]
      /\ fdOf \in [Conn -> Fd \union {None}]
      /\ None \notin Conn /\ None \notin Fd /\ OneHolder
  BY LobbyAssumption DEF IndInv, TypeOK, Searches
<1>1. UNCHANGED clients
  BY DEF accept_connections, process_broker, read_incoming_data, disconnect_handler, SendAll
<1>2. /\ Passed(c)' = Passed(c) /\ Waiting(c)' = Waiting(c) /\ Popped(c)' = Popped(c)
      /\ InSearch(c)' = InSearch(c)
  <2>1. UNCHANGED <<q_session_man, players, match, ui, peer>>
    BY <1>1 DEF accept_connections, process_broker, read_incoming_data, disconnect_handler,
       SendAll, broker, forming, pq, clients
  <2> QED
    BY <2>1 DEF Passed, Waiting, Popped, InSearch
<1>3. ASSUME accept_connections \/ \E f \in Fd : read_incoming_data(f)
      PROVE  Settled(c)'
  <2>1. Stream(c)' = Stream(c)
    BY <1>3, AcceptKeepsStream, ReadKeepsStream
  <2>2. UNCHANGED <<q_orch, output, mail>>
    BY <1>3 DEF accept_connections, read_incoming_data, streams, broker
  <2>3. /\ Sought(c)' = Sought(c) /\ Decided(c)' = Decided(c) /\ Sending(c)' = Sending(c)
        /\ Answered(c)' = Answered(c)
    BY <2>1, <2>2 DEF Sought, Asked, Begins, Decided, Sending, Answered
  <2> QED
    BY <1>0, <1>2, <2>3 DEF Settled, Single, Nothing
<1>4. ASSUME NEW f \in Fd, disconnect_handler(f)
      PROVE  Settled(c)'
  <2>1. UNCHANGED <<q_orch, mail>> /\ output' = [output EXCEPT ![f] = None]
    BY <1>4 DEF disconnect_handler, broker
  <2>2. Decided(c)' = Decided(c) /\ Answered(c)' = Answered(c)
    BY <2>1 DEF Decided, Answered
  <2>3. Sending(c)' \subseteq Sending(c)
    BY <1>0, <2>1 DEF Sending
  <2>4. Stream(c)' = Stream(c) \/ Stream(c)' = <<>>
    BY <1>4, DisconnectStream
  <2>5. Sought(c)' \subseteq Sought(c)
    BY <2>4 DEF Sought, Asked, Begins
  <2> QED
    BY <1>0, <1>2, <2>2, <2>3, <2>5 DEF Settled, Single, Nothing, Lone
<1>5. CASE process_broker
  <2> DEFINE r == Head(q_orch)
             f == r.fd
  <2>1. q_orch # <<>>
    BY <1>0, <1>5 DEF process_broker, Takes, EventsAreDue, SignalsMatchQueues
  <2>2. /\ UNCHANGED <<wire, mail, input, owner, fdOf>> /\ q_orch' = Tail(q_orch)
        /\ \/ output' = output
           \/ output[f] = None /\ output' = [output EXCEPT ![f] = r]
    BY <1>5 DEF process_broker, streams, conns, OutputFree
  <2>3. r \in Result /\ f \in Fd
    <3>1. r \in Result
      BY <1>0, <2>1, TailOf
    <3>2. f \in Fd
      BY <3>1 DEF Result
    <3> QED
      BY <3>1, <3>2
  <2> HIDE DEF r, f
  <2>4. Sought(c)' = Sought(c) /\ Answered(c)' = Answered(c)
    BY <2>2 DEF Sought, Asked, Begins, Stream, Answered
  <2>5. /\ Shrinks(Decided(c), Decided(c)')
        /\ r \in ResultsOf(c) => Decided(c) # {}
        /\ r \in ResultsOf(c) /\ Lone(Decided(c)) => Decided(c)' = {}
    <3>1. Decided(c)' = At(ResultsOf(c), Tail(q_orch))
      BY <2>2 DEF Decided, At, ResultsOf
    <3> QED
      BY <1>0, <2>1, <3>1, AtTail DEF Decided, r
  <2>6. CASE r.player_id # c
    <3>1. Sending(c)' \subseteq Sending(c)
      BY <1>0, <2>2, <2>3, <2>6 DEF Sending
    <3> QED
      BY <1>0, <1>2, <2>4, <2>5, <3>1 DEF Settled, Single, Nothing, Shrinks, Lone
  <2>7. CASE r.player_id = c
    <3>1. r \in ResultsOf(c)
      BY <2>3, <2>7 DEF ResultsOf
    <3>2. Decided(c) # {} /\ Decided(c)' = {} /\ Sending(c) = {}
      BY <1>0, <2>5, <3>1 DEF Settled, Single
    <3>3. Sending(c)' \subseteq {f}
      BY <1>0, <2>2, <2>3, <3>2 DEF Sending
    <3> QED
      BY <1>0, <1>2, <2>4, <3>2, <3>3 DEF Settled, Single, Nothing, Lone
  <2> QED
    BY <2>6, <2>7
<1>6. ASSUME NEW f \in Fd, SendAll(f)
      PROVE  Settled(c)'
  <2> DEFINE d == owner[f]
  <2>1. output[f] # None /\ output[f] \in Result
    BY <1>0, <1>6 DEF SendAll, Sends
  <2>2. d \in Conn /\ fdOf[d] = f
    BY <1>0, <2>1 DEF FreeIsClean, OthersAreDown, Owned
  <2>3. output[f].player_id = d
    BY <1>0, <2>1, BufferOwner
  <2>4. /\ UNCHANGED <<wire, input, owner, fdOf, q_orch>>
        /\ output' = [output EXCEPT ![f] = None]
        /\ mail' = mail \/ mail' = [mail EXCEPT ![d] = Append(mail[d], output[f])]
    BY <1>6 DEF SendAll, conns, broker
  <2> HIDE DEF d
  <2>5. Sought(c)' = Sought(c) /\ Decided(c)' = Decided(c)
    BY <2>4 DEF Sought, Asked, Begins, Stream, Decided
  <2>6. Sending(c)' \subseteq Sending(c) \ {f}
    BY <1>0, <2>4 DEF Sending
  <2>7. CASE c # d
    <3>1. mail'[c] = mail[c]
      BY <1>0, <2>2, <2>4, <2>7
    <3>2. Answered(c)' = Answered(c)
      BY <3>1 DEF Answered
    <3> QED
      BY <1>0, <1>2, <2>5, <2>6, <3>2 DEF Settled, Single, Nothing, Lone
  <2>8. CASE c = d
    <3>1. f \in Sending(c)
      BY <2>1, <2>3, <2>8 DEF Sending
    <3>2. Sending(c)' = {} /\ Answered(c) = {}
      BY <1>0, <2>6, <3>1 DEF Settled, Single, Lone
    <3>3. Lone(Answered(c)')
      <4>0. mail[c] \in Seq(Result)
        BY <1>0
      <4>1. mail[c] = <<>>
        BY <3>2, <4>0, NoPlaces DEF Answered
      <4>2. mail'[c] = <<>> \/ mail'[c] = <<output[f]>>
        BY <1>0, <2>4, <2>8, <4>1
      <4> QED
        BY <4>2 DEF Answered, Lone
    <3> QED
      BY <1>0, <1>2, <2>5, <3>1, <3>2, <3>3 DEF Settled, Single, Nothing, Lone
  <2> QED
    BY <2>7, <2>8
<1> QED
  BY <1>3, <1>4, <1>5, <1>6

-----------------------------------------------------------------------------
(* The queue of players                                                     *)

(* A player goes with its entry.                                            *)
Leaves(p) ==
  /\ players' = players \ {p}
  /\ fd_seq_mapping' = [fd_seq_mapping EXCEPT ![p.fd] = <<>>]
  /\ cur_size' = Decremented(cur_size)

LEMMA RemoveLeaves ==
  ASSUME IndInv, SeqNumsDiffer, EntriesFollowPlayers, NEW f \in Fd, pq_remove_player(f)
  PROVE  \E p \in players : p.fd = f /\ Leaves(p)
<1>1. fd_seq_mapping[f] # <<>> /\ \A p \in players : p.seq_num \in Nat
  BY DEF pq_remove_player, NotFound, IndInv, TypeOK, QueueTypeOK, Player
<1>2. PICK p \in players : p.fd = f
  BY <1>1 DEF EntriesFollowPlayers
<1>3. fd_seq_mapping[f] = <<p.seq_num>>
  BY <1>2 DEF EntriesFollowPlayers
<1>4. Head(fd_seq_mapping[f]) = p.seq_num /\ Tail(fd_seq_mapping[f]) = <<>>
  BY <1>3
<1>5. players' = {q \in players : q.seq_num # p.seq_num}
  BY <1>4 DEF pq_remove_player
<1>6. players' = players \ {p}
  BY <1>5 DEF SeqNumsDiffer
<1>7. fd_seq_mapping' = [fd_seq_mapping EXCEPT ![p.fd] = <<>>]
  BY <1>2, <1>4 DEF pq_remove_player
<1> QED
  BY <1>2, <1>6, <1>7 DEF Leaves, pq_remove_player

LEMMA PopLeaves ==
  ASSUME EntriesFollowPlayers, NEW p \in players, pop_from_queue(p)
  PROVE  Leaves(p)
<1>1. fd_seq_mapping[p.fd] = <<p.seq_num>>
  BY DEF EntriesFollowPlayers
<1>2. fd_seq_mapping[p.fd] # <<>> /\ Tail(fd_seq_mapping[p.fd]) = <<>>
  BY <1>1
<1> QED
  BY <1>2 DEF pop_from_queue, Leaves

(* The message taken from the broker: there is one, for the descriptor of   *)
(* the client that it names.                                                *)
LEMMA MessageTaken ==
  ASSUME IndInv, process_broker_msg
  PROVE  /\ q_session_man # <<>> /\ q_session_man' = Tail(q_session_man)
         /\ Head(q_session_man) \in Request
         /\ fdOf[Head(q_session_man).player_id] = Head(q_session_man).fd
<1>1. /\ SignalsMatchQueues /\ MatchmakerPlace /\ IdentityTravels
      /\ q_session_man \in Seq(Request)
  BY DEF IndInv, TypeOK
<1>2. "msg" \in mbatch /\ q_session_man' = Tail(q_session_man)
  BY DEF process_broker_msg, TakesMessage
<1>3. Len(q_session_man) > 0
  BY <1>1, <1>2 DEF SignalsMatchQueues, MatchmakerPlace
<1>4. q_session_man # <<>>
  BY <1>3
<1>5. Head(q_session_man) = q_session_man[1] /\ 1 \in DOMAIN q_session_man
      /\ Head(q_session_man) \in Request
  BY <1>1, <1>4, TailOf
<1> QED
  BY <1>1, <1>2, <1>4, <1>5 DEF IdentityTravels, Names

(* The players of the message's connection are those of its descriptor.     *)
LEMMA OneOwner ==
  ASSUME IndInv, OneHolder, process_broker_msg, NEW p \in players
  PROVE  p.fd = Head(q_session_man).fd <=> p.player_id = Head(q_session_man).player_id
<1> DEFINE m == Head(q_session_man)
<1>1. /\ m \in Request /\ fdOf[m.player_id] = m.fd
      /\ 1 \in DOMAIN q_session_man /\ m = q_session_man[1]
  <2>1. q_session_man \in Seq(Request)
    BY DEF IndInv, TypeOK
  <2> QED
    BY <2>1, MessageTaken, TailOf
<1>2. fdOf[p.player_id] = p.fd
  BY DEF IndInv, IdentityTravels
<1> HIDE DEF m
<1>3. m.fd \in Fd
  BY <1>1 DEF Request
<1>4. ASSUME p.fd = m.fd
      PROVE  p.player_id = m.player_id
  BY <1>1, <1>3, <1>4 DEF OneHolder, HeldBy
<1> QED
  BY <1>1, <1>2, <1>4 DEF m

LEMMA SeqNumsStep ==
  ASSUME IndInv, [Next]_vars, SeqNumsDiffer
  PROVE  SeqNumsDiffer'
<1>0. seq_num \in Nat /\ \A p \in players : p.seq_num \in Nat
  BY DEF IndInv, TypeOK, QueueTypeOK, Player
<1>1. ASSUME NEW f, NEW c, pq_add_player(f, c)
      PROVE  SeqNumsDiffer'
  <2> DEFINE new == [seq_num |-> seq_num, fd |-> f, player_id |-> c]
  <2>1. players' = players \union {new} /\ seq_num' = seq_num + 1 /\ new.seq_num = seq_num
    BY <1>1 DEF pq_add_player
  <2> HIDE DEF new
  <2>2. \A p \in players' : (p \in players /\ p.seq_num < seq_num)
                            \/ (p = new /\ p.seq_num = seq_num)
    BY <2>1 DEF SeqNumsDiffer
  <2> QED
    BY <1>0, <2>1, <2>2 DEF SeqNumsDiffer
<1>2. ASSUME players' \subseteq players, seq_num' = seq_num
      PROVE  SeqNumsDiffer'
  BY <1>2 DEF SeqNumsDiffer
<1>3. CASE process_broker_msg
  BY <1>1, <1>2, <1>3 DEF process_broker_msg, ProcessRequest, ProcessCancel, ProcessUnknown,
     pq_remove_player, pq
<1>4. CASE PopPlayer
  BY <1>2, <1>4 DEF PopPlayer, pop_from_queue, pq
<1> QED
  BY <1>2, <1>3, <1>4, MatchmakerFrame DEF NextRound, form_match, Notify, PortReturned, pq

(* Who is popped was the first, and every pop is counted.                   *)
LEMMA FirstStep ==
  ASSUME IndInv, [Next]_vars, SeqNumsDiffer, MatchIsFirst
  PROVE  MatchIsFirst'
<1>0. /\ MatchmakerPlace /\ match \in Seq(Player) /\ players \subseteq Player
      /\ cur_size \in Nat /\ PLAYERS_PER_MATCH \in Nat
  BY LobbyAssumption, QueueAssumption DEF IndInv, TypeOK, QueueTypeOK
<1>1. CASE PopPlayer
  <2> SUFFICES ASSUME mpc' = "form"
               PROVE  /\ \A i \in DOMAIN match' : \A p \in players' :
                           match'[i].seq_num < p.seq_num
                      /\ \A i, j \in DOMAIN match' :
                           match'[i].seq_num = match'[j].seq_num => i = j
                      /\ Len(match') + cur_size' >= PLAYERS_PER_MATCH
    BY DEF MatchIsFirst
  <2>1. mpc = "form" /\ ~QueueEmpty
    BY <1>1 DEF PopPlayer
  <2>2. PICK p \in players : pop_from_queue(p) /\ match' = Append(match, p)
    BY <1>1, <2>1 DEF PopPlayer
  <2>3. /\ players' = players \ {p} /\ cur_size' = cur_size - 1
        /\ \A o \in players' : p.seq_num < o.seq_num
    <3>1. \A o \in players : o.seq_num \in Nat /\ p.seq_num <= o.seq_num
      BY <1>0, <2>2 DEF pop_from_queue, IsFirst, Player
    <3>2. players' = players \ {p} /\ cur_size' = Decremented(cur_size)
      BY <2>2 DEF pop_from_queue
    <3> QED
      BY <1>0, <2>1, <3>1, <3>2 DEF QueueEmpty, Decremented, SeqNumsDiffer
  <2>4. /\ Len(match') = Len(match) + 1 /\ Len(match) \in Nat
        /\ \A i \in DOMAIN match' :
             \/ i \in DOMAIN match /\ match'[i] = match[i]
             \/ i = Len(match) + 1 /\ match'[i] = p
    BY <1>0, <2>2, AppendOf
  <2>5. /\ \A i \in DOMAIN match : match[i].seq_num < p.seq_num
        /\ \A i \in DOMAIN match : match[i].seq_num \in Nat
        /\ p.seq_num \in Nat
    <3>1. \A i \in DOMAIN match : match[i] \in Player
      BY <1>0
    <3>2. \A o \in Player : o.seq_num \in Nat
      BY DEF Player
    <3> QED
      BY <1>0, <2>1, <3>1, <3>2 DEF MatchIsFirst
  <2>6. \A i \in DOMAIN match' : \A o \in players' : match'[i].seq_num < o.seq_num
    BY <2>1, <2>3, <2>4 DEF MatchIsFirst
  <2>7. \A i, j \in DOMAIN match' : match'[i].seq_num = match'[j].seq_num => i = j
    BY <2>1, <2>4, <2>5 DEF MatchIsFirst
  <2>8. Len(match') + cur_size' >= PLAYERS_PER_MATCH
    BY <1>0, <2>1, <2>3, <2>4 DEF MatchIsFirst
  <2> QED
    BY <2>6, <2>7, <2>8
<1>2. CASE form_match \/ Notify
  <2> SUFFICES ASSUME mpc' = "form"
               PROVE  match' = <<>> /\ cur_size' >= PLAYERS_PER_MATCH /\ cur_size' \in Nat
    BY <1>0 DEF MatchIsFirst
  <2>1. match' = <<>> /\ CanForm /\ cur_size' = cur_size
    BY <1>0, <1>2 DEF form_match, Notify, MatchmakerPlace, pq
  <2> QED
    BY <1>0, <2>1 DEF CanForm, pq_ready
<1>3. CASE process_broker_msg \/ NextRound
  <2>1. mpc' # "form"
    BY <1>3 DEF process_broker_msg, TakesMessage, NextRound
  <2> QED
    BY <2>1 DEF MatchIsFirst
<1>4. CASE UNCHANGED <<mpc, match, players, cur_size>>
  BY <1>4 DEF MatchIsFirst
<1> QED
  BY <1>1, <1>2, <1>3, <1>4, MatchmakerFrame DEF PortReturned, pq, forming

(* A request that arrives finds no entry of its descriptor: the search is in *)
(* one place.                                                               *)
LEMMA RequestIsNew ==
  ASSUME IndInv, Searches, NoHeirs, process_broker_msg,
         Head(q_session_man).event_type = MATCH_REQUEST
  PROVE  \A p \in players : p.fd # Head(q_session_man).fd
<1> DEFINE m == Head(q_session_man)
           c == m.player_id
<1>1. m \in Request /\ fdOf[c] = m.fd /\ q_session_man # <<>>
  BY MessageTaken
<1>2. q_session_man \in Seq(Request)
  BY DEF IndInv, TypeOK
<1>3. c \in Conn /\ m.fd \in Fd /\ m \in RequestsOf(c)
  BY <1>1 DEF Request, RequestsOf
<1>4. Passed(c) # {}
  BY <1>1, <1>2, <1>3, AtTail DEF Passed
<1>5. Waiting(c) = {}
  BY <1>3, <1>4 DEF Searches, Settled, Single
<1> QED
  BY <1>3, <1>5, OneOwner DEF Waiting, Searches

LEMMA EntriesStep ==
  ASSUME IndInv, Searches, NoHeirs, [Next]_vars
  PROVE  EntriesFollowPlayers'
<1>0. /\ EntriesFollowPlayers /\ SeqNumsDiffer /\ players \subseteq Player
      /\ fd_seq_mapping \in [Fd -> Seq(Nat)] /\ cur_size \in 0..SIZE_MAX /\ seq_num \in Nat
  BY DEF IndInv, TypeOK, QueueTypeOK, Searches
<1>1. ASSUME NEW p \in players, Leaves(p)
      PROVE  EntriesFollowPlayers'
  <2>1. p.fd \in Fd /\ IsFiniteSet(players) /\ cur_size = Cardinality(players)
    BY <1>0 DEF Player, EntriesFollowPlayers
  <2>2. /\ IsFiniteSet(players \ {p}) /\ Cardinality(players \ {p}) = Cardinality(players) - 1
    BY <2>1, FS_RemoveElement
  <2>3. cur_size # 0
    BY <2>1, FS_EmptySet
  <2>4. cur_size' = cur_size - 1
    BY <1>1, <2>3 DEF Leaves, Decremented
  <2>5. \A q \in players : q.fd = p.fd => q = p
    <3>1. \A q \in players : q.fd = p.fd => <<q.seq_num>> = <<p.seq_num>>
      BY <1>0 DEF EntriesFollowPlayers
    <3>2. \A q \in players : q.fd = p.fd => q.seq_num = p.seq_num
      BY <3>1
    <3> QED
      BY <1>0, <3>2 DEF SeqNumsDiffer
  <2>6. \A q \in players' : fd_seq_mapping'[q.fd] = <<q.seq_num>>
    BY <1>0, <1>1, <2>1, <2>5 DEF Leaves, EntriesFollowPlayers, Player
  <2>7. \A f \in Fd : (\A q \in players' : q.fd # f) => fd_seq_mapping'[f] = <<>>
    <3> SUFFICES ASSUME NEW f \in Fd, \A q \in players' : q.fd # f
                 PROVE  fd_seq_mapping'[f] = <<>>
      OBVIOUS
    <3>1. CASE f = p.fd
      BY <1>0, <1>1, <2>1, <3>1 DEF Leaves
    <3>2. CASE f # p.fd
      <4>1. \A q \in players : q.fd # f
        BY <1>1, <3>2 DEF Leaves
      <4> QED
        BY <1>0, <1>1, <2>1, <3>2, <4>1 DEF Leaves, EntriesFollowPlayers
    <3> QED
      BY <3>1, <3>2
  <2>8. IsFiniteSet(players') /\ cur_size' = Cardinality(players')
    BY <1>1, <2>1, <2>2, <2>4 DEF Leaves
  <2> QED
    BY <2>6, <2>7, <2>8 DEF EntriesFollowPlayers
<1>2. ASSUME NEW f \in Fd, NEW c \in Conn, pq_add_player(f, c), \A p \in players : p.fd # f
      PROVE  EntriesFollowPlayers'
  <2> DEFINE new == [seq_num |-> seq_num, fd |-> f, player_id |-> c]
  <2>1. /\ players' = players \union {new} /\ cur_size' = cur_size + 1
        /\ fd_seq_mapping' = [fd_seq_mapping EXCEPT ![f] = <<seq_num>> \o fd_seq_mapping[f]]
        /\ new.fd = f /\ new.seq_num = seq_num
    BY <1>2 DEF pq_add_player
  <2> HIDE DEF new
  <2>2. IsFiniteSet(players) /\ cur_size = Cardinality(players) /\ new \notin players
    BY <1>0, <1>2, <2>1 DEF EntriesFollowPlayers
  <2>3. /\ IsFiniteSet(players \union {new})
        /\ Cardinality(players \union {new}) = Cardinality(players) + 1
    BY <2>2, FS_AddElement
  <2>4. fd_seq_mapping[f] = <<>>
    BY <1>0, <1>2 DEF EntriesFollowPlayers
  <2>5. <<seq_num>> \o fd_seq_mapping[f] = <<seq_num>>
    BY <1>0, <2>4
  <2>6. fd_seq_mapping'[f] = <<seq_num>>
    BY <1>0, <2>1, <2>5
  <2>7. \A g \in Fd : g # f => fd_seq_mapping'[g] = fd_seq_mapping[g]
    BY <1>0, <2>1
  <2>8. \A q \in players' : fd_seq_mapping'[q.fd] = <<q.seq_num>>
    <3>1. \A q \in players : q.fd \in Fd /\ q.fd # f /\ fd_seq_mapping[q.fd] = <<q.seq_num>>
      BY <1>0, <1>2 DEF EntriesFollowPlayers, Player
    <3> QED
      BY <2>1, <2>6, <2>7, <3>1
  <2>9. \A g \in Fd : (\A q \in players' : q.fd # g) => fd_seq_mapping'[g] = <<>>
    BY <1>0, <2>1, <2>7 DEF EntriesFollowPlayers
  <2> QED
    BY <2>1, <2>2, <2>3, <2>8, <2>9 DEF EntriesFollowPlayers
<1>3. CASE UNCHANGED pq
  BY <1>0, <1>3 DEF pq, EntriesFollowPlayers
<1>4. CASE process_broker_msg
  <2> DEFINE m == Head(q_session_man)
  <2>1. m.fd \in Fd /\ m.player_id \in Conn
    BY <1>4, MessageTaken DEF Request
  <2>2. CASE ProcessRequest(m)
    <3>1. m.event_type = MATCH_REQUEST /\ (pq_add_player(m.fd, m.player_id) \/ UNCHANGED pq)
      BY <2>2 DEF ProcessRequest
    <3>2. \A p \in players : p.fd # m.fd
      BY <1>4, <3>1, RequestIsNew
    <3> QED
      BY <1>2, <1>3, <2>1, <3>1, <3>2
  <2>3. CASE ProcessCancel(m)
    <3>1. pq_remove_player(m.fd) \/ UNCHANGED pq
      BY <2>3 DEF ProcessCancel
    <3> QED
      BY <1>0, <1>1, <1>3, <2>1, <3>1, RemoveLeaves
  <2>4. CASE ProcessUnknown(m)
    BY <1>3, <2>4 DEF ProcessUnknown, pq
  <2> QED
    BY <1>4, <2>2, <2>3, <2>4 DEF process_broker_msg
<1>5. CASE PopPlayer
  <2>1. UNCHANGED pq \/ \E p \in players : pop_from_queue(p)
    BY <1>5 DEF PopPlayer
  <2> QED
    BY <1>0, <1>1, <1>3, <2>1, PopLeaves
<1>6. CASE NextRound \/ form_match \/ Notify \/ PortReturned
  BY <1>3, <1>6 DEF NextRound, form_match, Notify, PortReturned
<1> QED
  BY <1>3, <1>4, <1>5, <1>6, MatchmakerFrame

(* A result is put at the end of the queue, or lost.                        *)
LEMMA ResultPushed ==
  ASSUME TypeOK, NEW p, p.player_id \in Conn, p.fd \in Fd,
         NEW e \in {MATCH_FOUND, MATCH_NOT_FOUND}, PushResult(p, e), NEW c \in Conn
  PROVE  /\ p.player_id # c => Decided(c)' = Decided(c)
         /\ Decided(c) = {} => Lone(Decided(c)')
<1> DEFINE r == [player_id |-> p.player_id, fd |-> p.fd, event_type |-> e]
<1>1. r \in Result /\ r.player_id = p.player_id /\ q_orch \in Seq(Result)
  BY DEF Result, TypeOK
<1>2. q_orch' = q_orch \/ q_orch' = Append(q_orch, r)
  BY DEF PushResult
<1> HIDE DEF r
<1>3. CASE q_orch' = q_orch
  BY <1>3 DEF Decided, At, Lone
<1>4. CASE q_orch' = Append(q_orch, r)
  <2>1. Decided(c)' = At(ResultsOf(c), Append(q_orch, r))
    BY <1>4 DEF Decided, At, ResultsOf
  <2>2. p.player_id # c => r \notin ResultsOf(c)
    BY <1>1 DEF ResultsOf
  <2> QED
    BY <1>1, <2>1, <2>2, AtAppend DEF Decided
<1> QED
  BY <1>2, <1>3, <1>4

(* What the matchmaker's steps leave alone.                                 *)
LEMMA MatchmakerAside ==
  ASSUME process_broker_msg \/ PopPlayer \/ Notify, NEW c
  PROVE  /\ Sought(c)' = Sought(c) /\ Sending(c)' = Sending(c) /\ Answered(c)' = Answered(c)
         /\ InSearch(c)' = InSearch(c)
<1>1. UNCHANGED <<clients, streams, buffers, conns>>
  BY DEF process_broker_msg, TakesMessage, PopPlayer, Notify, outside, orchestrator
<1> QED
  BY <1>1 DEF clients, streams, buffers, conns, Sought, Stream, Asked, Begins, Sending, Answered,
     InSearch

(* A request makes its player wait, or is dropped at capacity; a cancel     *)
(* takes the player it answers.                                             *)
LEMMA MessageSettled ==
  ASSUME IndInv, Searches, NoHeirs, process_broker_msg, NEW c \in Conn
  PROVE  Settled(c)'
<1> DEFINE m == Head(q_session_man)
<1>0. /\ Settled(c) /\ TypeOK /\ SeqNumsDiffer /\ EntriesFollowPlayers
      /\ q_session_man \in Seq(Request)
  BY DEF IndInv, TypeOK, Searches
<1>1. /\ m.fd \in Fd /\ m.player_id \in Conn /\ fdOf[m.player_id] = m.fd /\ m \in Request
      /\ q_session_man # <<>> /\ q_session_man' = Tail(q_session_man)
  BY MessageTaken DEF Request
<1>2. /\ Shrinks(Passed(c), Passed(c)')
      /\ m \in RequestsOf(c) => Passed(c) # {}
      /\ m \in RequestsOf(c) /\ Lone(Passed(c)) => Passed(c)' = {}
  <2>1. Passed(c)' = At(RequestsOf(c), Tail(q_session_man))
    BY <1>1 DEF Passed, At, RequestsOf
  <2> QED
    BY <1>0, <1>1, <2>1, AtTail DEF Passed
<1>3. Popped(c)' = Popped(c)
  BY DEF process_broker_msg, TakesMessage, Popped
<1>4. /\ Sought(c)' = Sought(c) /\ Sending(c)' = Sending(c) /\ Answered(c)' = Answered(c)
      /\ InSearch(c)' = InSearch(c)
  BY MatchmakerAside
<1> HIDE DEF m
<1>5. ASSUME Waiting(c)' = Waiting(c), Decided(c)' = Decided(c)
      PROVE  Settled(c)'
  BY <1>0, <1>2, <1>3, <1>4, <1>5 DEF Shrinks, Settled, Single, Nothing
<1>6. CASE ProcessRequest(m)
  <2>1. m.event_type = MATCH_REQUEST /\ Decided(c)' = Decided(c)
    BY <1>6 DEF ProcessRequest, Decided
  <2>2. CASE UNCHANGED pq
    BY <1>5, <2>1, <2>2 DEF Waiting, pq
  <2>3. CASE pq_add_player(m.fd, m.player_id)
    <3> DEFINE new == [seq_num |-> seq_num, fd |-> m.fd, player_id |-> m.player_id]
    <3>1. players' = players \union {new} /\ new.player_id = m.player_id
      BY <2>3 DEF pq_add_player
    <3> HIDE DEF new
    <3>2. CASE m.player_id # c
      <4>1. Waiting(c)' = Waiting(c)
        BY <3>1, <3>2 DEF Waiting
      <4> QED
        BY <1>5, <2>1, <4>1
    <3>3. CASE m.player_id = c
      <4>1. m \in RequestsOf(c)
        BY <1>1, <2>1, <3>3 DEF RequestsOf
      <4>2. Passed(c) # {} /\ Passed(c)' = {} /\ Waiting(c) = {}
        BY <1>0, <1>2, <4>1 DEF Settled, Single
      <4>3. Waiting(c)' \subseteq {new}
        BY <3>1, <4>2 DEF Waiting
      <4> QED
        BY <1>0, <1>3, <1>4, <2>1, <4>2, <4>3 DEF Settled, Single, Nothing, Lone
    <3> QED
      BY <3>2, <3>3
  <2> QED
    BY <1>6, <2>2, <2>3 DEF ProcessRequest
<1>7. CASE ProcessCancel(m)
  <2>1. CASE NotFound(m.fd) /\ UNCHANGED <<pq, q_orch, orch_eventfd>>
    BY <1>5, <2>1 DEF Waiting, Decided, pq
  <2>2. CASE pq_remove_player(m.fd) /\ PushResult(m, MATCH_NOT_FOUND)
    <3>1. PICK p \in players : p.fd = m.fd /\ Leaves(p)
      BY <1>0, <1>1, <2>2, RemoveLeaves
    <3>2. p.player_id = m.player_id
      BY <3>1, OneOwner DEF m, Searches
    <3>3. /\ m.player_id # c => Decided(c)' = Decided(c)
          /\ Decided(c) = {} => Lone(Decided(c)')
      BY <1>0, <1>1, <2>2, ResultPushed
    <3>4. CASE m.player_id # c
      <4>1. Waiting(c)' = Waiting(c)
        BY <3>1, <3>2, <3>4 DEF Leaves, Waiting
      <4> QED
        BY <1>5, <3>3, <3>4, <4>1
    <3>5. CASE m.player_id = c
      <4>1. p \in Waiting(c)
        BY <3>2, <3>5 DEF Waiting
      <4>2. Waiting(c)' = {}
        BY <1>0, <3>1, <4>1 DEF Leaves, Waiting, Settled, Single, Lone
      <4>3. Decided(c) = {} /\ Passed(c) = {}
        BY <1>0, <4>1 DEF Settled, Single
      <4> QED
        BY <1>0, <1>2, <1>3, <1>4, <3>3, <4>1, <4>2, <4>3
           DEF Settled, Single, Nothing, Lone, Shrinks
    <3> QED
      BY <3>4, <3>5
  <2> QED
    BY <1>7, <2>1, <2>2 DEF ProcessCancel
<1>8. CASE ProcessUnknown(m)
  BY <1>5, <1>8 DEF ProcessUnknown, pq, Waiting, Decided
<1> QED
  BY <1>6, <1>7, <1>8 DEF process_broker_msg, m

(* A player popped waits no more.                                           *)
LEMMA PopSettled ==
  ASSUME IndInv, Searches, NoHeirs, PopPlayer, NEW c \in Conn
  PROVE  Settled(c)'
<1>0. Settled(c) /\ match \in Seq(Player) /\ players \subseteq Player
  BY DEF IndInv, TypeOK, QueueTypeOK, Searches
<1>1. /\ Sought(c)' = Sought(c) /\ Sending(c)' = Sending(c) /\ Answered(c)' = Answered(c)
      /\ InSearch(c)' = InSearch(c)
  BY MatchmakerAside
<1>2. Passed(c)' = Passed(c) /\ Decided(c)' = Decided(c)
  BY DEF PopPlayer, broker, Passed, Decided
<1>3. CASE match' = <<>> /\ UNCHANGED pq
  <2>1. Popped(c)' = {} /\ Waiting(c)' = Waiting(c)
    BY <1>3 DEF Popped, At, Waiting, pq
  <2> QED
    BY <1>0, <1>1, <1>2, <2>1 DEF Settled, Single, Nothing, Lone
<1>4. ASSUME NEW p \in players, pop_from_queue(p), match' = Append(match, p)
      PROVE  Settled(c)'
  <2>1. players' = players \ {p} /\ p \in Player
    BY <1>0, <1>4 DEF pop_from_queue
  <2>2. Popped(c)' = At(PlayersOf(c), Append(match, p))
    BY <1>4 DEF Popped, At, PlayersOf
  <2>3. p \in PlayersOf(c) <=> p.player_id = c
    BY <2>1 DEF PlayersOf
  <2>4. /\ p.player_id # c => Popped(c)' = Popped(c)
        /\ Popped(c) = {} => Lone(Popped(c)')
    BY <1>0, <2>1, <2>2, <2>3, AtAppend DEF Popped
  <2>5. CASE p.player_id # c
    <3>1. Waiting(c)' = Waiting(c)
      BY <2>1, <2>5 DEF Waiting
    <3> QED
      BY <1>0, <1>1, <1>2, <2>4, <2>5, <3>1 DEF Settled, Single, Nothing
  <2>6. CASE p.player_id = c
    <3>1. p \in Waiting(c)
      BY <2>6 DEF Waiting
    <3>2. Waiting(c)' = {} /\ Popped(c) = {}
      BY <1>0, <2>1, <3>1 DEF Waiting, Settled, Single, Lone
    <3> QED
      BY <1>0, <1>1, <1>2, <2>4, <3>1, <3>2 DEF Settled, Single, Nothing, Lone
  <2> QED
    BY <2>5, <2>6
<1> QED
  BY <1>3, <1>4 DEF PopPlayer

(* A player told is popped no more.                                         *)
LEMMA NotifySettled ==
  ASSUME IndInv, Searches, NoHeirs, Notify, NEW c \in Conn
  PROVE  Settled(c)'
<1> DEFINE p == Head(match)
<1>0. Settled(c) /\ TypeOK /\ match \in Seq(Player) /\ match # <<>>
  BY DEF IndInv, TypeOK, Searches, MatchmakerPlace, Notify
<1>1. /\ Sought(c)' = Sought(c) /\ Sending(c)' = Sending(c) /\ Answered(c)' = Answered(c)
      /\ InSearch(c)' = InSearch(c)
  BY MatchmakerAside
<1>2. Passed(c)' = Passed(c) /\ Waiting(c)' = Waiting(c)
  BY DEF Notify, pq, Passed, Waiting
<1>3. p \in Player
  BY <1>0, TailOf
<1>4. p.player_id \in Conn /\ p.fd \in Fd
  BY <1>3 DEF Player
<1>5. /\ Shrinks(Popped(c), Popped(c)')
      /\ p \in PlayersOf(c) => Popped(c) # {}
      /\ p \in PlayersOf(c) /\ Lone(Popped(c)) => Popped(c)' = {}
  <2>1. Popped(c)' = At(PlayersOf(c), Tail(match))
    BY DEF Notify, Popped, At, PlayersOf
  <2> QED
    BY <1>0, <2>1, AtTail DEF Popped
<1>6. \E e \in {MATCH_FOUND, MATCH_NOT_FOUND} : PushResult(p, e)
  BY DEF Notify
<1> HIDE DEF p
<1>7. /\ p.player_id # c => Decided(c)' = Decided(c)
      /\ Decided(c) = {} => Lone(Decided(c)')
  BY <1>0, <1>4, <1>6, ResultPushed
<1>8. CASE p.player_id # c
  BY <1>0, <1>1, <1>2, <1>5, <1>7, <1>8 DEF Settled, Single, Nothing, Shrinks
<1>9. CASE p.player_id = c
  <2>1. p \in PlayersOf(c)
    BY <1>3, <1>9 DEF PlayersOf
  <2>2. Popped(c) # {} /\ Popped(c)' = {} /\ Decided(c) = {}
    BY <1>0, <1>5, <2>1 DEF Settled, Single
  <2> QED
    BY <1>0, <1>1, <1>2, <1>7, <2>2 DEF Settled, Single, Nothing, Lone
<1> QED
  BY <1>8, <1>9

-----------------------------------------------------------------------------
(* The theorems                                                             *)

(* What is in a queue, with one place less or more, is of the same holder.  *)
LEMMA HeldTail ==
  ASSUME NEW S, NEW s \in Seq(S), s # <<>>, NEW f, NEW c, HeldBy(f, c, s)
  PROVE  HeldBy(f, c, Tail(s)) /\ (Head(s).fd = f => Head(s).player_id = c)
BY TailOf DEF HeldBy

LEMMA HeldAppend ==
  ASSUME NEW S, NEW s \in Seq(S), NEW e \in S, NEW f, NEW c, HeldBy(f, c, s),
         e.fd = f => e.player_id = c
  PROVE  HeldBy(f, c, Append(s, e))
BY AppendOf DEF HeldBy

(* A result goes to whom it is about.                                       *)
LEMMA HeldResult ==
  ASSUME TypeOK, NEW p \in Player \union Request, NEW e \in {MATCH_FOUND, MATCH_NOT_FOUND},
         PushResult(p, e), NEW f, NEW c, HeldBy(f, c, q_orch), p.fd = f => p.player_id = c
  PROVE  HeldBy(f, c, q_orch')
<1> DEFINE r == [player_id |-> p.player_id, fd |-> p.fd, event_type |-> e]
<1>1. r \in Result /\ q_orch \in Seq(Result)
  BY DEF TypeOK, Result, Player, Request
<1>2. q_orch' = q_orch \/ q_orch' = Append(q_orch, r)
  BY DEF PushResult
<1>3. r.fd = f => r.player_id = c
  OBVIOUS
<1> HIDE DEF r
<1>4. HeldBy(f, c, Append(q_orch, r))
  BY <1>1, <1>3, HeldAppend
<1> QED
  BY <1>2, <1>4

(* The matchmaker and the queues pass on what they got, and a descriptor    *)
(* changes hands only when nothing is left: who gets it is no heir.         *)
LEMMA HolderStep ==
  ASSUME IndInv, [Next]_vars, OneHolder, NoHeirs'
  PROVE  OneHolder'
<1> DEFINE Holder(f, c) ==
             /\ owner[f] \in {c, None}
             /\ \A p \in players : p.fd = f => p.player_id = c
             /\ HeldBy(f, c, match) /\ HeldBy(f, c, q_session_man) /\ HeldBy(f, c, q_orch)
             /\ output[f] # None => output[f].player_id = c
<1>0. /\ TypeOK /\ FreeIsClean /\ SignalsMatchQueues /\ EventsAreDue /\ MatchmakerPlace
      /\ q_orch \in Seq(Result) /\ q_session_man \in Seq(Request) /\ match \in Seq(Player)
      /\ output \in [Fd -> Result \union {None}] /\ owner \in [Fd -> Conn \union {None}]
      /\ players \subseteq Player /\ backlog \in Seq(Conn) /\ recv_queue \in Seq(Fd)
      /\ input \in [Fd -> Seq(0..4)] /\ None \notin Conn /\ None \notin Fd
  BY LobbyAssumption DEF IndInv, TypeOK, QueueTypeOK
<1> SUFFICES ASSUME NEW f \in Fd
             PROVE  \E c \in Conn \union {None} : Holder(f, c)'
  BY DEF OneHolder, HeldBy
<1> PICK c \in Conn \union {None} : Holder(f, c)
  BY DEF OneHolder
<1>1. CASE accept_connections
  <2>1. /\ backlog # <<>> /\ UNCHANGED <<players, match, q_session_man, q_orch, output>>
    BY <1>1 DEF accept_connections, broker, forming, pq
  <2>3. PICK b \in Conn : b = Head(backlog)
    BY <1>0, <2>1, TailOf
  <2>2. PICK g \in Fd : /\ owner[g] = None /\ owner' = [owner EXCEPT ![g] = b]
                        /\ heirs' = IF LeftOver(g) THEN heirs \union {b} ELSE heirs
    BY <1>1, <2>3 DEF accept_connections, AcceptOn, Owned
  <2>4. ~LeftOver(g)
    BY <2>2 DEF NoHeirs
  <2>5. CASE f = g
    <3>1. owner'[f] = b /\ output[f] = None
      BY <1>0, <2>2, <2>5 DEF FreeIsClean
    <3>2. /\ \A p \in players : p.fd # f
          /\ HeldBy(f, b, match) /\ HeldBy(f, b, q_session_man) /\ HeldBy(f, b, q_orch)
      BY <2>4, <2>5 DEF LeftOver, HeldBy
    <3>3. Holder(f, b)'
      BY <2>1, <3>1, <3>2 DEF HeldBy
    <3> QED
      BY <3>3
  <2>6. CASE f # g
    <3>1. owner'[f] = owner[f]
      BY <1>0, <2>2, <2>6
    <3>2. Holder(f, c)'
      BY <2>1, <3>1 DEF HeldBy
    <3> QED
      BY <3>2
  <2> QED
    BY <2>5, <2>6
<1>2. CASE process_usr_request
  <2>1. UNCHANGED <<owner, players, match, q_orch, output>>
    BY <1>2 DEF process_usr_request, conns, forming, pq
  <2>2. CASE recv_queue = <<>> \/ owner[Head(recv_queue)] = None
    <3>1. q_session_man' = q_session_man
      BY <1>2, <2>2 DEF process_usr_request
    <3>2. Holder(f, c)'
      BY <2>1, <3>1 DEF HeldBy
    <3> QED
      BY <3>2
  <2>3. CASE ~(recv_queue = <<>> \/ owner[Head(recv_queue)] = None)
    <3> DEFINE g == Head(recv_queue)
    <3>1. g \in Fd /\ owner[g] \in Conn
      BY <1>0, <2>3, TailOf
    <3>2. \/ q_session_man' = q_session_man
          \/ \E e \in 0..4 : q_session_man' =
               Append(q_session_man, [player_id |-> owner[g], fd |-> g, event_type |-> e])
      <4>1. \A e \in EventType(input[g]) : e \in 0..4
        <5>1. input[g] \in Seq(0..4)
          BY <1>0, <3>1
        <5>2. input[g] # <<>> => input[g][1] \in 0..4
          BY <5>1
        <5> QED
          BY <5>2 DEF EventType, MATCH_REQUEST, MATCH_CANCEL, OtherEvent
      <4> QED
        BY <1>2, <2>3, <4>1 DEF process_usr_request
    <3> HIDE DEF g
    <3>3. ASSUME NEW e \in 0..4
          PROVE  HeldBy(f, c, Append(q_session_man,
                                     [player_id |-> owner[g], fd |-> g, event_type |-> e]))
      <4> DEFINE r == [player_id |-> owner[g], fd |-> g, event_type |-> e]
      <4>1. r \in Request
        BY <3>1 DEF Request
      <4>2. r.fd = f => r.player_id = c
        BY <1>0, <3>1
      <4> HIDE DEF r
      <4>3. HeldBy(f, c, Append(q_session_man, r))
        BY <1>0, <4>1, <4>2, HeldAppend
      <4> QED
        BY <4>3 DEF r
    <3>4. HeldBy(f, c, q_session_man')
      BY <3>2, <3>3
    <3>5. Holder(f, c)'
      BY <2>1, <3>4 DEF HeldBy
    <3> QED
      BY <3>5
  <2> QED
    BY <2>2, <2>3
<1>3. CASE process_broker
  <2>1. /\ q_orch' = Tail(q_orch)
        /\ UNCHANGED <<owner, players, match, q_session_man>>
        /\ output' = output \/ output' = [output EXCEPT ![Head(q_orch).fd] = Head(q_orch)]
    BY <1>3 DEF process_broker, conns, forming, pq
  <2>2. q_orch # <<>>
    <3>1. Len(q_orch) > 0
      BY <1>0, <1>3 DEF process_broker, Takes, EventsAreDue, SignalsMatchQueues
    <3> QED
      BY <1>0, <3>1
  <2>3. HeldBy(f, c, Tail(q_orch)) /\ (Head(q_orch).fd = f => Head(q_orch).player_id = c)
    BY <1>0, <2>2, HeldTail
  <2>4. Head(q_orch) \in Result
    BY <1>0, <2>2, TailOf
  <2>5. output'[f] # None => output'[f].player_id = c
    <3> DEFINE h == Head(q_orch)
    <3>1. output'[f] = output[f] \/ (h.fd = f /\ output'[f] = h)
      BY <1>0, <2>1
    <3> HIDE DEF h
    <3> QED
      BY <2>3, <3>1 DEF h
  <2>6. Holder(f, c)'
    BY <2>1, <2>3, <2>5 DEF HeldBy
  <2> QED
    BY <2>6
<1>4. CASE process_broker_msg
  <2> DEFINE m == Head(q_session_man)
  <2>1. /\ q_session_man' = Tail(q_session_man) /\ UNCHANGED <<owner, match, output>>
        /\ q_session_man # <<>> /\ m \in Request
    BY <1>4, MessageTaken DEF process_broker_msg, TakesMessage, outside, orchestrator, buffers,
       conns
  <2>2. HeldBy(f, c, Tail(q_session_man)) /\ (m.fd = f => m.player_id = c)
    BY <1>0, <2>1, HeldTail
  <2> HIDE DEF m
  <2>3. HeldBy(f, c, q_orch')
    <3>1. q_orch' = q_orch \/ PushResult(m, MATCH_NOT_FOUND)
      BY <1>4 DEF process_broker_msg, ProcessRequest, ProcessCancel, ProcessUnknown, m
    <3>2. ASSUME PushResult(m, MATCH_NOT_FOUND)
          PROVE  HeldBy(f, c, q_orch')
      BY <1>0, <2>1, <2>2, <3>2, HeldResult
    <3> QED
      BY <3>1, <3>2
  <2>4. \A p \in players' : p.fd = f => p.player_id = c
    <3>1. \/ players' \subseteq players
          \/ players' = players \union
               {[seq_num |-> seq_num, fd |-> m.fd, player_id |-> m.player_id]}
      BY <1>4 DEF process_broker_msg, ProcessRequest, ProcessCancel, ProcessUnknown, m,
         pq_add_player, pq_remove_player, pq
    <3> QED
      BY <2>2, <3>1
  <2>5. Holder(f, c)'
    BY <2>1, <2>2, <2>3, <2>4 DEF HeldBy
  <2> QED
    BY <2>5
<1>5. CASE PopPlayer
  <2>1. UNCHANGED <<owner, q_session_man, q_orch, output>>
    BY <1>5 DEF PopPlayer, outside, orchestrator, broker, buffers, conns
  <2>2. /\ players' \subseteq players
        /\ \/ match' = <<>> \/ \E p \in players : match' = Append(match, p)
    BY <1>5 DEF PopPlayer, pop_from_queue, pq
  <2>3. ASSUME NEW p \in players
        PROVE  HeldBy(f, c, Append(match, p))
    <3>1. p \in Player /\ (p.fd = f => p.player_id = c)
      BY <1>0
    <3> QED
      BY <1>0, <3>1, HeldAppend
  <2>4. HeldBy(f, c, <<>>)
    BY DEF HeldBy
  <2>5. HeldBy(f, c, match')
    BY <2>2, <2>3, <2>4
  <2>6. Holder(f, c)'
    BY <2>1, <2>2, <2>5 DEF HeldBy
  <2> QED
    BY <2>6
<1>6. CASE Notify
  <2>1. UNCHANGED <<owner, players, q_session_man, output>> /\ match' = Tail(match)
    BY <1>6 DEF Notify, outside, orchestrator, buffers, conns, pq
  <2>2. match # <<>>
    BY <1>0, <1>6 DEF Notify, MatchmakerPlace
  <2>3. /\ HeldBy(f, c, Tail(match)) /\ (Head(match).fd = f => Head(match).player_id = c)
        /\ Head(match) \in Player
    BY <1>0, <2>2, HeldTail, TailOf
  <2>4. PICK e \in {MATCH_FOUND, MATCH_NOT_FOUND} : PushResult(Head(match), e)
    BY <1>6 DEF Notify
  <2>5. HeldBy(f, c, q_orch')
    BY <1>0, <2>3, <2>4, HeldResult
  <2>6. Holder(f, c)'
    BY <2>1, <2>3, <2>5 DEF HeldBy
  <2> QED
    BY <2>6
<1>7. ASSUME NEW g \in Fd, disconnect_handler(g) \/ SendAll(g)
      PROVE  \E d \in Conn \union {None} : Holder(f, d)'
  <2>1. /\ UNCHANGED <<players, match, q_session_man, q_orch>>
        /\ output' = [output EXCEPT ![g] = None]
        /\ owner' = owner \/ owner' = [owner EXCEPT ![g] = None]
    BY <1>7 DEF disconnect_handler, SendAll, conns, broker, forming, pq
  <2>2. owner'[f] \in {c, None} /\ (output'[f] # None => output'[f] = output[f])
    BY <1>0, <2>1
  <2>3. Holder(f, c)'
    BY <2>1, <2>2 DEF HeldBy
  <2> QED
    BY <2>3
<1>8. CASE UNCHANGED <<output, owner, q_session_man, players, match, q_orch>>
  <2>1. Holder(f, c)'
    BY <1>8 DEF HeldBy
  <2> QED
    BY <2>1
<1>9. CASE Client \/ \E g \in Fd : read_incoming_data(g)
  <2>1. UNCHANGED <<output, owner, q_session_man, players, match, q_orch>>
    BY <1>9 DEF Client, Connect, start_search, stop_search, handle_tcp_response, HangUp,
       read_incoming_data, conns, buffers, broker, forming, pq
  <2> QED
    BY <1>8, <2>1
<1> QED
  BY <1>1, <1>2, <1>3, <1>4, <1>5, <1>6, <1>7, <1>8, <1>9, StageFrame

LEMMA SettledStep ==
  ASSUME IndInv, Searches, NoHeirs, [Next]_vars, NEW c \in Conn
  PROVE  Settled(c)'
<1>1. Settled(c)
  BY DEF Searches
<1>2. ASSUME UNCHANGED <<clients, streams, input, output, owner, fdOf,
                         q_session_man, players, match, q_orch>>
      PROVE  Settled(c)'
  <2>1. /\ Sought(c)' = Sought(c) /\ Passed(c)' = Passed(c) /\ Waiting(c)' = Waiting(c)
        /\ Popped(c)' = Popped(c) /\ Decided(c)' = Decided(c) /\ Sending(c)' = Sending(c)
        /\ Answered(c)' = Answered(c) /\ InSearch(c)' = InSearch(c)
    BY <1>2 DEF clients, streams, Sought, Stream, Asked, Begins, Passed, Waiting, Popped, Decided,
       Sending, Answered, InSearch
  <2> QED
    BY <1>1, <2>1 DEF Settled, Single, Nothing
<1> QED
  BY <1>2, StageFrame, ClientSettled, RequestSettled, OrchestratorSettled, MessageSettled,
     PopSettled, NotifySettled

LEMMA InitSearches == Init => Searches
<1> SUFFICES ASSUME Init PROVE Searches
  OBVIOUS
<1> USE DEF Init
<1>1. NewIsIdle /\ SeqNumsDiffer /\ MatchIsFirst /\ RequestsWait /\ RequestsStayWhole
  BY DEF MatchIsFirst, NewIsIdle, pq_create, SeqNumsDiffer, RequestsWait, RequestsStayWhole
<1>2. EntriesFollowPlayers
  <2>1. IsFiniteSet({}) /\ Cardinality({}) = 0
    BY FS_EmptySet
  <2> QED
    BY <2>1 DEF pq_create, EntriesFollowPlayers
<1>3. ASSUME NEW c \in Conn
      PROVE  Settled(c)
  <2>1. Stream(c) = <<>>
    BY DEF Stream
  <2>2. Sought(c) = {}
    BY <2>1 DEF Sought, Asked, Begins
  <2>3. /\ Passed(c) = {} /\ Waiting(c) = {} /\ Popped(c) = {} /\ Decided(c) = {}
        /\ Answered(c) = {}
    BY DEF pq_create, Passed, At, Waiting, Popped, Decided, Answered
  <2>4. Sending(c) = {}
    BY DEF Sending
  <2> QED
    BY <2>2, <2>3, <2>4 DEF Settled, Single, Nothing, Lone
<1>4. OneHolder
  BY DEF pq_create, OneHolder, HeldBy
<1> QED
  BY <1>1, <1>2, <1>3, <1>4 DEF Searches

LEMMA SearchesOf == TypeOK => (Searches <=> SearchInv)
BY OutcomeOfStages DEF Searches, SearchInv, OneOutcome, InSearch

(* The invariant of a search.  For every client that is no heir, whatever   *)
(* becomes of the others: it waits for its request once, and its requests   *)
(* stay whole.  While there are no heirs: what is under way about a         *)
(* descriptor is of one connection, entries follow players, and a search is *)
(* in one place.                                                            *)
THEOREM SearchesSettle == Spec => []SearchInv
<1>1. Searches /\ IndInv /\ [Next]_vars => Searches'
  <2> SUFFICES ASSUME Searches, IndInv, [Next]_vars PROVE Searches'
    OBVIOUS
  <2>1. /\ NewIsIdle' /\ SeqNumsDiffer' /\ MatchIsFirst'
        /\ RequestsWait' /\ RequestsStayWhole'
    BY IdleStep, SeqNumsStep, FirstStep, WaitStep, WholeStep DEF Searches
  <2>2. ASSUME NoHeirs'
        PROVE  /\ OneHolder' /\ EntriesFollowPlayers'
               /\ \A c \in Conn : Settled(c)'
    <3>1. NoHeirs
      BY <2>2, NoNewHeirs
    <3> QED
      BY <2>2, <3>1, HolderStep, EntriesStep, SettledStep DEF Searches
  <2> QED
    BY <2>1, <2>2 DEF Searches
<1>2. Searches /\ IndInv => SearchInv
  BY SearchesOf DEF IndInv
<1>3. Searches /\ IndInv /\ [Process]_<<vars, running>> => Searches'
  BY <1>1, StepOfProcess
<1> QED
  BY <1>2, <1>3, InitSearches, Inductive, PTL DEF Spec

(* What a client sends is cut into requests where the client cut it, for    *)
(* every client whose own descriptor was free of affairs when it came;      *)
(* descriptors of others may be used again in any way.  For an heir it does *)
(* not hold: an older entry of recv_queue takes its buffer as it is.        *)
THEOREM RequestsCutRight == Spec => []RequestsStayWhole
<1>1. SearchInv => RequestsStayWhole
  BY DEF SearchInv, RequestsStayWhole
<1> QED
  BY <1>1, SearchesSettle, PTL

(* The tree, the table and cur_size agree on who waits, through any number  *)
(* of uses of a descriptor, as long as each finds it free of affairs.       *)
THEOREM QueueStaysInAgreement == Spec => []QueueAgreesWithoutHeirs
<1>1. SearchInv => QueueAgreesWithoutHeirs
  <2> SUFFICES ASSUME EntriesFollowPlayers PROVE QueueAgrees
    BY DEF SearchInv, QueueAgreesWithoutHeirs
  <2> SUFFICES ASSUME NEW f \in Fd
               PROVE  fd_seq_mapping[f] =
                        IF \E p \in players : p.fd = f
                        THEN <<(CHOOSE p \in players : p.fd = f).seq_num>> ELSE <<>>
    BY DEF EntriesFollowPlayers, QueueAgrees
  <2> QED
    BY DEF EntriesFollowPlayers
<1> QED
  BY <1>1, SearchesSettle, PTL

(* As long as there are no heirs, a search has one place at a time, and so  *)
(* at most one outcome.  Descriptors may be used again in that time; with an *)
(* heir it is false, for its cancel takes out the player of the other.      *)
THEOREM SearchesEndOnce == Spec => []OneOutcome
<1>1. SearchInv => OneOutcome
  BY DEF SearchInv, OneOutcome
<1> QED
  BY <1>1, SearchesSettle, PTL

-----------------------------------------------------------------------------
(* The service that the threads implement                                   *)

LEMMA OfTail ==
  ASSUME NEW T, NEW s \in Seq(T), s # <<>>, NEW c, NEW e
  PROVE  /\ Of(c, s) # {} <=> Head(s).player_id = c \/ Of(c, Tail(s)) # {}
         /\ Has(c, e, s) <=> \/ Head(s).player_id = c /\ Head(s).event_type = e
                             \/ Has(c, e, Tail(s))
<1> DEFINE t == Tail(s)
<1>1. /\ Head(s) = s[1] /\ 1 \in DOMAIN s
      /\ \A i \in DOMAIN t : i + 1 \in DOMAIN s /\ t[i] = s[i + 1]
      /\ \A i \in DOMAIN s : i # 1 => i - 1 \in DOMAIN t /\ t[i - 1] = s[i]
  BY TailOf
<1> HIDE DEF t
<1>2. \A i : i \in DOMAIN s => i = 1 \/ (i - 1 \in DOMAIN t /\ t[i - 1] = s[i])
  BY <1>1
<1>3. Of(c, s) # {} <=> s[1].player_id = c \/ Of(c, t) # {}
  <2>1. ASSUME NEW i \in Of(c, s)
        PROVE  s[1].player_id = c \/ Of(c, t) # {}
    BY <1>2, <2>1 DEF Of
  <2>2. ASSUME NEW i \in Of(c, t)
        PROVE  i + 1 \in Of(c, s)
    BY <1>1, <2>2 DEF Of
  <2>3. s[1].player_id = c => 1 \in Of(c, s)
    BY <1>1 DEF Of
  <2> QED
    BY <2>1, <2>2, <2>3
<1>4. Has(c, e, s) <=> (s[1].player_id = c /\ s[1].event_type = e) \/ Has(c, e, t)
  <2>1. ASSUME NEW i \in Of(c, s), s[i].event_type = e
        PROVE  (s[1].player_id = c /\ s[1].event_type = e) \/ Has(c, e, t)
    BY <1>2, <2>1 DEF Of, Has
  <2>2. ASSUME NEW i \in Of(c, t), t[i].event_type = e
        PROVE  Has(c, e, s)
    BY <1>1, <2>2 DEF Of, Has
  <2>3. s[1].player_id = c /\ s[1].event_type = e => Has(c, e, s)
    BY <1>1 DEF Of, Has
  <2> QED
    BY <2>1, <2>2, <2>3 DEF Has
<1> QED
  BY <1>1, <1>3, <1>4 DEF t

LEMMA OfAppend ==
  ASSUME NEW T, NEW s \in Seq(T), NEW r \in T, NEW c, NEW e
  PROVE  /\ Of(c, Append(s, r)) # {} <=> r.player_id = c \/ Of(c, s) # {}
         /\ Has(c, e, Append(s, r)) <=> \/ r.player_id = c /\ r.event_type = e
                                        \/ Has(c, e, s)
<1> DEFINE t == Append(s, r)
           n == Len(s) + 1
<1>1. /\ n \in DOMAIN t /\ t[n] = r
      /\ \A i \in DOMAIN s : i \in DOMAIN t /\ t[i] = s[i]
      /\ \A i \in DOMAIN t : \/ i \in DOMAIN s /\ t[i] = s[i]
                             \/ i = n /\ t[i] = r
  BY AppendOf
<1> HIDE DEF t, n
<1> QED
  BY <1>1 DEF Of, Has, t

Outcomes == {MATCH_FOUND, MATCH_NOT_FOUND}

(* What the service knows of a client stays, or only gets less.             *)
Kinds == {MATCH_REQUEST, MATCH_CANCEL}

Kept(c) ==
  /\ \A k \in Kinds : Requested(c, k)' <=> Requested(c, k)
  /\ \A e \in Outcomes : Answers(c, e)' <=> Answers(c, e)

Thins(c) ==
  /\ \A k \in Kinds : Requested(c, k)' => Requested(c, k)
  /\ \A e \in Outcomes : Answers(c, e)' => Answers(c, e)

LEMMA Stays ==
  ASSUME \A c \in Conn : Kept(c), Line' = Line, seq_num' = seq_num
  PROVE  UNCHANGED Service!service
<1>1. Asking' = Asking /\ Leaving' = Leaving
  BY DEF Kept, Kinds, Asking, Leaving
<1>2. Told' = Told
  BY DEF Kept, Told, Outcomes
<1> QED
  BY <1>1, <1>2 DEF Service!service

(* A client who searches is in one place, and is told one thing.            *)
LEMMA OneStatus ==
  ASSUME TypeOK, NEW c \in Conn, Settled(c), NEW e
  PROVE  /\ Requested(c, MATCH_REQUEST) => ~Answers(c, e)
         /\ Requested(c, MATCH_REQUEST) \/ Answers(c, e) => ~Nothing(c) /\ Waiting(c) = {}
         /\ \A d : Answers(c, e) /\ Answers(c, d) => e = d
<1>1. Requested(c, MATCH_REQUEST) => Sought(c) # {} \/ Passed(c) # {}
  BY PlacesOf DEF Requested, Has, Sought, Asked
<1>2. ASSUME NEW d, Answers(c, d)
      PROVE  \/ Popped(c) # {} /\ d = Outcome
             \/ \E i \in Decided(c) : q_orch[i].event_type = d
             \/ \E f \in Sending(c) : output[f].event_type = d
             \/ \E i \in Answered(c) : mail[c][i].event_type = d
  BY <1>2, PlacesOf DEF Answers, Has, Sending, Answered
<1>3. ASSUME NEW d, Answers(c, d)
      PROVE  Popped(c) # {} \/ Decided(c) # {} \/ Sending(c) # {} \/ Answered(c) # {}
  BY <1>2, <1>3
<1>4. Requested(c, MATCH_REQUEST) => ~Answers(c, e)
  BY <1>1, <1>3 DEF Settled, Single
<1>5. Requested(c, MATCH_REQUEST) \/ Answers(c, e) => ~Nothing(c) /\ Waiting(c) = {}
  BY <1>1, <1>3 DEF Settled, Single, Nothing
<1>6. ASSUME NEW d, Answers(c, e), Answers(c, d)
      PROVE  e = d
  BY <1>2, <1>6 DEF Settled, Single, Lone
<1> QED
  BY <1>4, <1>5, <1>6

(* Who is in no stage stays, and who loses a place loses the only one.      *)
LEMMA NoMore ==
  ASSUME TypeOK, NEW d \in Conn, Settled(d), Thins(d),
         \A c \in Conn : c # d => Kept(c), Line' = Line, seq_num' = seq_num
  PROVE  [Service!Next]_(Service!service)
<1>1. CASE Kept(d)
  BY <1>1, Stays
<1>2. CASE ~Kept(d)
  <2>1. \/ \A e \in Outcomes : Answers(d, e)' <=> Answers(d, e)
        \/ \A e \in Outcomes : ~Answers(d, e)'
    BY <1>2, OneStatus DEF Thins
  <2>2. Asking' \in {Asking, Asking \ {d}} /\ Leaving' \in {Leaving, Leaving \ {d}}
    <3>1. ASSUME NEW k \in Kinds, NEW S, S = {c \in Conn : Requested(c, k)},
                 NEW T, T = {c \in Conn : Requested(c, k)'}
          PROVE  T \in {S, S \ {d}}
      <4>1. CASE Requested(d, k)'
        <5>1. T = S
          BY <3>1, <4>1 DEF Kept, Thins
        <5> QED
          BY <5>1
      <4>2. CASE ~Requested(d, k)'
        <5>1. T = S \ {d}
          BY <3>1, <4>2 DEF Kept
        <5> QED
          BY <5>1
      <4> QED
        BY <4>1, <4>2
    <3> QED
      BY <3>1 DEF Asking, Leaving, Kinds
  <2>3. Told' \in {Told, Told \ {<<d, MATCH_FOUND>>, <<d, MATCH_NOT_FOUND>>}}
    <3>1. CASE \A e \in Outcomes : Answers(d, e)' <=> Answers(d, e)
      <4>1. Told' = Told
        BY <3>1 DEF Told, Kept, Outcomes
      <4> QED
        BY <4>1
    <3>2. CASE \A e \in Outcomes : ~Answers(d, e)'
      <4>1. Told' = Told \ {<<d, MATCH_FOUND>>, <<d, MATCH_NOT_FOUND>>}
        BY <3>2 DEF Told, Kept, Outcomes
      <4> QED
        BY <4>1
    <3> QED
      BY <2>1, <3>1, <3>2
  <2>4. Service!Forget(d)
    BY <2>2, <2>3 DEF Service!Forget
  <2> QED
    BY <2>4 DEF Service!Next
<1> QED
  BY <1>1, <1>2

LEMMA KeptWhen ==
  ASSUME NEW c \in Conn, Stream(c)' = Stream(c), mail'[c] = mail[c],
         UNCHANGED <<q_session_man, mpc, found, match, q_orch, output>>
  PROVE  Kept(c)
BY DEF Kept, Requested, Begins, Answers, Outcome

LEMMA LineStays ==
  ASSUME UNCHANGED <<players, seq_num, mpc, match>>
  PROVE  Line' = Line /\ seq_num' = seq_num
BY DEF Line, InLine

(* Nobody but the matchmaker's steps and these touches what the service is  *)
(* about.                                                                    *)
LEMMA ServiceFrame ==
  ASSUME [Next]_vars
  PROVE  \/ Client \/ accept_connections \/ process_usr_request \/ process_broker
         \/ process_broker_msg \/ form_match \/ PopPlayer \/ Notify
         \/ \E f \in Fd : read_incoming_data(f) \/ disconnect_handler(f) \/ SendAll(f)
         \/ UNCHANGED <<wire, mail, input, output, owner, fdOf, q_session_man, players,
                        seq_num, mpc, found, match, q_orch>>
<1> USE DEF clients, streams, conns, buffers, outside, orchestrator, broker, forming, pq
<1>2. CASE Orchestrator
  BY <1>2 DEF Orchestrator, epoll_wait, NothingToSend, ReadFails, SendPart, SendFails
<1>3. CASE Matchmaker \/ PortReturned
  BY <1>3 DEF Matchmaker, NextRound, PortReturned
<1>4. CASE UNCHANGED vars
  BY <1>4 DEF vars
<1> QED
  BY <1>2, <1>3, <1>4 DEF Next

(* A client's own steps: it asks, or has read its answer, or hung up.       *)
LEMMA ClientServed ==
  ASSUME IndInv, Searches, NoHeirs, Client
  PROVE  [Service!Next]_(Service!service)
<1> USE DEF MATCH_REQUEST, MATCH_CANCEL
<1>0. /\ TypeOK /\ \A c \in Conn : Settled(c)
      /\ ui \in [Conn -> {"idle", "searching", "cancelling", "playing"}]
      /\ mail \in [Conn -> Seq(Result)] /\ wire \in [Conn -> Seq(0..4)]
  BY DEF IndInv, TypeOK, Searches
<1>1. PICK d \in Conn : Connect(d) \/ start_search(d) \/ stop_search(d)
                        \/ handle_tcp_response(d) \/ HangUp(d)
  BY DEF Client
<1>2. UNCHANGED <<input, owner, fdOf, q_session_man, players, seq_num, mpc, found, match,
                  q_orch, output>>
  BY <1>1 DEF Connect, start_search, stop_search, handle_tcp_response, HangUp, broker, pq,
     forming, buffers, conns
<1>3. Line' = Line /\ seq_num' = seq_num
  BY <1>2, LineStays
<1>4. ASSUME NEW c \in Conn, c # d
      PROVE  Kept(c)
  <2>1. mail'[c] = mail[c] /\ wire'[c] = wire[c]
    BY <1>0, <1>1, <1>4 DEF Connect, start_search, stop_search, handle_tcp_response, HangUp,
       send_tcp, streams
  <2>2. Stream(c)' = Stream(c)
    BY <1>2, <2>1 DEF Stream
  <2> QED
    BY <1>2, <2>1, <2>2, KeptWhen
<1>5. CASE start_search(d)
  <2>1. Nothing(d)
    BY <1>0, <1>5 DEF start_search, InSearch, Settled
  <2>2. ~Requested(d, MATCH_REQUEST) /\ \A e \in Outcomes : ~Answers(d, e)
    BY <1>0, <2>1, OneStatus
  <2>c. Requested(d, MATCH_CANCEL)' <=> Requested(d, MATCH_CANCEL)
    <3>1. peer[d] = "up" /\ send_tcp(d, MATCH_REQUEST)
      BY <1>5 DEF start_search
    <3>2. Len(Stream(d)) % SEG = 0 /\ Stream(d) \in Seq(0..4)
      BY <1>0, <3>1, StreamType DEF Searches, RequestsStayWhole, NoHeirs
    <3>3. Stream(d)' = Stream(d) \o Frame(MATCH_REQUEST)
      BY <1>2, <3>1, SendStream
    <3>4. Begins(MATCH_CANCEL, Stream(d) \o Frame(MATCH_REQUEST)) = Begins(MATCH_CANCEL, Stream(d))
      BY <3>2, BeginsMore
    <3>5. Begins(MATCH_CANCEL, Stream(d))' = Begins(MATCH_CANCEL, Stream(d))
      BY <3>3, <3>4, Zenon DEF Begins
    <3> QED
      BY <1>2, <3>5 DEF Requested
  <2>3. \A e \in Outcomes : ~Answers(d, e)'
    <3>1. mail' = mail
      BY <1>5 DEF start_search
    <3>2. \A e : Answers(d, e)' <=> Answers(d, e)
      BY <1>2, <3>1 DEF Answers, Outcome
    <3> QED
      BY <2>2, <3>2
  <2>4. CASE ~Requested(d, MATCH_REQUEST)'
    <3>1. Kept(d)
      BY <2>2, <2>c, <2>3, <2>4 DEF Kept, Kinds
    <3> QED
      BY <1>3, <1>4, <3>1, Stays
  <2>5. CASE Requested(d, MATCH_REQUEST)'
    <3>1. d \notin Asking /\ \A o \in Outcomes : <<d, o>> \notin Told
      BY <2>2 DEF Asking, Told
    <3>2. \A l \in Line : l.client # d
      <4>1. Waiting(d) = {} /\ Of(d, match) = {}
        BY <1>0, <2>1, PlacesOf DEF Nothing
      <4>2. \A p \in InLine : p.player_id # d
        BY <4>1 DEF InLine, Waiting, Of
      <4> QED
        BY <4>2 DEF Line, Place
    <3>3. Asking' = Asking \union {d} /\ Leaving' = Leaving
      BY <1>4, <2>c, <2>5 DEF Asking, Leaving, Kept, Kinds
    <3>4. Told' = Told
      BY <1>4, <2>2, <2>3 DEF Told, Kept, Outcomes
    <3>5. Service!Ask(d)
      BY <1>3, <3>1, <3>2, <3>3, <3>4 DEF Service!Ask, Outcomes
    <3> QED
      BY <3>5 DEF Service!Next
  <2> QED
    BY <2>4, <2>5
<1>6. CASE stop_search(d)
  <2>1. peer[d] = "up" /\ send_tcp(d, MATCH_CANCEL) /\ mail' = mail
    BY <1>6 DEF stop_search
  <2>2. Len(Stream(d)) % SEG = 0 /\ Stream(d) \in Seq(0..4)
    BY <1>0, <2>1, StreamType DEF Searches, RequestsStayWhole, NoHeirs
  <2>3. Stream(d)' = Stream(d) \o Frame(MATCH_CANCEL)
    BY <1>2, <2>1, SendStream
  <2>4. Begins(MATCH_REQUEST, Stream(d) \o Frame(MATCH_CANCEL)) = Begins(MATCH_REQUEST, Stream(d))
    BY <2>2, BeginsMore
  <2>5. Begins(MATCH_REQUEST, Stream(d))' = Begins(MATCH_REQUEST, Stream(d))
    BY <2>3, <2>4, Zenon DEF Begins
  <2>6. Requested(d, MATCH_REQUEST)' <=> Requested(d, MATCH_REQUEST)
    BY <1>2, <2>5 DEF Requested
  <2>7. \A e : Answers(d, e)' <=> Answers(d, e)
    BY <1>2, <2>1 DEF Answers, Outcome
  <2>8. CASE Requested(d, MATCH_CANCEL)'
    <3>1. Asking' = Asking /\ Leaving' = Leaving \union {d}
      BY <1>4, <2>6, <2>8 DEF Asking, Leaving, Kept, Kinds
    <3>2. Told' = Told
      BY <1>4, <2>7 DEF Told, Kept, Outcomes
    <3>3. Service!Withdraw(d)
      BY <1>3, <3>1, <3>2 DEF Service!Withdraw
    <3> QED
      BY <3>3 DEF Service!Next
  <2>9. CASE ~Requested(d, MATCH_CANCEL)'
    <3>1. Thins(d)
      BY <2>6, <2>7, <2>9 DEF Thins, Kinds
    <3> QED
      BY <1>0, <1>3, <1>4, <3>1, NoMore
  <2> QED
    BY <2>8, <2>9
<1>7. CASE Connect(d) \/ handle_tcp_response(d) \/ HangUp(d)
  <2>1. wire' = wire
    BY <1>7 DEF Connect, handle_tcp_response, HangUp, streams
  <2>2. \A i \in DOMAIN mail'[d] : \E j \in DOMAIN mail[d] : mail'[d][i] = mail[d][j]
    <3>1. mail[d] \in Seq(Result)
      BY <1>0
    <3>2. CASE handle_tcp_response(d)
      <4>1. mail[d] # <<>> /\ mail'[d] = Tail(mail[d])
        BY <1>0, <3>2 DEF handle_tcp_response
      <4> QED
        BY <3>1, <4>1, TailOf
    <3>3. CASE HangUp(d)
      <4>1. mail'[d] = <<>>
        BY <1>0, <3>3 DEF HangUp
      <4> QED
        BY <4>1
    <3>4. CASE UNCHANGED mail
      BY <3>4
    <3> QED
      BY <1>7, <3>2, <3>3, <3>4 DEF Connect, streams
  <2>3. \A k : Requested(d, k)' => Requested(d, k)
    BY <1>2, <2>1 DEF Requested, Stream, Begins
  <2>4. \A e : Answers(d, e)' => Answers(d, e)
    BY <1>2, <2>2 DEF Answers, Outcome
  <2>5. Thins(d)
    BY <2>3, <2>4 DEF Thins
  <2> QED
    BY <1>0, <1>3, <1>4, <2>5, NoMore
<1> QED
  BY <1>1, <1>5, <1>6, <1>7

(* A request on its way in goes on to the broker, or is lost.               *)
LEMMA RequestServed ==
  ASSUME IndInv, Searches, NoHeirs, process_usr_request
  PROVE  [Service!Next]_(Service!service)
<1>0. /\ TypeOK /\ RequestsWait /\ heirs = {} /\ recv_queue \in Seq(Fd) /\ q_session_man \in Seq(Request)
      /\ owner \in [Fd -> Conn \union {None}] /\ input \in [Fd -> Seq(0..4)]
      /\ None \notin Conn /\ SEG \in Nat \ {0} /\ \A c \in Conn : Settled(c)
  BY LobbyAssumption DEF IndInv, TypeOK, Searches, NoHeirs
<1>1. UNCHANGED <<players, seq_num, mpc, found, match, q_orch, output, mail>>
  BY DEF process_usr_request, streams, forming, pq
<1>2. Line' = Line /\ seq_num' = seq_num
  BY <1>1, LineStays
<1>3. CASE recv_queue = <<>> \/ owner[Head(recv_queue)] = None
  <2>1. q_session_man' = q_session_man
    BY <1>3 DEF process_usr_request
  <2>2. \A c \in Conn : Stream(c)' = Stream(c)
    BY <1>0, <1>3, RequestStream
  <2>3. \A c \in Conn : Kept(c)
    BY <1>1, <2>1, <2>2, KeptWhen
  <2> QED
    BY <1>2, <2>3, Stays
<1>4. CASE ~(recv_queue = <<>> \/ owner[Head(recv_queue)] = None)
  <2> DEFINE f == Head(recv_queue)
             e == input[f][1]
  <2>0. owner[f] \in Conn
    BY <1>0, <1>4, TailOf
  <2> PICK d \in Conn : d = owner[f]
    BY <2>0
  <2> DEFINE r == [player_id |-> d, fd |-> f, event_type |-> e]
  <2>1. f \in Fd /\ Len(input[f]) = SEG /\ input[f] \in Seq(0..4)
    BY <1>0, <1>4, TailOf DEF RequestsWait
  <2>2. input[f] # <<>> /\ e \in 0..4
    BY <1>0, <2>1
  <2>3. r \in Request /\ r.player_id = d /\ r.event_type = e
    BY <2>1, <2>2 DEF Request
  <2>4. q_session_man' = q_session_man \/ q_session_man' = Append(q_session_man, r)
    <3>1. EventType(input[f]) = {e}
      BY <2>2 DEF EventType
    <3> QED
      BY <1>4, <3>1 DEF process_usr_request
  <2>5. \A c \in Conn : IF c = d THEN /\ Stream(c)' \in Seq(0..4)
                                      /\ Stream(c) = input[f] \o Stream(c)'
                        ELSE Stream(c)' = Stream(c)
    BY <1>4, RequestStream
  <2> HIDE DEF f, e, r
  <2>6. \A c, k : /\ Has(c, k, q_session_man) => Has(c, k, q_session_man)'
                  /\ Has(c, k, q_session_man)' =>
                       Has(c, k, q_session_man) \/ (c = d /\ k = e)
    <3>1. CASE q_session_man' = q_session_man
      BY <3>1 DEF Has, Of
    <3>2. CASE q_session_man' = Append(q_session_man, r)
      <4>1. \A c, k : Has(c, k, q_session_man)' <=> Has(c, k, Append(q_session_man, r))
        BY <3>2 DEF Has, Of
      <4> QED
        BY <1>0, <2>3, <4>1, OfAppend
    <3> QED
      BY <2>4, <3>1, <3>2
  <2>8. \A c : \A a : Answers(c, a)' <=> Answers(c, a)
    BY <1>1 DEF Answers, Outcome
  <2>9. ASSUME NEW c \in Conn, c # d
        PROVE  Kept(c)
    BY <2>5, <2>6, <2>8, <2>9 DEF Kept, Requested, Begins
  <2>10. ASSUME NEW k, Requested(d, k)'
         PROVE  Requested(d, k)
    <3> DEFINE t == Stream(d)'
    <3>1. t \in Seq(0..4) /\ Stream(d) = input[f] \o t
      BY <2>1, <2>5
    <3> HIDE DEF t
    <3>2. /\ \A i \in Begins(k, t) : SEG + i \in Begins(k, input[f] \o t)
          /\ e = k => 1 \in Begins(k, input[f] \o t)
      BY <2>1, <3>1, BeginsLess DEF e
    <3>3. Begins(k, Stream(d))' = Begins(k, t)
      BY DEF Begins, t
    <3> QED
      BY <2>6, <2>10, <3>1, <3>2, <3>3 DEF Requested
  <2>11. Thins(d)
    BY <2>8, <2>10 DEF Thins
  <2> QED
    BY <1>0, <1>2, <2>1, <2>9, <2>11, NoMore
<1> QED
  BY <1>3, <1>4

(* An answer goes from the broker to the output buffer and on to the client.  *)
LEMMA AnswerServed ==
  ASSUME IndInv, Searches, NoHeirs,
         process_broker \/ \E f \in Fd : disconnect_handler(f) \/ SendAll(f)
  PROVE  [Service!Next]_(Service!service)
<1>0. /\ TypeOK /\ FreeIsClean /\ OthersAreDown /\ IdentityTravels /\ EventsAreDue
      /\ SignalsMatchQueues
      /\ output \in [Fd -> Result \union {None}] /\ q_orch \in Seq(Result)
      /\ mail \in [Conn -> Seq(Result)] /\ owner \in [Fd -> Conn \union {None}]
      /\ fdOf \in [Conn -> Fd \union {None}]
      /\ None \notin Conn /\ None \notin Fd /\ OneHolder /\ \A c \in Conn : Settled(c)
  BY LobbyAssumption DEF IndInv, TypeOK, Searches
<1>1. UNCHANGED <<q_session_man, players, seq_num, mpc, found, match>>
  BY DEF process_broker, disconnect_handler, SendAll, broker, forming, pq
<1>2. Line' = Line /\ seq_num' = seq_num
  BY <1>1, LineStays
(* A result in a buffer is for the client who has the descriptor.           *)
<1>3. ASSUME NEW f \in Fd, output[f] # None
      PROVE  /\ output[f] \in Result /\ owner[f] \in Conn
             /\ output[f].player_id = owner[f]
  BY <1>0, <1>3, BufferOwner
<1>4. ASSUME NEW f \in Fd, disconnect_handler(f)
      PROVE  [Service!Next]_(Service!service)
  <2>1. UNCHANGED <<q_orch, mail>> /\ output' = [output EXCEPT ![f] = None]
    BY <1>4 DEF disconnect_handler, broker
  <2>2. owner[f] \in Conn
    BY <1>0, <1>4 DEF disconnect_handler, Takes, EventsAreDue
  <2> PICK d \in Conn : d = owner[f]
    BY <2>2
  <2>3. \A c \in Conn : IF c = d THEN Stream(c)' = <<>> ELSE Stream(c)' = Stream(c)
    BY <1>4, DisconnectStream
  <2>4. \A g \in Fd : output'[g] = IF g = f THEN None ELSE output[g]
    BY <1>0, <2>1
  <2>5. \A c \in Conn : \A e : Answers(c, e)' => Answers(c, e)
    BY <1>1, <2>1, <2>4 DEF Answers, Outcome
  <2>6. \A c \in Conn : \A e : c # d /\ Answers(c, e) => Answers(c, e)'
    BY <1>1, <1>3, <2>1, <2>4 DEF Answers, Outcome
  <2>7. \A c \in Conn : c # d => Kept(c)
    BY <1>1, <2>3, <2>5, <2>6 DEF Kept, Requested, Begins
  <2>8. \A k : Requested(d, k)' => Requested(d, k)
    <3>1. \A k : Begins(k, Stream(d))' = {}
      BY <2>2, <2>3 DEF Begins
    <3> QED
      BY <1>1, <3>1 DEF Requested
  <2>9. Thins(d)
    BY <2>2, <2>5, <2>8 DEF Thins
  <2> QED
    BY <1>0, <1>2, <2>2, <2>7, <2>9, NoMore
<1>5. CASE process_broker
  <2> DEFINE r == Head(q_orch)
             f == r.fd
  <2>1. q_orch # <<>>
    BY <1>0, <1>5 DEF process_broker, Takes, EventsAreDue, SignalsMatchQueues
  <2>2. /\ UNCHANGED <<wire, mail, input, owner, fdOf>> /\ q_orch' = Tail(q_orch)
        /\ \/ output' = output
           \/ output[f] = None /\ output' = [output EXCEPT ![f] = r]
    BY <1>5 DEF process_broker, streams, conns, OutputFree
  <2>3. r \in Result /\ f \in Fd /\ r.player_id \in Conn
    <3>1. r \in Result
      BY <1>0, <2>1, TailOf
    <3> QED
      BY <3>1 DEF Result
  <2> PICK d \in Conn : d = r.player_id
    BY <2>3
  <2>4. \A c, e : Has(c, e, q_orch) <=> (d = c /\ r.event_type = e) \/ Has(c, e, Tail(q_orch))
    BY <1>0, <2>1, OfTail
  <2> HIDE DEF r
  <2>5. \A c, e : Has(c, e, q_orch)' <=> Has(c, e, Tail(q_orch))
    BY <2>2 DEF Has, Of
  <2> DEFINE Sent(o, c, e) ==
               \E g \in Fd : o[g] # None /\ o[g].player_id = c /\ o[g].event_type = e
  <2>6. \A c, e : /\ Sent(output, c, e) => Sent(output', c, e)
                  /\ Sent(output', c, e) => Sent(output, c, e) \/ (d = c /\ r.event_type = e)
    BY <1>0, <2>2, <2>3
  <2>7. \A c, e : /\ Answers(c, e) <=> \/ mpc = "notify" /\ e = Outcome /\ Of(c, match) # {}
                                       \/ Has(c, e, q_orch) \/ Sent(output, c, e)
                                       \/ \E i \in DOMAIN mail[c] : mail[c][i].event_type = e
                  /\ Answers(c, e)' <=> \/ mpc = "notify" /\ e = Outcome /\ Of(c, match) # {}
                                        \/ Has(c, e, q_orch)' \/ Sent(output', c, e)
                                        \/ \E i \in DOMAIN mail[c] : mail[c][i].event_type = e
    BY <1>1, <2>2 DEF Answers, Outcome
  <2> HIDE DEF Sent
  <2>8. \A c, e : /\ Answers(c, e)' => Answers(c, e)
                  /\ c # d /\ Answers(c, e) => Answers(c, e)'
    BY <2>4, <2>5, <2>6, <2>7
  <2>9. \A c, k : Requested(c, k)' <=> Requested(c, k)
    BY <1>1, <2>2 DEF Requested, Stream, Begins
  <2> QED
    BY <1>0, <1>2, <2>3, <2>8, <2>9, NoMore DEF Kept, Thins
<1>6. ASSUME NEW f \in Fd, SendAll(f)
      PROVE  [Service!Next]_(Service!service)
  <2> DEFINE r == output[f]
  <2>0. r # None /\ r \in Result /\ owner[f] \in Conn /\ r.player_id = owner[f]
    BY <1>3, <1>6 DEF SendAll, Sends
  <2> PICK d \in Conn : d = owner[f]
    BY <2>0
  <2>1. r # None /\ r \in Result /\ r.player_id = d
    BY <2>0
  <2>2. /\ UNCHANGED <<wire, input, owner, fdOf, q_orch>>
        /\ output' = [output EXCEPT ![f] = None]
        /\ mail' = mail \/ mail' = [mail EXCEPT ![d] = Append(mail[d], r)]
    BY <1>6 DEF SendAll, conns, broker
  <2> HIDE DEF r
  <2>3. \A g \in Fd : output'[g] = IF g = f THEN None ELSE output[g]
    BY <1>0, <2>2
  <2>4. \A c \in Conn : c # d => mail'[c] = mail[c]
    BY <1>0, <2>1, <2>2
  <2>5. \A i \in DOMAIN mail'[d] :
          mail'[d][i] = r \/ \E j \in DOMAIN mail[d] : mail'[d][i] = mail[d][j]
    <3>1. mail[d] \in Seq(Result)
      BY <1>0, <2>1
    <3>2. mail'[d] = mail[d] \/ mail'[d] = Append(mail[d], r)
      BY <1>0, <2>1, <2>2
    <3> QED
      BY <2>1, <3>1, <3>2, AppendOf
  <2>6. \A c, k : Requested(c, k)' <=> Requested(c, k)
    BY <1>1, <2>2 DEF Requested, Stream, Begins
  <2>7. ASSUME NEW c \in Conn, c # d
        PROVE  Kept(c)
    <3>1. \A g \in Fd : output[g] # None /\ output[g].player_id = c
                          <=> output'[g] # None /\ output'[g].player_id = c
      BY <2>1, <2>3, <2>7 DEF r
    <3>2. \A e : Answers(c, e)' <=> Answers(c, e)
      BY <1>1, <2>2, <2>3, <2>4, <2>7, <3>1 DEF Answers, Outcome
    <3> QED
      BY <2>6, <3>2 DEF Kept
  <2>8. \A e : Answers(d, e)' => Answers(d, e)
    BY <1>1, <2>1, <2>2, <2>3, <2>5 DEF Answers, Outcome, r
  <2>9. Thins(d)
    BY <2>1, <2>6, <2>8 DEF Thins
  <2> QED
    BY <1>0, <1>2, <2>1, <2>7, <2>9, NoMore
<1> QED
  BY <1>4, <1>5, <1>6

(* What a result pushed to the orchestrator, or lost, adds to the answers.  *)
LEMMA PushTells ==
  ASSUME TypeOK, NEW p, p.player_id \in Conn, p.fd \in Fd, NEW x \in Outcomes,
         PushResult(p, x)
  PROVE  /\ \A c, e : Has(c, e, q_orch) => Has(c, e, q_orch)'
         /\ \A c, e : Has(c, e, q_orch)' =>
              Has(c, e, q_orch) \/ (c = p.player_id /\ e = x)
<1> DEFINE r == [player_id |-> p.player_id, fd |-> p.fd, event_type |-> x]
<1>1. r \in Result /\ r.player_id = p.player_id /\ r.event_type = x /\ q_orch \in Seq(Result)
  BY DEF Result, TypeOK, Outcomes
<1>2. q_orch' = q_orch \/ q_orch' = Append(q_orch, r)
  BY DEF PushResult
<1> HIDE DEF r
<1>3. CASE q_orch' = q_orch
  BY <1>3 DEF Has, Of
<1>4. CASE q_orch' = Append(q_orch, r)
  <2>1. \A c, e : Has(c, e, Append(q_orch, r)) <=> \/ r.player_id = c /\ r.event_type = e
                                                  \/ Has(c, e, q_orch)
    BY <1>1, OfAppend
  <2>2. \A c, e : Has(c, e, q_orch)' <=> Has(c, e, Append(q_orch, r))
    BY <1>4 DEF Has, Of
  <2> QED
    BY <1>1, <2>1, <2>2
<1> QED
  BY <1>2, <1>3, <1>4

(* The matchmaker does not reach the clients but through the broker.        *)
LEMMA MatchmakerApart ==
  ASSUME process_broker_msg \/ form_match \/ PopPlayer \/ Notify
  PROVE  /\ UNCHANGED <<output, mail>>
         /\ \A c : Stream(c)' = Stream(c)
<1>1. UNCHANGED <<streams, buffers, conns>>
  BY DEF process_broker_msg, TakesMessage, form_match, PopPlayer, Notify, outside, orchestrator
<1> QED
  BY <1>1 DEF streams, buffers, conns, Stream

(* No two in line have one place.                                           *)
LEMMA PlacesDiffer ==
  ASSUME SeqNumsDiffer, NEW p \in players, NEW q \in players, Place(p) = Place(q)
  PROVE  p = q
<1>1. p.seq_num = q.seq_num
  BY DEF Place
<1> QED
  BY <1>1 DEF SeqNumsDiffer

(* A request puts its client in line, or is dropped at capacity; a cancel   *)
(* takes the client out, or comes too late.                                 *)
LEMMA MessageServed ==
  ASSUME IndInv, Searches, NoHeirs, process_broker_msg
  PROVE  [Service!Next]_(Service!service)
<1> DEFINE m == Head(q_session_man)
<1>0. /\ TypeOK /\ SeqNumsDiffer /\ EntriesFollowPlayers /\ MatchmakerPlace
      /\ q_session_man \in Seq(Request) /\ \A c \in Conn : Settled(c)
      /\ MATCH_REQUEST # MATCH_CANCEL
  BY DEF IndInv, TypeOK, Searches, MATCH_REQUEST, MATCH_CANCEL
<1>1. /\ m.fd \in Fd /\ m.player_id \in Conn /\ fdOf[m.player_id] = m.fd
      /\ q_session_man # <<>> /\ q_session_man' = Tail(q_session_man)
  BY MessageTaken DEF Request
<1>2. mpc = "handle" /\ UNCHANGED <<mpc, match, found>>
  BY DEF process_broker_msg, TakesMessage
<1>3. UNCHANGED <<output, mail>> /\ \A c : Stream(c)' = Stream(c)
  BY MatchmakerApart
<1>4. InLine = players /\ InLine' = players'
  BY <1>2 DEF InLine
<1>5. \A c, e : Has(c, e, q_session_man) <=> \/ m.player_id = c /\ m.event_type = e
                                            \/ Has(c, e, q_session_man)'
  <2>1. \A c, e : Has(c, e, q_session_man)' <=> Has(c, e, Tail(q_session_man))
    BY <1>1 DEF Has, Of
  <2> QED
    BY <1>0, <1>1, <2>1, OfTail
<1> PICK d \in Conn : d = m.player_id
  BY <1>1
<1> HIDE DEF m
<1>6. /\ \A c, k : Requested(c, k)' => Requested(c, k)
      /\ \A c, k : Requested(c, k) /\ (c # d \/ m.event_type # k) => Requested(c, k)'
  BY <1>3, <1>5 DEF Requested, Begins
<1> DEFINE Later(c, e) ==
             \/ \E f \in Fd : output[f] # None /\ output[f].player_id = c
                              /\ output[f].event_type = e
             \/ \E i \in DOMAIN mail[c] : mail[c][i].event_type = e
<1>7. \A c, e : /\ Answers(c, e) <=> Has(c, e, q_orch) \/ Later(c, e)
                /\ Answers(c, e)' <=> Has(c, e, q_orch)' \/ Later(c, e)
  BY <1>2, <1>3 DEF Answers
<1> HIDE DEF Later
<1>8. ASSUME UNCHANGED <<pq, q_orch>>
      PROVE  [Service!Next]_(Service!service)
  <2>1. \A c, e : Answers(c, e)' <=> Answers(c, e)
    BY <1>2, <1>3, <1>8 DEF Answers
  <2>2. Line' = Line /\ seq_num' = seq_num
    BY <1>2, <1>8, LineStays DEF pq
  <2> QED
    BY <1>0, <1>6, <2>1, <2>2, NoMore DEF Kept, Thins
<1>9. CASE ProcessRequest(m)
  <2>1. m.event_type = MATCH_REQUEST /\ q_orch' = q_orch
    BY <1>9 DEF ProcessRequest
  <2>2. CASE UNCHANGED pq
    BY <1>8, <2>1, <2>2
  <2>3. CASE pq_add_player(m.fd, m.player_id)
    <3> DEFINE new == [seq_num |-> seq_num, fd |-> m.fd, player_id |-> d]
    <3>1. players' = players \union {new} /\ seq_num' = seq_num + 1
      BY <2>3 DEF pq_add_player
    <3>2. Place(new) = [seq_num |-> seq_num, client |-> d]
      BY DEF Place
    <3> HIDE DEF new
    <3>3. Line' = Line \union {[seq_num |-> seq_num, client |-> d]}
      <4>1. Line = {Place(p) : p \in players} /\ Line' = {Place(p) : p \in players'}
        BY <1>4 DEF Line
      <4> QED
        BY <3>1, <3>2, <4>1
    <3>4. Told' = Told
      <4>1. \A c, e : Answers(c, e)' <=> Answers(c, e)
        BY <1>2, <1>3, <2>1 DEF Answers
      <4> QED
        BY <4>1 DEF Told
    <3>5. Requested(d, MATCH_REQUEST)
      BY <1>5, <2>1 DEF Requested
    <3>6. ~Requested(d, MATCH_REQUEST)'
      <4>1. m \in RequestsOf(d) /\ Passed(d) # {} /\ Lone(Passed(d)) /\ Asked(Stream(d)) = {}
        <5>1. m \in RequestsOf(d)
          BY <2>1, MessageTaken DEF RequestsOf, m
        <5>2. Passed(d) # {}
          BY <1>0, <1>1, <5>1, AtTail DEF Passed, m
        <5> QED
          BY <1>0, <5>1, <5>2 DEF Settled, Single, Sought
      <4>2. At(RequestsOf(d), Tail(q_session_man)) = {}
        BY <1>0, <1>1, <4>1, AtTail DEF Passed, m
      <4>3. ~Has(d, MATCH_REQUEST, Tail(q_session_man))
        <5>1. \A i \in DOMAIN Tail(q_session_man) : Tail(q_session_man)[i] \in Request
          BY <1>0, <1>1, TailOf
        <5> QED
          BY <4>2, <5>1 DEF Has, Of, At, RequestsOf
      <4>4. ~Has(d, MATCH_REQUEST, q_session_man)'
        BY <1>1, <4>3 DEF Has, Of
      <4> QED
        BY <1>3, <4>1, <4>4 DEF Requested, Asked, Begins
    <3>7. Asking' = Asking \ {d} /\ d \in Asking /\ Leaving' = Leaving
      BY <1>0, <1>6, <2>1, <3>5, <3>6 DEF Asking, Leaving
    <3>8. Service!Enter(d)
      BY <3>1, <3>3, <3>4, <3>7 DEF Service!Enter
    <3> QED
      BY <3>8 DEF Service!Next
  <2> QED
    BY <1>9, <2>2, <2>3 DEF ProcessRequest
<1>10. CASE ProcessCancel(m)
  <2>1. CASE NotFound(m.fd) /\ UNCHANGED <<pq, q_orch, orch_eventfd>>
    BY <1>8, <2>1
  <2>2. CASE pq_remove_player(m.fd) /\ PushResult(m, MATCH_NOT_FOUND)
    <3>1. PICK p \in players : p.fd = m.fd /\ Leaves(p)
      BY <1>0, <1>1, <2>2, RemoveLeaves DEF m
    <3>2. p.player_id = d
      BY <3>1, OneOwner DEF m, Searches
    <3>3. Place(p) \in Line /\ Place(p).client = d
      BY <1>4, <3>2 DEF Line, Place
    <3>4. Line' = Line \ {Place(p)}
      <4>1. Line = {Place(q) : q \in players} /\ Line' = {Place(q) : q \in players'}
        BY <1>4 DEF Line
      <4>2. players' = players \ {p} /\ \A q \in players : Place(q) = Place(p) => q = p
        BY <1>0, <3>1, PlacesDiffer DEF Leaves
      <4> QED
        BY <4>1, <4>2
    <3>5. seq_num' = seq_num /\ m.event_type = MATCH_CANCEL
      BY <1>10, <2>2 DEF pq_remove_player, ProcessCancel
    <3>6. Asking' = Asking /\ d \in Leaving /\ Leaving' \in {Leaving, Leaving \ {d}}
      <4>1. Asking' = Asking
        BY <1>0, <1>6, <3>5 DEF Asking
      <4>2. d \in Leaving
        BY <1>5, <3>5 DEF Leaving, Requested
      <4>3. CASE Requested(d, MATCH_CANCEL)'
        <5>1. Leaving' = Leaving
          BY <1>6, <4>3 DEF Leaving
        <5> QED
          BY <4>1, <4>2, <5>1
      <4>4. CASE ~Requested(d, MATCH_CANCEL)'
        <5>1. Leaving' = Leaving \ {d}
          BY <1>6, <4>4 DEF Leaving
        <5> QED
          BY <4>1, <4>2, <5>1
      <4> QED
        BY <4>3, <4>4
    <3>7. /\ \A c, e : Has(c, e, q_orch) => Has(c, e, q_orch)'
          /\ \A c, e : Has(c, e, q_orch)' =>
               Has(c, e, q_orch) \/ (c = d /\ e = MATCH_NOT_FOUND)
      BY <1>0, <1>1, <2>2, PushTells DEF Outcomes, m
    <3>8. /\ \A c, e : Answers(c, e) => Answers(c, e)'
          /\ \A c, e : Answers(c, e)' => Answers(c, e) \/ (c = d /\ e = MATCH_NOT_FOUND)
      BY <1>7, <3>7
    <3>9. Told' \in {Told, Told \union {<<d, MATCH_NOT_FOUND>>}}
      <4>1. CASE Answers(d, MATCH_NOT_FOUND)'
        <5>1. Told' = Told \union {<<d, MATCH_NOT_FOUND>>}
          BY <3>8, <4>1 DEF Told
        <5> QED
          BY <5>1
      <4>2. CASE ~Answers(d, MATCH_NOT_FOUND)'
        <5>1. Told' = Told
          BY <3>8, <4>2 DEF Told
        <5> QED
          BY <5>1
      <4> QED
        BY <4>1, <4>2
    <3>10. Service!Cancel(Place(p))
      BY <3>3, <3>4, <3>5, <3>6, <3>9 DEF Service!Cancel
    <3> QED
      BY <3>3, <3>10 DEF Service!Next
  <2> QED
    BY <1>10, <2>1, <2>2 DEF ProcessCancel
<1>11. CASE ProcessUnknown(m)
  BY <1>8, <1>11 DEF ProcessUnknown
<1> QED
  BY <1>9, <1>10, <1>11 DEF process_broker_msg, m

(* Being popped does not take a player out of the line.                     *)
LEMMA FormServed ==
  ASSUME IndInv, Searches, form_match
  PROVE  [Service!Next]_(Service!service)
<1>1. match = <<>> /\ mpc = "handle" /\ mpc' # "notify"
  BY DEF IndInv, MatchmakerPlace, form_match
<1>2. UNCHANGED <<match, found, players, seq_num, q_session_man, q_orch>>
  BY DEF form_match, broker, pq
<1>3. UNCHANGED <<output, mail>> /\ \A c : Stream(c)' = Stream(c)
  BY MatchmakerApart
<1>4. Line' = Line
  BY <1>1, <1>2 DEF Line, InLine
<1>5. \A c, k : Requested(c, k)' <=> Requested(c, k)
  BY <1>2, <1>3 DEF Requested, Begins
<1>6. \A c, e : Answers(c, e)' <=> Answers(c, e)
  BY <1>1, <1>2, <1>3 DEF Answers
<1> QED
  BY <1>2, <1>4, <1>5, <1>6, Stays DEF Kept

(* A player popped is the next of the match in the making, and with the     *)
(* last one the match leaves the line.                                      *)
LEMMA PopServed ==
  ASSUME IndInv, Searches, NoHeirs, PopPlayer
  PROVE  [Service!Next]_(Service!service)
<1>0. /\ TypeOK /\ SeqNumsDiffer /\ EntriesFollowPlayers /\ MatchmakerPlace /\ MatchIsFirst
      /\ match \in Seq(Player) /\ players \subseteq Player /\ cur_size \in Nat
      /\ PLAYERS_PER_MATCH \in Nat
  BY LobbyAssumption, QueueAssumption DEF IndInv, TypeOK, QueueTypeOK, Searches
<1>1. mpc = "form" /\ UNCHANGED <<q_session_man, q_orch>>
  BY DEF PopPlayer, broker
<1>2. UNCHANGED <<output, mail>> /\ \A c : Stream(c)' = Stream(c)
  BY MatchmakerApart
(* The queue is not empty: what the match lacks was counted, and waits.     *)
<1>3. ~QueueEmpty
  <2>1. Len(match) \in Nat /\ Len(match) < PLAYERS_PER_MATCH
        /\ Len(match) + cur_size >= PLAYERS_PER_MATCH
    BY <1>0, <1>1 DEF MatchmakerPlace, MatchIsFirst
  <2>2. cur_size # 0
    BY <1>0, <2>1
  <2>3. players # {}
    BY <1>0, <2>2, FS_EmptySet DEF EntriesFollowPlayers
  <2> QED
    BY <2>2, <2>3 DEF QueueEmpty
<1>4. PICK p \in players : pop_from_queue(p) /\ match' = Append(match, p)
  BY <1>3 DEF PopPlayer
<1>5. /\ players' = players \ {p} /\ seq_num' = seq_num /\ p \in Player
      /\ \A o \in players' : p.seq_num < o.seq_num
  <2>1. \A o \in players : o.seq_num \in Nat /\ p.seq_num <= o.seq_num
    BY <1>0, <1>4 DEF pop_from_queue, IsFirst, Player
  <2>2. players' = players \ {p} /\ seq_num' = seq_num
    BY <1>4 DEF pop_from_queue
  <2> QED
    BY <1>0, <2>1, <2>2 DEF SeqNumsDiffer
<1> DEFINE popped == {match[i] : i \in DOMAIN match}
           chosen == popped \union {p}
<1>6. {match'[i] : i \in DOMAIN match'} = chosen
  <2>1. /\ Len(match) + 1 \in DOMAIN match' /\ match'[Len(match) + 1] = p
        /\ \A i \in DOMAIN match : i \in DOMAIN match' /\ match'[i] = match[i]
        /\ \A i \in DOMAIN match' : \/ i \in DOMAIN match /\ match'[i] = match[i]
                                    \/ i = Len(match) + 1 /\ match'[i] = p
    BY <1>0, <1>4, <1>5, AppendOf
  <2> QED
    BY <2>1
<1>7. InLine = players \union popped
  BY <1>1 DEF InLine
<1>8. \A c, k : Requested(c, k)' <=> Requested(c, k)
  BY <1>1, <1>2 DEF Requested, Begins
<1>9. Asking' = Asking /\ Leaving' = Leaving
  BY <1>8 DEF Asking, Leaving
<1>10. CASE Len(match) + 1 # PLAYERS_PER_MATCH
  <2>1. mpc' = mpc
    BY <1>3, <1>10 DEF PopPlayer
  <2>2. InLine' = InLine
    BY <1>1, <1>5, <1>6, <1>7, <2>1 DEF InLine
  <2>3. Line' = Line
    BY <2>2 DEF Line
  <2>4. \A c, e : Answers(c, e)' <=> Answers(c, e)
    BY <1>1, <1>2, <2>1 DEF Answers, Has, Of
  <2> QED
    BY <1>5, <1>8, <2>3, <2>4, Stays DEF Kept
<1>11. CASE Len(match) + 1 = PLAYERS_PER_MATCH
  <2>1. mpc' = "notify" /\ found' \in BOOLEAN
    BY <1>3, <1>11 DEF PopPlayer, Spawn
  <2>2. InLine' = players \ {p}
    BY <1>5, <2>1 DEF InLine
  <2> DEFINE places == {Place(q) : q \in chosen}
  <2>3. /\ \A i \in DOMAIN match : match[i] \in Player
        /\ \A i \in DOMAIN match : \A o \in players : match[i].seq_num < o.seq_num
    BY <1>0, <1>1 DEF MatchIsFirst
  <2>4. \A q \in chosen : \A o \in players \ {p} : q.seq_num < o.seq_num
    BY <1>5, <2>3
  <2>p. \A q \in chosen : q.seq_num \in Nat /\ q.player_id \in Conn
    <3>1. chosen \subseteq Player
      BY <1>5, <2>3
    <3> QED
      BY <3>1 DEF Player
  <2>5. Line = {Place(q) : q \in (players \ {p}) \union chosen}
    BY <1>7 DEF Line
  <2>6. Line' = {Place(q) : q \in players \ {p}}
    BY <2>2 DEF Line
  <2>7. \A q \in chosen : \A o \in players \ {p} : Place(q) # Place(o)
    BY <2>4, <2>p DEF Place
  <2> HIDE DEF chosen
  <2>8. Line' = Line \ places /\ places \subseteq Line
    BY <2>5, <2>6, <2>7
  <2>9. \A l \in places : \A k \in Line \ places : l.seq_num < k.seq_num
    BY <2>4, <2>5 DEF Place
  <2>10. Cardinality(places) = PLAYERS_PER_MATCH
    <3> DEFINE n == Len(match')
               f == [i \in 1 .. n |-> Place(match'[i])]
    <3>1. n = PLAYERS_PER_MATCH /\ DOMAIN match' = 1 .. n /\ n \in Nat
      BY <1>0, <1>4, <1>5, <1>11, AppendOf
    <3>2. \A i, j \in 1 .. n : match'[i].seq_num = match'[j].seq_num => i = j
      <4>1. \A i \in DOMAIN match' : \/ i \in DOMAIN match /\ match'[i] = match[i]
                                     \/ i = Len(match) + 1 /\ match'[i] = p
        BY <1>0, <1>4, <1>5, AppendOf
      <4>2. \A i, j \in DOMAIN match : match[i].seq_num = match[j].seq_num => i = j
        BY <1>0, <1>1 DEF MatchIsFirst
      <4>3. p.seq_num \in Nat /\ \A i \in DOMAIN match : match[i].seq_num \in Nat
        BY <1>5, <2>3 DEF Player
      <4> QED
        BY <2>3, <3>1, <4>1, <4>2, <4>3
    <3>3. places = {Place(match'[i]) : i \in 1 .. n}
      BY <1>6, <3>1
    <3>4. \A i, j \in 1 .. n : Place(match'[i]) = Place(match'[j]) => i = j
      BY <3>2 DEF Place
    <3> HIDE DEF n, places
    <3>5. f \in Bijection(1 .. n, places)
      BY <3>3, <3>4 DEF Bijection, Injection, Surjection, IsInjective
    <3>6. ExistsBijection(1 .. n, places)
      BY <3>5 DEF ExistsBijection
    <3> QED
      BY <3>1, <3>6, FS_CountingElements
  <2>11. \A c, e : Answers(c, e)' <=>
           Answers(c, e) \/ (e = Outcome' /\ \E q \in chosen : q.player_id = c)
    <3>1. \A c : Of(c, match)' # {} <=> \E q \in chosen : q.player_id = c
      BY <1>6 DEF Of
    <3> QED
      BY <1>1, <1>2, <2>1, <3>1 DEF Answers, Has, Of
  <2> PICK x \in Outcomes : x = Outcome'
    BY DEF Outcome, Outcomes
  <2>13. Told' = Told \union {<<l.client, x>> : l \in places}
    <3>1. {<<l.client, x>> : l \in places} = {<<q.player_id, x>> : q \in chosen}
      <4>1. \A q : Place(q).client = q.player_id
        BY DEF Place
      <4> QED
        BY <4>1
    <3>2. \A c \in Conn, e \in Outcomes : <<c, e>> \in Told' <=>
            <<c, e>> \in Told \/ <<c, e>> \in {<<q.player_id, x>> : q \in chosen}
      BY <2>11 DEF Told, Outcomes
    <3>3. /\ Told \subseteq Conn \X Outcomes /\ Told' \subseteq Conn \X Outcomes
          /\ {<<q.player_id, x>> : q \in chosen} \subseteq Conn \X Outcomes
      BY <2>p DEF Told, Outcomes
    <3> QED
      BY <3>1, <3>2, <3>3
  <2> HIDE DEF places
  <2> PICK taken : taken = places
    OBVIOUS
  <2>14. Service!Form(taken, x)
    <3>1. Cardinality(taken) = PLAYERS_PER_MATCH
      BY <2>10
    <3>2. \A l \in taken, k \in Line \ taken : l.seq_num < k.seq_num
      BY <2>9
    <3>3. Line' = Line \ taken
      BY <2>8
    <3>4. Told' = Told \union {<<l.client, x>> : l \in taken}
      BY <2>13
    <3>5. Asking' = Asking /\ Leaving' = Leaving /\ seq_num' = seq_num
      BY <1>5, <1>9
    <3>6. Service!Cardinality(taken) = Cardinality(taken)
      BY DEF Service!Cardinality, Cardinality
    <3> QED
      BY <3>1, <3>2, <3>3, <3>4, <3>5, <3>6 DEF Service!Form
  <2> QED
    BY <2>8, <2>14 DEF Service!Next, Outcomes
<1> QED
  BY <1>10, <1>11

(* The result of a player of the match goes to the broker, or is lost.      *)
LEMMA NotifyServed ==
  ASSUME IndInv, Searches, NoHeirs, Notify
  PROVE  [Service!Next]_(Service!service)
<1>0. /\ TypeOK /\ match \in Seq(Player) /\ match # <<>> /\ \A c \in Conn : Settled(c)
      /\ Outcome \in Outcomes
  BY DEF IndInv, TypeOK, Searches, MatchmakerPlace, Notify, Outcome, Outcomes
<1>1. Head(match).player_id \in Conn /\ Head(match).fd \in Fd
  <2>1. Head(match) \in Player
    BY <1>0, TailOf
  <2> QED
    BY <2>1 DEF Player
<1> PICK d \in Conn : d = Head(match).player_id
  BY <1>1
<1>2. /\ mpc = "notify" /\ match' = Tail(match) /\ PushResult(Head(match), Outcome)
      /\ UNCHANGED <<q_session_man, players, seq_num>>
      /\ match' # <<>> => mpc' = mpc /\ found' = found
      /\ match' = <<>> => mpc' # "notify"
  BY DEF Notify, Outcome, pq
<1>3. UNCHANGED <<output, mail>> /\ \A c : Stream(c)' = Stream(c)
  BY MatchmakerApart
<1>4. InLine = players /\ InLine' = players
  BY <1>2 DEF InLine
<1>5. Line' = Line
  BY <1>4 DEF Line
<1>6. \A c, k : Requested(c, k)' <=> Requested(c, k)
  BY <1>2, <1>3 DEF Requested, Begins
<1>7. \A c : Of(c, match) # {} <=> c = d \/ Of(c, Tail(match)) # {}
  BY <1>0, OfTail
<1>8. /\ \A c, e : Has(c, e, q_orch) => Has(c, e, q_orch)'
      /\ \A c, e : Has(c, e, q_orch)' => Has(c, e, q_orch) \/ (c = d /\ e = Outcome)
  BY <1>0, <1>1, <1>2, PushTells
<1> DEFINE Later(c, e) ==
             \/ \E f \in Fd : output[f] # None /\ output[f].player_id = c
                              /\ output[f].event_type = e
             \/ \E i \in DOMAIN mail[c] : mail[c][i].event_type = e
<1>9. \A c, e : /\ Answers(c, e) <=> \/ e = Outcome /\ Of(c, match) # {}
                                     \/ Has(c, e, q_orch) \/ Later(c, e)
                /\ Answers(c, e)' <=> \/ e = Outcome /\ Of(c, Tail(match)) # {}
                                      \/ Has(c, e, q_orch)' \/ Later(c, e)
  <2>1. CASE Tail(match) = <<>>
    <3>1. \A c : Of(c, Tail(match)) = {}
      BY <2>1 DEF Of
    <3> QED
      BY <1>2, <1>3, <2>1, <3>1 DEF Answers
  <2>2. CASE Tail(match) # <<>>
    <3>1. Outcome' = Outcome /\ mpc' = "notify"
      BY <1>2, <2>2 DEF Outcome
    <3>2. \A c : Of(c, match)' = Of(c, Tail(match))
      BY <1>2 DEF Of
    <3> QED
      BY <1>2, <1>3, <3>1, <3>2 DEF Answers
  <2> QED
    BY <2>1, <2>2
<1> HIDE DEF Later
<1>10. /\ \A c, e : Answers(c, e)' => Answers(c, e)
       /\ \A c, e : c # d /\ Answers(c, e) => Answers(c, e)'
  BY <1>7, <1>8, <1>9
<1> QED
  BY <1>0, <1>2, <1>5, <1>6, <1>10, NoMore DEF Kept, Thins

LEMMA ServiceStep ==
  ASSUME IndInv, Searches, NoHeirs, [Next]_vars
  PROVE  [Service!Next]_(Service!service)
<1>1. CASE accept_connections \/ \E f \in Fd : read_incoming_data(f)
  <2>1. \A c \in Conn : Stream(c)' = Stream(c)
    BY <1>1, AcceptKeepsStream, ReadKeepsStream
  <2>2. UNCHANGED <<mail, q_session_man, mpc, found, match, q_orch, output, players, seq_num>>
    BY <1>1 DEF accept_connections, read_incoming_data, streams, broker, forming, pq
  <2>3. Line' = Line /\ seq_num' = seq_num
    BY <2>2, LineStays
  <2>4. \A c \in Conn : Kept(c)
    BY <2>1, <2>2, KeptWhen
  <2> QED
    BY <2>3, <2>4, Stays
<1>2. CASE UNCHANGED <<wire, mail, input, output, owner, fdOf, q_session_man, players,
                       seq_num, mpc, found, match, q_orch>>
  <2>1. Line' = Line /\ seq_num' = seq_num
    BY <1>2, LineStays
  <2>2. \A c \in Conn : Kept(c)
    BY <1>2, KeptWhen DEF Stream
  <2> QED
    BY <2>1, <2>2, Stays
<1> QED
  BY <1>1, <1>2, ServiceFrame, ClientServed, RequestServed, AnswerServed, MessageServed,
     FormServed, PopServed, NotifyServed

LEMMA ServiceInit == Init => Service!Init
<1> SUFFICES ASSUME Init PROVE Service!Init
  OBVIOUS
<1> USE DEF Init
<1>1. \A c \in Conn : \A k : ~Requested(c, k)
  <2>1. \A c \in Conn : Stream(c) = <<>>
    BY DEF Stream
  <2> QED
    BY <2>1 DEF Requested, Begins, Has, Of
<1>2. \A c \in Conn : \A e : ~Answers(c, e)
  BY DEF Answers, Has, Of
<1>3. Line = {}
  BY DEF Line, InLine, pq_create
<1> QED
  BY <1>1, <1>2, <1>3 DEF Service!Init, Asking, Leaving, Told, pq_create

(* As long as there are no heirs, the two threads are a matchmaking service, *)
(* first come, first served: each of their steps is one of the service or   *)
(* none, whatever the order of requests, cancels, results, lost connections *)
(* and descriptors used again.                                              *)
THEOREM MatchmakingImplemented == Spec => ImplementsMatchmaking
<1>1. IndInv /\ SearchInv /\ [Next]_vars
        => [NoHeirs' => [Service!Next]_(Service!service)]_vars
  <2> SUFFICES ASSUME IndInv, SearchInv, [Next]_vars, NoHeirs'
               PROVE  [Service!Next]_(Service!service)
    OBVIOUS
  <2>1. NoHeirs
    BY NoNewHeirs
  <2>2. Searches
    BY SearchesOf DEF IndInv
  <2> QED
    BY <2>1, <2>2, ServiceStep
<1>2. IndInv /\ SearchInv /\ [Process]_<<vars, running>>
        => [NoHeirs' => [Service!Next]_(Service!service)]_vars
  BY <1>1, StepOfProcess
<1> QED
  BY <1>2, ServiceInit, Inductive, SearchesSettle, PTL DEF Spec, ImplementsMatchmaking
=============================================================================
