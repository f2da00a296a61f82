---------------------------- MODULE QueueClients ----------------------------
(***************************************************************************)
(* The players queue between its callers, with the way of a request to the *)
(* matchmaker (Lobby) taken as instantaneous and the way back as a delay:  *)
(* clients that search and cancel (lobby.gd), a connection whose           *)
(* descriptor is taken over by another one, and form_match of              *)
(* src/server/supervisor/src/matchmaker/matchmaker.c, which pops           *)
(* PLAYERS_PER_MATCH players once the queue is ready.                      *)
(***************************************************************************)
EXTENDS PlayersQueue

CONSTANTS
  None,
  PLAYERS_PER_MATCH,
  MaxSearch           \* bound: searches

VARIABLES
  holder,     \* the connection on a descriptor
  fresh,      \* connections still to come
  searching, cancelling,
  mail,       \* number of results a connection has not looked at
  left        \* players form_match has still to pop

clients == <<holder, fresh, searching, cancelling, mail>>
vars == <<pq, clients, left>>

Init ==
  /\ pq_create
  /\ holder = [f \in Fd |-> None] /\ fresh = Conn
  /\ searching = {} /\ cancelling = {} /\ mail = [c \in Conn |-> 0] /\ left = 0

\* Who held f before has hung up, which the matchmaker is not told.
Arrive(f) ==
  /\ \E c \in fresh : holder' = [holder EXCEPT ![f] = c] /\ fresh' = fresh \ {c}
  /\ UNCHANGED <<pq, searching, cancelling, mail, left>>

Search(f) ==
  /\ left = 0 /\ seq_num <= MaxSearch
  /\ holder[f] # None /\ holder[f] \notin searching
  /\ pq_add_player(f, holder[f])
  /\ searching' = searching \union {holder[f]}
  /\ UNCHANGED <<holder, fresh, cancelling, mail, left>>

\* A result goes to whoever holds the descriptor.
Answer(f) == mail' = [mail EXCEPT ![holder[f]] = @ + 1]

Cancel(f) ==
  /\ left = 0 /\ holder[f] \in searching \ cancelling
  /\ cancelling' = cancelling \union {holder[f]}
  /\ \/ pq_remove_player(f) /\ Answer(f)
     \/ NotFound(f) /\ UNCHANGED <<pq, mail>>
  /\ UNCHANGED <<holder, fresh, searching, left>>

Look(c) ==
  /\ c \in searching /\ mail[c] > 0
  /\ mail' = [mail EXCEPT ![c] = @ - 1]
  /\ searching' = searching \ {c} /\ cancelling' = cancelling \ {c}
  /\ UNCHANGED <<pq, holder, fresh, left>>

form_match ==
  /\ left = 0 /\ pq_ready(PLAYERS_PER_MATCH)
  /\ left' = PLAYERS_PER_MATCH
  /\ UNCHANGED <<pq, clients>>

Pop ==
  /\ left > 0
  /\ IF QueueEmpty
     THEN left' = 0 /\ UNCHANGED <<pq, clients>>
     ELSE /\ \E p \in players : pop_from_queue(p) /\ Answer(p.fd)
          /\ left' = left - 1
          /\ UNCHANGED <<holder, fresh, searching, cancelling>>

Next ==
  \/ form_match \/ Pop
  \/ \E f \in Fd : Arrive(f) \/ Search(f) \/ Cancel(f)
  \/ \E c \in Conn : Look(c)

Spec == Init /\ [][Next]_vars

-----------------------------------------------------------------------------
\* pq_ready "checks whether the queue contains at least `goal` players"
\* (players_queue.h).
ReadyMeansEnough ==
  left = 0 /\ pq_ready(PLAYERS_PER_MATCH) => Cardinality(players) >= PLAYERS_PER_MATCH
=============================================================================
