----------------------------- MODULE Matchmaking ----------------------------
(***************************************************************************)
(* What the supervisor promises to those who search for a match, without   *)
(* its threads, queues, descriptors and buffers: whoever asks stands in    *)
(* line, a match takes those who stand first in it, all of them hear the   *)
(* same, and nobody leaves the line otherwise but who cancels.  Lobby      *)
(* implements it as long as every descriptor that is used again is free of *)
(* what concerned the connection before.                                   *)
(***************************************************************************)
EXTENDS Naturals, FiniteSets

CONSTANTS
  Client,
  Size,             \* players of a match
  FOUND, NOT_FOUND

VARIABLES
  asking,   \* clients whose request is on its way
  leaving,  \* clients whose cancel is on its way
  line,     \* who stands in line, and since when
  ticket,   \* the next place in line
  told      \* clients with an answer under way

service == <<asking, leaving, line, ticket, told>>

Init == asking = {} /\ leaving = {} /\ line = {} /\ ticket = 1 /\ told = {}

(* A client that does not search asks for a match ...                      *)
Ask(c) ==
  /\ c \notin asking
  /\ \A l \in line : l.client # c
  /\ \A o \in {FOUND, NOT_FOUND} : <<c, o>> \notin told
  /\ asking' = asking \union {c}
  /\ UNCHANGED <<leaving, line, ticket, told>>

(* ... and gets a place at the end of the line.                            *)
Enter(c) ==
  /\ c \in asking
  /\ asking' = asking \ {c}
  /\ line' = line \union {[seq_num |-> ticket, client |-> c]}
  /\ ticket' = ticket + 1
  /\ UNCHANGED <<leaving, told>>

(* Whoever has changed his mind says so ...                                *)
Withdraw(c) ==
  /\ leaving' = leaving \union {c}
  /\ UNCHANGED <<asking, line, ticket, told>>

(* ... and leaves the line if he is still in it; the answer may be lost.   *)
Cancel(l) ==
  /\ l.client \in leaving
  /\ leaving' \in {leaving, leaving \ {l.client}}
  /\ line' = line \ {l}
  /\ told' \in {told, told \union {<<l.client, NOT_FOUND>>}}
  /\ UNCHANGED <<asking, ticket>>

(* A match is of those who stand first; it starts, or fails for all.       *)
Form(first, answer) ==
  /\ Cardinality(first) = Size
  /\ \A l \in first, m \in line \ first : l.seq_num < m.seq_num
  /\ line' = line \ first
  /\ told' = told \union {<<l.client, answer>> : l \in first}
  /\ UNCHANGED <<asking, leaving, ticket>>

(* A client has read its answer, its cancel comes too late, or what was on *)
(* its way is lost.                                                        *)
Forget(c) ==
  /\ asking' \in {asking, asking \ {c}}
  /\ leaving' \in {leaving, leaving \ {c}}
  /\ told' \in {told, told \ {<<c, FOUND>>, <<c, NOT_FOUND>>}}
  /\ UNCHANGED <<line, ticket>>

Next ==
  \/ \E c \in Client : Ask(c) \/ Enter(c) \/ Withdraw(c) \/ Forget(c)
  \/ \E l \in line : Cancel(l)
  \/ \E first \in SUBSET line, answer \in {FOUND, NOT_FOUND} : Form(first, answer)

Spec == Init /\ [][Next]_service
=============================================================================
