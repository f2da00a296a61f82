------------------------------ MODULE PortPool ------------------------------
(***************************************************************************)
(* What the port manager promises, without its queue, table and threads: a *)
(* pool of ports and the games that play on them.  A port goes to one game *)
(* at a time, and comes back when that game is over.  PortManager          *)
(* implements it; Lobby counts on it.                                      *)
(***************************************************************************)
CONSTANTS
  Port,
  Game,   \* the pids of game processes
  None

VARIABLES
  free,   \* ports nobody plays on
  on      \* the port of each game, None for one that is not there

pool == <<free, on>>

Init == free = Port /\ on = [g \in Game |-> None]

(* A port is given to a game that players are sent to ...                  *)
Assign(g, p) ==
  /\ on[g] = None /\ p \in free
  /\ on' = [on EXCEPT ![g] = p]
  /\ free' = free \ {p}

(* ... the game is over ...                                                *)
Over(g) ==
  /\ on[g] # None
  /\ on' = [on EXCEPT ![g] = None]
  /\ UNCHANGED free

(* ... and the port comes back.                                            *)
Return(p) ==
  /\ p \notin free /\ \A g \in Game : on[g] # p
  /\ free' = free \union {p}
  /\ UNCHANGED on

(* A game that is over before it is known never gives back what it got.    *)
Lose(p) ==
  /\ p \in free
  /\ free' = free \ {p}
  /\ UNCHANGED on

Next ==
  \/ \E g \in Game : Over(g) \/ \E p \in Port : Assign(g, p)
  \/ \E p \in Port : Return(p) \/ Lose(p)

Spec == Init /\ [][Next]_pool
=============================================================================
