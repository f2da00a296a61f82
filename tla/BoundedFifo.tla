---------------------------- MODULE BoundedFifo ----------------------------
(***************************************************************************)
(* What src/server/common/include/ds/spsc_queue.h promises its users: a    *)
(* first-in first-out buffer of at most Bound elements.  A push or a pop   *)
(* takes effect in one step or fails and changes nothing, so a failed call *)
(* is a stuttering step of this specification.                             *)
(*                                                                         *)
(* The modules that use a queue (the mail drop of a game process, the      *)
(* broker between orchestrator and matchmaker) model it at this level;     *)
(* SpscQueue shows that the ring buffer implements it.                     *)
(***************************************************************************)
EXTENDS Naturals, Sequences

CONSTANTS
  Values,   \* the elements that can be pushed
  Bound,    \* spscq_usable_capacity
  NoValue   \* what out_elem holds before the first pop

VARIABLES
  queue,      \* the elements pushed and not yet popped, oldest first
  delivered   \* the element the last successful pop copied out

fifoVars == <<queue, delivered>>

FifoTypeOK ==
  /\ queue \in Seq(Values)
  /\ delivered \in Values \union {NoValue}

Init == queue = <<>> /\ delivered = NoValue

Put(v) ==
  /\ Len(queue) < Bound
  /\ queue' = Append(queue, v)
  /\ UNCHANGED delivered

Take ==
  /\ queue # <<>>
  /\ delivered' = Head(queue)
  /\ queue' = Tail(queue)

Next == (\E v \in Values : Put(v)) \/ Take

Spec == Init /\ [][Next]_fifoVars

=============================================================================
