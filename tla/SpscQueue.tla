----------------------------- MODULE SpscQueue -----------------------------
(***************************************************************************)
(* The lock-free single-producer single-consumer ring buffer of            *)
(* src/server/common/src/ds/spsc_queue.c.                                  *)
(*                                                                         *)
(* spscq_push and spscq_pop are split at their shared accesses: the load   *)
(* of the other side's index, the memcpy of the slot, and the release      *)
(* store of the own index.  An acquire load may return any value the index *)
(* has had since the caller last saw it, so a load is a choice on the arc  *)
(* of the ring from the value last seen to the present one (headSeen,      *)
(* tailSeen); the thread's own index is always exact.                      *)
(***************************************************************************)
EXTENDS Naturals, Sequences

CONSTANTS
  Values,     \* the elements that can be pushed
  Capacity,   \* number of slots, one of which stays unused
  NoValue     \* content of a slot that was never written

(* spscq_create refuses a capacity below two. *)
ASSUME SpscAssumption == Capacity \in Nat \ {0, 1} /\ NoValue \notin Values

VARIABLES
  head,       \* atomic index of the next slot to pop, written by the consumer
  tail,       \* atomic index of the next slot to push, written by the producer
  buffer,     \* the slots
  headSeen,   \* the head the producer's last acquire load returned
  tailSeen,   \* the tail the consumer's last acquire load returned
  ppc,        \* the producer's place in spscq_push
  elem,       \* the argument of spscq_push
  cpc,        \* the consumer's place in spscq_pop
  out_elem    \* the consumer's destination buffer

producer == <<tail, headSeen, ppc, elem>>
consumer == <<head, tailSeen, cpc, out_elem>>
vars == <<producer, consumer, buffer>>

Index == 0 .. Capacity - 1

(* spscq_next_index, and one that wraps a slot late.                        *)
NextIndexLate(i) == IF i = Capacity THEN 0 ELSE i + 1
NextIndex(i) == IF i + 1 = Capacity THEN 0 ELSE i + 1

(* How far j is ahead of i on the ring, and the slot k places after i. *)
Distance(i, j) == IF j >= i THEN j - i ELSE j + Capacity - i
Slot(i, k) == IF i + k >= Capacity THEN i + k - Capacity ELSE i + k

(* The values a load may return when i was seen last and j is current. *)
Arc(i, j) == {x \in Index : Distance(i, x) <= Distance(i, j)}

Init ==
  /\ head = 0 /\ tail = 0
  /\ buffer = [i \in Index |-> NoValue]
  /\ headSeen = 0 /\ tailSeen = 0
  /\ ppc = "idle" /\ elem = NoValue
  /\ cpc = "idle" /\ out_elem = NoValue

-----------------------------------------------------------------------------
(* The producer: spscq_push(v). *)

(* A push that does not look whether the ring is full.                      *)
PushBeginUnchecked(v) ==
  /\ ppc = "idle"
  /\ headSeen' \in Arc(headSeen, head)
  /\ ppc' = "copy"
  /\ elem' = v
  /\ UNCHANGED <<tail, consumer, buffer>>

(* The head it loads leaves a free slot: go on to copy. *)
PushBegin(v) ==
  /\ ppc = "idle"
  /\ \E h \in Arc(headSeen, head) :
       /\ NextIndex(tail) # h
       /\ headSeen' = h
  /\ ppc' = "copy"
  /\ elem' = v
  /\ UNCHANGED <<tail, consumer, buffer>>

(* The head it loads says the ring is full: return -1. *)
PushFull ==
  /\ ppc = "idle"
  /\ \E h \in Arc(headSeen, head) :
       /\ NextIndex(tail) = h
       /\ headSeen' = h
  /\ UNCHANGED <<tail, ppc, elem, consumer, buffer>>

(* A push that copies into the slot after the one it publishes.             *)
PushCopyNext ==
  /\ ppc = "copy"
  /\ buffer' = [buffer EXCEPT ![NextIndex(tail)] = elem]
  /\ ppc' = "publish"
  /\ UNCHANGED <<tail, headSeen, elem, consumer>>

(* The memcpy into the slot ends here; it is under way while ppc = "copy". *)
PushCopy ==
  /\ ppc = "copy"
  /\ buffer' = [buffer EXCEPT ![tail] = elem]
  /\ ppc' = "publish"
  /\ UNCHANGED <<tail, headSeen, elem, consumer>>

(* The release store of tail. *)
PushPublish ==
  /\ ppc = "publish"
  /\ tail' = NextIndex(tail)
  /\ ppc' = "idle"
  /\ UNCHANGED <<headSeen, elem, consumer, buffer>>

-----------------------------------------------------------------------------
(* The consumer: spscq_pop. *)

(* A pop that does not look whether anything was published.                 *)
PopBeginUnchecked ==
  /\ cpc = "idle"
  /\ tailSeen' \in Arc(tailSeen, tail)
  /\ cpc' = "copy"
  /\ UNCHANGED <<head, out_elem, producer, buffer>>

(* The tail it loads leaves an element to copy. *)
PopBegin ==
  /\ cpc = "idle"
  /\ \E t \in Arc(tailSeen, tail) :
       /\ head # t
       /\ tailSeen' = t
  /\ cpc' = "copy"
  /\ UNCHANGED <<head, out_elem, producer, buffer>>

PopEmpty ==
  /\ cpc = "idle"
  /\ \E t \in Arc(tailSeen, tail) :
       /\ head = t
       /\ tailSeen' = t
  /\ UNCHANGED <<head, cpc, out_elem, producer, buffer>>

(* The memcpy out of the slot ends here; it is under way while cpc = "copy". *)
PopCopy ==
  /\ cpc = "copy"
  /\ out_elem' = buffer[head]
  /\ cpc' = "release"
  /\ UNCHANGED <<head, tailSeen, producer, buffer>>

(* The release store of head. *)
PopRelease ==
  /\ cpc = "release"
  /\ head' = NextIndex(head)
  /\ cpc' = "idle"
  /\ UNCHANGED <<tailSeen, out_elem, producer, buffer>>

Next ==
  \/ \E v \in Values : PushBegin(v)
  \/ PushFull
  \/ PushCopy
  \/ PushPublish
  \/ PopBegin
  \/ PopEmpty
  \/ PopCopy
  \/ PopRelease

Spec == Init /\ [][Next]_vars

-----------------------------------------------------------------------------
TypeOK ==
  /\ head \in Index /\ tail \in Index
  /\ headSeen \in Index /\ tailSeen \in Index
  /\ buffer \in [Index -> Values \union {NoValue}]
  /\ ppc \in {"idle", "copy", "publish"}
  /\ cpc \in {"idle", "copy", "release"}
  /\ elem \in Values \union {NoValue}
  /\ out_elem \in Values \union {NoValue}

(* The producer's memcpy and the consumer's memcpy never touch the same slot *)
(* at the same time, although neither thread takes a lock.                   *)
NoSlotRace == ppc = "copy" /\ cpc = "copy" => tail # head

(* The inductive invariant.  Each view lies between what it saw and the      *)
(* present, on the right side of the other index: seen from the producer the *)
(* ring never holds more than Capacity - 1 elements, one less while a push   *)
(* is under way, and the consumer never believes in an element that is not   *)
(* published.  Every published slot was written.                             *)
ProducerView ==
  /\ Distance(headSeen, head) + Distance(head, tail) <= Capacity - 1
  /\ Distance(headSeen, tail) = Distance(headSeen, head) + Distance(head, tail)
  /\ ppc # "idle" => NextIndex(tail) # headSeen /\ elem \in Values
  /\ ppc = "publish" => buffer[tail] = elem

ConsumerView ==
  /\ Distance(head, tailSeen) <= Distance(head, tail)
  /\ cpc # "idle" => tailSeen # head

Published ==
  \A k \in Index : k < Distance(head, tail) => buffer[Slot(head, k)] \in Values

IndInv == TypeOK /\ ProducerView /\ ConsumerView /\ Published

(* The abstract queue: every published slot, less the one whose pop has      *)
(* copied it out and has only to store head.                                 *)
First == IF cpc = "release" THEN NextIndex(head) ELSE head

Contents ==
  [k \in 1 .. Distance(First, tail) |-> buffer[Slot(First, k - 1)]]

Fifo == INSTANCE BoundedFifo
          WITH Bound <- Capacity - 1, queue <- Contents, delivered <- out_elem

(* The ring buffer implements the bounded first-in first-out queue: a push   *)
(* takes effect at its release store and a pop at its copy, in order, with   *)
(* nothing lost, repeated or invented, for every interleaving and every      *)
(* stale view of the other side's index.                                     *)
ImplementsFifo == Fifo!Spec

=============================================================================
