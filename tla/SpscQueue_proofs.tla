-------------------------- MODULE SpscQueue_proofs -------------------------
(***************************************************************************)
(* Proofs about SpscQueue, for every capacity and every set of elements.   *)
(***************************************************************************)
EXTENDS SpscQueue, SequenceTheorems, TLAPS

(* Going one place ahead on the ring shortens every distance from there. *)
LEMMA NextDistance ==
  ASSUME NEW i \in Index, NEW j \in Index
  PROVE  /\ NextIndex(i) \in Index
         /\ Distance(i, j) \in 0 .. Capacity - 1
         /\ i # j => Distance(NextIndex(i), j) = Distance(i, j) - 1
         /\ NextIndex(j) # i => Distance(i, NextIndex(j)) = Distance(i, j) + 1
  BY SpscAssumption DEF Index, NextIndex, Distance

(* The slot k places after i, seen from the next place, is k - 1 away. *)
LEMMA NextSlot ==
  ASSUME NEW i \in Index, NEW k \in 0 .. Capacity - 2
  PROVE  /\ Slot(i, k) \in Index
         /\ Slot(i, k + 1) = Slot(NextIndex(i), k)
         /\ Slot(i, 0) = i
  BY SpscAssumption DEF Index, NextIndex, Slot

(* The slot Distance(i, j) places after i is j, and no nearer slot is. *)
LEMMA SlotDistance ==
  ASSUME NEW i \in Index, NEW j \in Index
  PROVE  /\ Slot(i, Distance(i, j)) = j
         /\ \A k \in Index : /\ Slot(i, k) \in Index
                             /\ k < Distance(i, j) => Slot(i, k) # j
  BY SpscAssumption DEF Index, Distance, Slot

(* The queue starts empty, with both views exact. *)
LEMMA InitInd == Init => IndInv
  BY SpscAssumption
  DEF Init, IndInv, TypeOK, ProducerView, ConsumerView, Published, Index,
      Distance, NextIndex

-----------------------------------------------------------------------------
(* Every step of either thread keeps the inductive invariant. *)
LEMMA StepInd == IndInv /\ [Next]_vars => IndInv'
<1> SUFFICES ASSUME IndInv, [Next]_vars PROVE IndInv'
  OBVIOUS
<1> USE SpscAssumption DEF IndInv
<1>1. ASSUME NEW v \in Values, PushBegin(v) PROVE IndInv'
  <2>1. PICK h \in Arc(headSeen, head) : NextIndex(tail) # h /\ headSeen' = h
    BY <1>1 DEF PushBegin
  <2>2. TypeOK'
    BY <1>1, <2>1 DEF PushBegin, TypeOK, Arc, consumer
  <2>3. ProducerView'
    BY <1>1, <2>1 DEF PushBegin, TypeOK, ProducerView, Arc, Index, Distance, consumer
  <2>4. ConsumerView' /\ Published'
    BY <1>1 DEF PushBegin, ConsumerView, Published, consumer
  <2>5. QED
    BY <2>2, <2>3, <2>4
<1>2. CASE PushFull
  <2>1. PICK h \in Arc(headSeen, head) : headSeen' = h
    BY <1>2 DEF PushFull
  <2>2. TypeOK'
    BY <1>2, <2>1 DEF PushFull, TypeOK, Arc, consumer
  <2>3. ProducerView'
    BY <1>2, <2>1 DEF PushFull, TypeOK, ProducerView, Arc, Index, Distance, consumer
  <2>4. ConsumerView' /\ Published'
    BY <1>2 DEF PushFull, ConsumerView, Published, consumer
  <2>5. QED
    BY <2>2, <2>3, <2>4
<1>3. CASE PushCopy
  <2>1. TypeOK' /\ ProducerView' /\ ConsumerView'
    BY <1>3 DEF PushCopy, TypeOK, ProducerView, ConsumerView, consumer
  <2>2. Published'
    BY <1>3, SlotDistance DEF PushCopy, TypeOK, Published, ProducerView, consumer
  <2>3. QED
    BY <2>1, <2>2
<1>4. CASE PushPublish
  <2>0. Distance(head, tail) \in 0 .. Capacity - 1
    BY NextDistance DEF TypeOK
  <2>1. TypeOK'
    BY <1>4, NextDistance DEF PushPublish, TypeOK, consumer
  <2>2. ProducerView' /\ ConsumerView'
    BY <1>4 DEF PushPublish, TypeOK, ProducerView, ConsumerView, Index, NextIndex,
                Distance, consumer
  <2>3. Distance(head, tail)' = Distance(head, tail) + 1
    BY <1>4 DEF PushPublish, TypeOK, ProducerView, Index, NextIndex, Distance, consumer
  <2>4. \A k \in Index : k <= Distance(head, tail) => buffer[Slot(head, k)] \in Values
    <3>1. buffer[Slot(head, Distance(head, tail))] \in Values
      BY <1>4, SlotDistance DEF PushPublish, TypeOK, ProducerView
    <3>2. ASSUME NEW k \in Index, k <= Distance(head, tail)
          PROVE  k < Distance(head, tail) \/ k = Distance(head, tail)
      BY <3>2, <2>0 DEF Index
    <3>3. QED
      BY <3>1, <3>2 DEF Published
  <2>5. Published'
    <3>1. ASSUME NEW k \in Index, k < Distance(head, tail) + 1
          PROVE  k <= Distance(head, tail)
      BY <3>1, <2>0 DEF Index
    <3>2. QED
      BY <1>4, <2>3, <2>4, <3>1 DEF PushPublish, Published, consumer
  <2>6. QED
    BY <2>1, <2>2, <2>5
<1>5. CASE PopBegin
  <2>1. PICK t \in Arc(tailSeen, tail) : head # t /\ tailSeen' = t
    BY <1>5 DEF PopBegin
  <2>2. TypeOK'
    BY <1>5, <2>1 DEF PopBegin, TypeOK, Arc, producer
  <2>3. ConsumerView'
    BY <1>5, <2>1 DEF PopBegin, TypeOK, ConsumerView, Arc, Index, Distance, producer
  <2>4. ProducerView' /\ Published'
    BY <1>5 DEF PopBegin, ProducerView, Published, producer
  <2>5. QED
    BY <2>2, <2>3, <2>4
<1>6. CASE PopEmpty
  <2>1. PICK t \in Arc(tailSeen, tail) : tailSeen' = t
    BY <1>6 DEF PopEmpty
  <2>2. TypeOK'
    BY <1>6, <2>1 DEF PopEmpty, TypeOK, Arc, producer
  <2>3. ConsumerView'
    BY <1>6, <2>1 DEF PopEmpty, TypeOK, ConsumerView, Arc, Index, Distance, producer
  <2>4. ProducerView' /\ Published'
    BY <1>6 DEF PopEmpty, ProducerView, Published, producer
  <2>5. QED
    BY <2>2, <2>3, <2>4
<1>7. CASE PopCopy
  <2>1. buffer[head] \in Values \union {NoValue}
    BY DEF TypeOK
  <2>2. QED
    BY <1>7, <2>1 DEF PopCopy, TypeOK, ProducerView, ConsumerView, Published, producer
<1>8. CASE PopRelease
  <2>1. head # tail
    BY <1>8 DEF PopRelease, TypeOK, ConsumerView, Index, Distance
  <2>2. TypeOK'
    BY <1>8, NextDistance DEF PopRelease, TypeOK, producer
  <2>3. ProducerView' /\ ConsumerView'
    BY <1>8, <2>1 DEF PopRelease, TypeOK, ProducerView, ConsumerView, Index,
                      NextIndex, Distance, producer
  <2>4. Distance(head, tail)' = Distance(head, tail) - 1
    BY <1>8, <2>1, NextDistance DEF PopRelease, TypeOK, producer
  <2>5. ASSUME NEW k \in Index, k < Distance(head, tail) - 1
        PROVE  buffer[Slot(NextIndex(head), k)] \in Values
    <3>0. Distance(head, tail) \in 0 .. Capacity - 1
      BY NextDistance DEF TypeOK
    <3>1. k + 1 \in Index /\ k + 1 < Distance(head, tail) /\ k \in 0 .. Capacity - 2
      BY <2>5, <3>0 DEF Index
    <3>2. Slot(NextIndex(head), k) = Slot(head, k + 1)
      BY <3>1, NextSlot DEF TypeOK
    <3>3. QED
      BY <3>1, <3>2 DEF Published
  <2>6. Published'
    BY <1>8, <2>4, <2>5 DEF PopRelease, Published, producer
  <2>7. QED
    BY <2>2, <2>3, <2>6
<1>9. CASE UNCHANGED vars
  BY <1>9 DEF vars, producer, consumer, TypeOK, ProducerView, ConsumerView, Published
<1>10. QED
  BY <1>1, <1>2, <1>3, <1>4, <1>5, <1>6, <1>7, <1>8, <1>9 DEF Next

(* The inductive invariant holds in every reachable state: both indices and  *)
(* both views stay on the ring, a push never lands on a slot the consumer    *)
(* has not released, and every slot between head and tail was written        *)
(* (spscq_push, spscq_pop).                                                  *)
THEOREM Inductive == Spec => []IndInv
<1>1. Init => IndInv
  BY InitInd
<1>2. IndInv /\ [Next]_vars => IndInv'
  BY StepInd
<1>3. QED
  BY <1>1, <1>2, PTL DEF Spec

(* The queue's variables keep their types. *)
THEOREM TypeCorrect == Spec => []TypeOK
<1>1. IndInv => TypeOK
  BY DEF IndInv
<1>2. QED
  BY <1>1, Inductive, PTL

(* The two memcpy calls of spscq_push and spscq_pop never work on the same   *)
(* slot at the same time, whatever the capacity and however stale the views. *)
THEOREM SlotRaceFree == Spec => []NoSlotRace
<1>1. IndInv => NoSlotRace
  BY SpscAssumption DEF IndInv, TypeOK, ConsumerView, NoSlotRace, Index, Distance
<1>2. QED
  BY <1>1, Inductive, PTL

-----------------------------------------------------------------------------
(* The abstract queue is a sequence of elements, as long as the published    *)
(* part of the ring; its oldest element is the slot a pop would copy.        *)
ContentsOK ==
  /\ First \in Index
  /\ Distance(First, tail) \in 0 .. Capacity - 1
  /\ Contents \in Seq(Values)
  /\ Len(Contents) = Distance(First, tail)
  /\ \A k \in 1 .. Distance(First, tail) :
        Contents[k] = buffer[Slot(First, k - 1)]

LEMMA ContentsSeq == IndInv => ContentsOK
<1> SUFFICES ASSUME IndInv PROVE ContentsOK
  OBVIOUS
<1> USE SpscAssumption DEF IndInv
<1>1. First \in Index /\ Distance(First, tail) \in 0 .. Capacity - 1
  BY NextDistance DEF TypeOK, First
<1>2. ASSUME NEW k \in 1 .. Distance(First, tail)
      PROVE  buffer[Slot(First, k - 1)] \in Values
  <2>1. CASE cpc = "release"
    <3>1. head # tail
      BY <2>1 DEF TypeOK, ConsumerView, Index, Distance
    <3>2. Distance(First, tail) = Distance(head, tail) - 1 /\ First = NextIndex(head)
      BY <2>1, <3>1, NextDistance DEF TypeOK, First
    <3>3. k \in Index /\ k < Distance(head, tail) /\ k - 1 \in 0 .. Capacity - 2
      <4>1. Distance(head, tail) \in 0 .. Capacity - 1
        BY NextDistance DEF TypeOK
      <4>2. QED
        BY <3>2, <4>1 DEF Index
    <3>4. Slot(NextIndex(head), k - 1) = Slot(head, (k - 1) + 1)
      BY <3>3, NextSlot DEF TypeOK
    <3>5. (k - 1) + 1 = k
      BY <3>3 DEF Index
    <3>6. QED
      BY <3>2, <3>3, <3>4, <3>5 DEF Published
  <2>2. CASE cpc # "release"
    <3>1. First = head
      BY <2>2 DEF First
    <3>2. k - 1 \in Index /\ k - 1 < Distance(head, tail)
      BY <1>1, <3>1 DEF Index
    <3>3. QED
      BY <3>1, <3>2 DEF Published
  <2>3. QED
    BY <2>1, <2>2
<1>3. Contents \in [1 .. Distance(First, tail) -> Values]
  BY <1>2 DEF Contents
<1>4. Contents \in Seq(Values) /\ Len(Contents) = Distance(First, tail)
  <2>1. Distance(First, tail) \in Nat
    BY <1>1
  <2>2. Contents \in Seq(Values)
    BY <1>3, <2>1, SeqDef
  <2>3. DOMAIN Contents = 1 .. Distance(First, tail)
    BY DEF Contents
  <2>4. Len(Contents) \in Nat /\ DOMAIN Contents = 1 .. Len(Contents)
    BY <2>2, LenProperties
  <2>5. QED
    BY <2>1, <2>2, <2>3, <2>4
<1>5. QED
  BY <1>1, <1>4 DEF Contents, ContentsOK

LEMMA ContentsSeqNext == IndInv' => ContentsOK'
  BY ContentsSeq, PTL

(* Storing tail is the abstract Put. *)
LEMMA PublishPuts ==
  ASSUME IndInv, IndInv', PushPublish
  PROVE  Fifo!Put(elem)
<1> USE SpscAssumption DEF PushPublish
<1>1. ContentsOK /\ ContentsOK'
  BY ContentsSeq, ContentsSeqNext
<1>2. First' = First /\ buffer' = buffer /\ elem \in Values
  BY DEF First, consumer, IndInv, ProducerView
<1>3. /\ Distance(First, tail) < Capacity - 1
      /\ Distance(First, tail)' = Distance(First, tail) + 1
  BY <1>2 DEF IndInv, TypeOK, ProducerView, ConsumerView, First, Distance,
              NextIndex, Index, consumer
<1>4. Append(Contents, elem) \in Seq(Values)
      /\ Len(Append(Contents, elem)) = Distance(First, tail) + 1
      /\ \A i \in 1 .. Distance(First, tail) : Append(Contents, elem)[i] = Contents[i]
      /\ Append(Contents, elem)[Distance(First, tail) + 1] = elem
  BY <1>1, <1>2, AppendProperties DEF ContentsOK
<1>5. ASSUME NEW i \in 1 .. Distance(First, tail) + 1
      PROVE  Contents'[i] = Append(Contents, elem)[i]
  <2>1. Contents'[i] = buffer[Slot(First, i - 1)]
    BY <1>1, <1>2, <1>3 DEF ContentsOK
  <2>2. CASE i <= Distance(First, tail)
    BY <1>1, <1>4, <2>1, <2>2 DEF ContentsOK
  <2>3. CASE i = Distance(First, tail) + 1
    <3>1. i - 1 = Distance(First, tail)
      BY <1>1, <2>3 DEF ContentsOK
    <3>2. Slot(First, i - 1) = tail
      BY <1>1, <3>1, SlotDistance DEF ContentsOK, IndInv, TypeOK
    <3>3. QED
      BY <1>4, <2>1, <2>3, <3>2 DEF IndInv, ProducerView
  <2>4. QED
    BY <1>1, <2>2, <2>3 DEF ContentsOK
<1>6. Contents' = Append(Contents, elem)
  <2>1. Contents' \in Seq(Values) /\ Len(Contents') = Distance(First, tail) + 1
    BY <1>1, <1>3 DEF ContentsOK
  <2>2. QED
    BY <1>4, <1>5, <2>1, SeqEqual
<1>7. QED
  BY <1>1, <1>3, <1>6 DEF Fifo!Put, ContentsOK, consumer

(* Copying the slot out is the abstract Take. *)
LEMMA CopyTakes ==
  ASSUME IndInv, IndInv', PopCopy
  PROVE  Fifo!Take
<1> USE SpscAssumption DEF PopCopy
<1>1. ContentsOK /\ ContentsOK'
  BY ContentsSeq, ContentsSeqNext
<1>2. First = head /\ First' = NextIndex(head) /\ tail' = tail /\ buffer' = buffer
  BY DEF First, producer
<1>3. head # tail
  BY DEF IndInv, TypeOK, ConsumerView, Index, Distance
<1>4. /\ Distance(First, tail) \in 1 .. Capacity - 1
      /\ Distance(First, tail)' = Distance(First, tail) - 1
  BY <1>2, <1>3 DEF IndInv, TypeOK, Distance, NextIndex, Index
<1>5. Contents # <<>>
  BY <1>1, <1>4 DEF ContentsOK
<1>6. Head(Contents) = out_elem'
  <2>1. Head(Contents) = Contents[1]
    BY <1>1 DEF ContentsOK
  <2>2. Contents[1] = buffer[Slot(First, 0)]
    BY <1>1, <1>4 DEF ContentsOK
  <2>3. Slot(First, 0) = head
    BY <1>2 DEF Slot, IndInv, TypeOK, Index
  <2>4. QED
    BY <2>1, <2>2, <2>3
<1>7. /\ Tail(Contents) \in Seq(Values)
      /\ Len(Tail(Contents)) = Distance(First, tail) - 1
      /\ \A i \in 1 .. Distance(First, tail) - 1 : Tail(Contents)[i] = Contents[i + 1]
  BY <1>1, <1>5, HeadTailProperties DEF ContentsOK
<1>8. ASSUME NEW i \in 1 .. Distance(First, tail) - 1
      PROVE  Contents'[i] = Tail(Contents)[i]
  <2>1. Contents'[i] = buffer[Slot(NextIndex(head), i - 1)]
    BY <1>1, <1>2, <1>4 DEF ContentsOK
  <2>2. i - 1 \in 0 .. Capacity - 2 /\ (i - 1) + 1 = i /\ (i + 1) - 1 = i
    BY <1>4
  <2>3. Slot(NextIndex(head), i - 1) = Slot(head, i)
    BY <2>2, NextSlot DEF IndInv, TypeOK
  <2>4. Contents[i + 1] = buffer[Slot(First, i)]
    BY <1>1, <1>4, <2>2 DEF ContentsOK
  <2>5. QED
    BY <1>2, <1>7, <2>1, <2>3, <2>4
<1>9. Contents' = Tail(Contents)
  <2>1. Contents' \in Seq(Values) /\ Len(Contents') = Distance(First, tail) - 1
    BY <1>1, <1>4 DEF ContentsOK
  <2>2. QED
    BY <1>7, <1>8, <2>1, SeqEqual
<1>10. QED
  BY <1>5, <1>6, <1>9 DEF Fifo!Take

(* The producer's copy fills a slot that is not yet part of the queue. *)
LEMMA CopyKeepsContents ==
  ASSUME IndInv, PushCopy
  PROVE  Contents' = Contents
<1> USE DEF PushCopy, IndInv
<1>1. First' = First /\ tail' = tail /\ First \in Index
  BY NextDistance DEF First, TypeOK, consumer
<1>2. Distance(First, tail) \in 0 .. Capacity - 1
  BY <1>1, NextDistance DEF TypeOK
<1>3. ASSUME NEW k \in 1 .. Distance(First, tail)
      PROVE  buffer'[Slot(First, k - 1)] = buffer[Slot(First, k - 1)]
  <2>1. k - 1 \in Index /\ k - 1 < Distance(First, tail)
    BY <1>2, SpscAssumption DEF Index
  <2>2. Slot(First, k - 1) \in Index /\ Slot(First, k - 1) # tail
    BY <1>1, <2>1, SlotDistance DEF TypeOK
  <2>3. QED
    BY <2>2 DEF TypeOK
<1>4. QED
  BY <1>1, <1>3 DEF Contents

(* The ring buffer implements the bounded queue that spsc_queue.h documents: *)
(* every step of spscq_push or spscq_pop is a Put, a Take or invisible.      *)
THEOREM Refinement == Spec => ImplementsFifo
<1>1. Init => Fifo!Init
  <2> SUFFICES ASSUME Init PROVE Fifo!Init
    OBVIOUS
  <2>1. ContentsOK
    BY InitInd, ContentsSeq
  <2>2. Distance(First, tail) = 0
    BY DEF Init, First, Distance
  <2>3. Contents = <<>>
    BY <2>1, <2>2, EmptySeq DEF ContentsOK
  <2>4. QED
    BY <2>3 DEF Init, Fifo!Init
<1>2. IndInv /\ IndInv' /\ [Next]_vars => [Fifo!Next]_(Fifo!fifoVars)
  <2> SUFFICES ASSUME IndInv, IndInv', [Next]_vars
               PROVE  Fifo!Next \/ UNCHANGED <<Contents, out_elem>>
    BY DEF Fifo!fifoVars
  <2>1. ASSUME NEW v \in Values, PushBegin(v)
        PROVE  UNCHANGED <<Contents, out_elem>>
    BY <2>1 DEF PushBegin, Contents, First, consumer
  <2>2. CASE PushFull
    BY <2>2 DEF PushFull, Contents, First, consumer
  <2>3. CASE PushCopy
    BY <2>3, CopyKeepsContents DEF PushCopy, consumer
  <2>4. CASE PushPublish
    <3>1. elem \in Values
      BY <2>4 DEF PushPublish, IndInv, ProducerView
    <3>2. Fifo!Put(elem)
      BY <2>4, PublishPuts
    <3>3. QED
      BY <3>1, <3>2 DEF Fifo!Next
  <2>5. CASE PopBegin
    BY <2>5 DEF PopBegin, Contents, First, producer
  <2>6. CASE PopEmpty
    BY <2>6 DEF PopEmpty, Contents, First, producer
  <2>7. CASE PopCopy
    BY <2>7, CopyTakes DEF Fifo!Next
  <2>8. CASE PopRelease
    BY <2>8 DEF PopRelease, Contents, First, producer
  <2>9. CASE UNCHANGED vars
    BY <2>9 DEF vars, Contents, First, producer, consumer
  <2>10. QED
    BY <2>1, <2>2, <2>3, <2>4, <2>5, <2>6, <2>7, <2>8, <2>9 DEF Next
<1>3. QED
  BY <1>1, <1>2, Inductive, PTL DEF Spec, ImplementsFifo, Fifo!Spec

=============================================================================
