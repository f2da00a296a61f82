------------------------- MODULE PortManager_proofs ------------------------
(***************************************************************************)
(* The inductive invariant of PortManager and what follows from it, for    *)
(* any pool of ports and any set of pids.                                  *)
(*                                                                         *)
(* The queue and the table change by one element at a time.  Four lemmas   *)
(* say what that does to the sets of free and of mapped ports; the steps   *)
(* of the system then only move a port from one place to another.          *)
(***************************************************************************)
EXTENDS PortManager, FiniteSetTheorems, TLAPS

Distinct(s) == \A i, j \in DOMAIN s : i # j => s[i] # s[j]
Elems(s) == {s[i] : i \in DOMAIN s}

DistinctIn(m) ==
  \A c, d \in Pid : \A i \in DOMAIN m[c], j \in DOMAIN m[d] :
    m[c][i] = m[d][j] => c = d /\ i = j
ElemsIn(m) == UNION {Elems(m[c]) : c \in Pid}

-----------------------------------------------------------------------------
(* Queue and table.                                                         *)

(* What is taken from the front of a queue without repetitions is no longer *)
(* in it, and nothing else has changed.                                     *)
LEMMA TakeFront ==
  ASSUME NEW s \in Seq(Port), s # <<>>, Distinct(s)
  PROVE  /\ Distinct(Tail(s)) /\ Tail(s) \in Seq(Port) /\ Head(s) \in Port
         /\ Elems(Tail(s)) = Elems(s) \ {Head(s)}
<1> DEFINE t == Tail(s)
<1>1. /\ Len(s) \in Nat \ {0} /\ Len(t) = Len(s) - 1 /\ t \in Seq(Port)
      /\ DOMAIN s = 1 .. Len(s) /\ DOMAIN t = 1 .. Len(t)
      /\ Head(s) = s[1] /\ s[1] \in Port
  OBVIOUS
<1>2. \A i \in DOMAIN t : i + 1 \in DOMAIN s /\ t[i] = s[i + 1] /\ i + 1 # 1
  BY <1>1
<1>3. \A i \in DOMAIN s : i # 1 => i - 1 \in DOMAIN t /\ t[i - 1] = s[i]
  BY <1>1
<1>4. Distinct(t)
  <2>1. SUFFICES ASSUME NEW i \in DOMAIN t, NEW j \in DOMAIN t, i # j
                 PROVE  t[i] # t[j]
    BY DEF Distinct
  <2>2. i + 1 # j + 1 /\ i + 1 \in DOMAIN s /\ j + 1 \in DOMAIN s
    BY <1>1, <1>2, <2>1
  <2> QED
    BY <1>2, <2>2 DEF Distinct
<1>5. Elems(t) \subseteq Elems(s) \ {s[1]}
  <2>1. SUFFICES ASSUME NEW i \in DOMAIN t
                 PROVE  t[i] \in Elems(s) \ {s[1]}
    BY DEF Elems
  <2>2. i + 1 \in DOMAIN s /\ t[i] = s[i + 1] /\ i + 1 # 1 /\ 1 \in DOMAIN s
    BY <1>1, <1>2
  <2> QED
    BY <2>2 DEF Elems, Distinct
<1>6. Elems(s) \ {s[1]} \subseteq Elems(t)
  <2>1. SUFFICES ASSUME NEW i \in DOMAIN s, s[i] # s[1]
                 PROVE  s[i] \in Elems(t)
    BY DEF Elems
  <2>2. i - 1 \in DOMAIN t /\ t[i - 1] = s[i]
    BY <1>3, <2>1
  <2> QED
    BY <2>2 DEF Elems
<1> QED
  BY <1>1, <1>4, <1>5, <1>6

(* What is put at the end of a queue and was not in it is in it once.       *)
LEMMA PutBack ==
  ASSUME NEW s \in Seq(Port), NEW p \in Port, Distinct(s), p \notin Elems(s)
  PROVE  /\ Distinct(Append(s, p)) /\ Append(s, p) \in Seq(Port)
         /\ Elems(Append(s, p)) = Elems(s) \union {p}
<1> DEFINE t == Append(s, p)
<1>1. /\ t \in Seq(Port) /\ Len(s) \in Nat /\ DOMAIN s = 1 .. Len(s)
      /\ DOMAIN t = 1 .. (Len(s) + 1) /\ t[Len(s) + 1] = p
      /\ \A i \in DOMAIN s : t[i] = s[i]
  OBVIOUS
<1>2. DOMAIN t = DOMAIN s \union {Len(s) + 1}
  BY <1>1
<1>3. \A i \in DOMAIN t :
        \/ i \in DOMAIN s /\ t[i] = s[i] /\ s[i] # p
        \/ i = Len(s) + 1 /\ t[i] = p
  BY <1>1, <1>2 DEF Elems
<1>4. Distinct(t)
  BY <1>3 DEF Distinct
<1>5. Elems(t) = Elems(s) \union {p}
  BY <1>1, <1>2 DEF Elems
<1> QED
  BY <1>1, <1>4, <1>5

(* An entry put in front of those of its pid, of a port not mapped before.  *)
LEMMA PutEntry ==
  ASSUME NEW m \in [Pid -> Seq(Port)], NEW c \in Pid, NEW p \in Port,
         DistinctIn(m), p \notin ElemsIn(m),
         NEW n, n = [m EXCEPT ![c] = <<p>> \o @]
  PROVE  /\ n \in [Pid -> Seq(Port)] /\ DistinctIn(n)
         /\ ElemsIn(n) = ElemsIn(m) \union {p}
<1>1. /\ m[c] \in Seq(Port) /\ Len(m[c]) \in Nat /\ DOMAIN m[c] = 1 .. Len(m[c])
      /\ n[c] = <<p>> \o m[c] /\ n[c] \in Seq(Port) /\ DOMAIN n[c] = 1 .. (Len(m[c]) + 1)
      /\ \A d \in Pid : d # c => n[d] = m[d]
      /\ n \in [Pid -> Seq(Port)]
  OBVIOUS
<1>2. n[c][1] = p /\ 1 \in DOMAIN n[c]
  BY <1>1
<1>3. \A i \in DOMAIN n[c] : i # 1 => i - 1 \in DOMAIN m[c] /\ n[c][i] = m[c][i - 1]
  BY <1>1
<1>4. \A i \in DOMAIN m[c] : i + 1 \in DOMAIN n[c] /\ n[c][i + 1] = m[c][i]
  BY <1>1
<1>5. \A d \in Pid : \A i \in DOMAIN m[d] : m[d][i] # p
  BY DEF ElemsIn, Elems
<1>6. DistinctIn(n)
  <2>1. SUFFICES ASSUME NEW d \in Pid, NEW e \in Pid, NEW i \in DOMAIN n[d], NEW j \in DOMAIN n[e],
                        n[d][i] = n[e][j]
                 PROVE  d = e /\ i = j
    BY DEF DistinctIn
  <2>2. CASE d # c /\ e # c
    BY <1>1, <2>1, <2>2 DEF DistinctIn
  <2>3. CASE d = c /\ e # c
    <3>1. i # 1
      BY <1>1, <1>2, <1>5, <2>1, <2>3
    <3>2. i - 1 \in DOMAIN m[c] /\ m[c][i - 1] = m[e][j] /\ j \in DOMAIN m[e]
      BY <1>1, <1>3, <2>1, <2>3, <3>1
    <3> QED
      BY <2>3, <3>2 DEF DistinctIn
  <2>4. CASE d # c /\ e = c
    <3>1. j # 1
      BY <1>1, <1>2, <1>5, <2>1, <2>4
    <3>2. j - 1 \in DOMAIN m[c] /\ m[c][j - 1] = m[d][i] /\ i \in DOMAIN m[d]
      BY <1>1, <1>3, <2>1, <2>4, <3>1
    <3> QED
      BY <2>4, <3>2 DEF DistinctIn
  <2>5. CASE d = c /\ e = c
    <3>1. CASE i = 1 \/ j = 1
      BY <1>2, <1>3, <1>5, <2>1, <2>5, <3>1
    <3>2. CASE i # 1 /\ j # 1
      <4>1. i - 1 \in DOMAIN m[c] /\ j - 1 \in DOMAIN m[c] /\ m[c][i - 1] = m[c][j - 1]
        BY <1>3, <2>1, <2>5, <3>2
      <4>2. i - 1 = j - 1
        BY <4>1 DEF DistinctIn
      <4> QED
        BY <1>1, <2>5, <4>2
    <3> QED
      BY <3>1, <3>2
  <2> QED
    BY <2>2, <2>3, <2>4, <2>5
<1>7. Elems(n[c]) = Elems(m[c]) \union {p}
  <2>1. Elems(n[c]) \subseteq Elems(m[c]) \union {p}
    <3>1. SUFFICES ASSUME NEW i \in DOMAIN n[c], i # 1
                   PROVE  n[c][i] \in Elems(m[c])
      BY <1>2 DEF Elems
    <3> QED
      BY <1>3, <3>1 DEF Elems
  <2>2. p \in Elems(n[c])
    BY <1>2 DEF Elems
  <2>3. Elems(m[c]) \subseteq Elems(n[c])
    <3>1. SUFFICES ASSUME NEW i \in DOMAIN m[c]
                   PROVE  m[c][i] \in Elems(n[c])
      BY DEF Elems
    <3> QED
      BY <1>4 DEF Elems
  <2> QED
    BY <2>1, <2>2, <2>3
<1>8. \A d \in Pid : d # c => Elems(n[d]) = Elems(m[d])
  BY <1>1 DEF Elems
<1>9. ElemsIn(n) = ElemsIn(m) \union {p}
  BY <1>7, <1>8 DEF ElemsIn
<1> QED
  BY <1>1, <1>6, <1>7, <1>8, <1>9

(* The newest entry of a pid taken out of the table.                        *)
LEMMA TakeEntry ==
  ASSUME NEW m \in [Pid -> Seq(Port)], NEW c \in Pid, m[c] # <<>>,
         DistinctIn(m),
         NEW n, n = [m EXCEPT ![c] = Tail(@)]
  PROVE  /\ n \in [Pid -> Seq(Port)] /\ DistinctIn(n)
         /\ Head(m[c]) \in Port /\ Head(m[c]) \in ElemsIn(m)
         /\ ElemsIn(n) = ElemsIn(m) \ {Head(m[c])}
         /\ \A d \in Pid : d # c => n[d] = m[d]
<1> DEFINE h == Head(m[c])
<1>1. /\ m[c] \in Seq(Port) /\ n[c] = Tail(m[c]) /\ n[c] \in Seq(Port)
      /\ Len(m[c]) \in Nat \ {0} /\ DOMAIN m[c] = 1 .. Len(m[c]) /\ DOMAIN n[c] = 1 .. (Len(m[c]) - 1)
      /\ h = m[c][1] /\ 1 \in DOMAIN m[c] /\ h \in Port
      /\ \A d \in Pid : d # c => n[d] = m[d]
      /\ n \in [Pid -> Seq(Port)]
  OBVIOUS
<1>2. \A i \in DOMAIN n[c] : i + 1 \in DOMAIN m[c] /\ n[c][i] = m[c][i + 1]
  BY <1>1
<1>3. DistinctIn(n)
  <2>1. SUFFICES ASSUME NEW d \in Pid, NEW e \in Pid, NEW i \in DOMAIN n[d], NEW j \in DOMAIN n[e],
                        n[d][i] = n[e][j]
                 PROVE  d = e /\ i = j
    BY DEF DistinctIn
  <2>2. CASE d # c /\ e # c
    BY <1>1, <2>1, <2>2 DEF DistinctIn
  <2>3. CASE d = c /\ e # c
    BY <1>1, <1>2, <2>1, <2>3 DEF DistinctIn
  <2>4. CASE d # c /\ e = c
    BY <1>1, <1>2, <2>1, <2>4 DEF DistinctIn
  <2>5. CASE d = c /\ e = c
    <3>1. i + 1 \in DOMAIN m[c] /\ j + 1 \in DOMAIN m[c] /\ m[c][i + 1] = m[c][j + 1]
      BY <1>2, <2>1, <2>5
    <3>2. i + 1 = j + 1
      BY <3>1 DEF DistinctIn
    <3> QED
      BY <1>1, <2>5, <3>2
  <2> QED
    BY <2>2, <2>3, <2>4, <2>5
<1>4. Distinct(m[c])
  BY DEF DistinctIn, Distinct
<1>5. Elems(n[c]) = Elems(m[c]) \ {h}
  BY <1>1, <1>4, TakeFront
<1>6. \A d \in Pid : d # c => Elems(n[d]) = Elems(m[d]) /\ h \notin Elems(m[d])
  BY <1>1 DEF Elems, DistinctIn
<1>7. ElemsIn(n) = ElemsIn(m) \ {h}
  BY <1>5, <1>6 DEF ElemsIn
<1>8. h \in ElemsIn(m)
  BY <1>1 DEF ElemsIn, Elems
<1> QED
  BY <1>1, <1>3, <1>7, <1>8

-----------------------------------------------------------------------------
(* NoPortTwice in terms of the two sets.                                    *)
Places ==
  /\ Distinct(ports) /\ DistinctIn(mapping)
  /\ Elems(ports) \intersect ElemsIn(mapping) = {}
  /\ InHand => port \notin Elems(ports) \union ElemsIn(mapping)
  /\ rpc = "push" => rport \notin Elems(ports) \union ElemsIn(mapping)
  /\ InHand /\ rpc = "push" => port # rport

LEMMA PlacesMeaning ==
  ASSUME ports \in Seq(Port), mapping \in [Pid -> Seq(Port)]
  PROVE  Places <=> NoPortTwice
<1>1. \A p : (Free(p) <=> p \in Elems(ports)) /\ (Mapped(p) <=> p \in ElemsIn(mapping))
  BY DEF Free, Mapped, Elems, ElemsIn
<1>2. Elems(ports) \subseteq Port
  BY DEF Elems
<1>3. Elems(ports) \intersect ElemsIn(mapping) = {} <=> \A p \in Port : ~(Free(p) /\ Mapped(p))
  BY <1>1, <1>2
<1> QED
  BY <1>1, <1>3 DEF Places, NoPortTwice, Distinct, DistinctIn

(* What is in somebody's hands is not in the queue, so the queue holds fewer *)
(* ports than there are.                                                     *)
LEMMA RoomLeft ==
  ASSUME TypeOK, Places
  PROVE  RoomForReturns
<1>1. SUFFICES ASSUME NEW p \in Port, p \notin Elems(ports)
               PROVE  Room
  BY DEF RoomForReturns, TypeOK, Places
<1>2. /\ ports \in Seq(Port) /\ Len(ports) \in Nat /\ DOMAIN ports = 1 .. Len(ports)
      /\ Distinct(ports)
  BY DEF TypeOK, Places
<1>3. IsFiniteSet(Port) /\ Len(initial) = Cardinality(Port)
  BY PortAssumption
<1>4. IsFiniteSet(Port \ {p}) /\ Cardinality(Port \ {p}) = Cardinality(Port) - 1
  BY <1>1, <1>3, FS_RemoveElement
<1>5. ports \in Injection(1 .. Len(ports), Port \ {p})
  <2>1. ports \in [1 .. Len(ports) -> Port \ {p}]
    BY <1>1, <1>2 DEF Elems
  <2>2. \A i, j \in 1 .. Len(ports) : ports[i] = ports[j] => i = j
    BY <1>2 DEF Distinct
  <2> QED
    BY <2>1, <2>2 DEF Injection, IsInjective
<1>6. Cardinality(1 .. Len(ports)) <= Cardinality(Port) - 1
  BY <1>4, <1>5, FS_Injection
<1>7. Cardinality(1 .. Len(ports)) = Len(ports)
  BY <1>2, FS_Interval
<1>8. Cardinality(Port) \in Nat
  BY <1>3, FS_CardinalityType
<1> QED
  BY <1>2, <1>3, <1>6, <1>7, <1>8 DEF Room

(* A port that comes back is put at the end of the queue.                   *)
LEMMA ComesBack ==
  ASSUME TypeOK, Places, NEW p \in Port, p \notin Elems(ports), PushPort(p),
         InHand \/ rpc = "push"
  PROVE  /\ Room /\ ports' \in Seq(Port) /\ Distinct(ports')
         /\ Elems(ports') = Elems(ports) \union {p}
<1>1. Room
  BY RoomLeft DEF RoomForReturns
<1>2. ports' = Append(ports, p)
  BY <1>1 DEF PushPort
<1> QED
  BY <1>1, <1>2, PutBack DEF TypeOK, Places

-----------------------------------------------------------------------------
(* The steps.                                                               *)

LEMMA InitInd ==
  ASSUME Init
  PROVE  IndInv
<1>1. TypeOK
  <2>1. ports \in Seq(Port) /\ mapping \in [Pid -> Seq(Port)]
    BY PortAssumption DEF Init
  <2>2. child \in [Pid -> {"none", "running", "zombie"}] /\ told \in [Pid -> Port \union {None}]
    BY DEF Init
  <2> QED
    BY <2>1, <2>2 DEF Init, TypeOK, InHand
<1>2. NoPortTwice
  BY PortAssumption DEF Init, NoPortTwice, InHand, Mapped
<1> QED
  BY <1>1, <1>2 DEF Init, IndInv, Holding, Pending, NoReaperYet

LEMMA TypeStep ==
  ASSUME TypeOK, Places, [Next]_vars
  PROVE  TypeOK'
<1> USE DEF TypeOK, InHand, flags, matchmaker, reaper, kernel
<1>1. CASE Create \/ Loop \/ FormEnd \/ SpawnFails \/ RegisterFails \/ Status \/ Exit \/ Join
  BY <1>1 DEF Create, Loop, FormEnd, SpawnFails, RegisterFails, Status, Exit, Join
<1>2. CASE Borrow
  <2>1. ports' \in Seq(Port) /\ port' \in Port
    BY <1>2, TakeFront DEF Borrow, Places
  <2> QED
    BY <1>2, <2>1 DEF Borrow
<1>3. CASE Spawn \/ SpawnUnheard
  BY <1>3 DEF Spawn, SpawnUnheard, FreshPid
<1>4. CASE Register
  <2>1. mapping' \in [Pid -> Seq(Port)]
    <3>1. mapping[pid] \in Seq(Port) /\ port \in Port
      BY <1>4 DEF Register
    <3>2. <<port>> \o mapping[pid] \in Seq(Port)
      BY <3>1
    <3> QED
      BY <1>4, <3>2 DEF Register
  <2> QED
    BY <1>4, <2>1 DEF Register
<1>5. CASE GiveBack
  <2>1. ports' \in Seq(Port)
    BY <1>5 DEF GiveBack, PushPort
  <2> QED
    BY <1>5, <2>1 DEF GiveBack
<1>6. CASE ReaperStart \/ ReaperTop \/ Signalled \/ TimedOut \/ ReapNone \/ ReaperFails \/ LookupUnknown
  BY <1>6 DEF ReaperStart, ReaperTop, Signalled, TimedOut, ReapNone, ReaperFails, ReaperEnds,
       LookupUnknown
<1>7. CASE \E p \in Pid : Reap(p)
  BY <1>7 DEF Reap
<1>8. CASE Lookup
  <2>1. mapping' \in [Pid -> Seq(Port)] /\ rport' \in Port
    BY <1>8, TakeEntry DEF Lookup, Places
  <2> QED
    BY <1>8, <2>1 DEF Lookup
<1>9. CASE Push
  <2>1. ports' \in Seq(Port)
    BY <1>9 DEF Push, PushPort
  <2> QED
    BY <1>9, <2>1 DEF Push, ReaperEnds
<1>10. CASE ChildExits \/ Shutdown
  BY <1>10 DEF ChildExits, Shutdown
<1>11. CASE UNCHANGED vars
  BY <1>11 DEF vars
<1> QED
  BY <1>1, <1>2, <1>3, <1>4, <1>5, <1>6, <1>7, <1>8, <1>9, <1>10, <1>11
     DEF Next, Matchmaker, Reaper, Ended

(* Each step leaves the ports where they are or moves one of them.          *)
LEMMA PlacesStep ==
  ASSUME TypeOK, Places, [Next]_vars
  PROVE  Places'
<1> USE DEF Places
<1>0. ports \in Seq(Port) /\ mapping \in [Pid -> Seq(Port)]
  BY DEF TypeOK
<1>1. CASE /\ UNCHANGED <<ports, mapping, port, rport>>
           /\ InHand' => InHand
           /\ rpc' = "push" => rpc = "push"
  BY <1>1
<1>2. CASE Borrow
  <2>1. /\ Distinct(ports') /\ port' = Head(ports) /\ Elems(ports') = Elems(ports) \ {Head(ports)}
        /\ mapping' = mapping /\ rpc' = rpc /\ rport' = rport
    BY <1>0, <1>2, TakeFront DEF Borrow, reaper
  <2>2. Head(ports) \in Elems(ports)
    BY <1>0, <1>2 DEF Borrow, Elems
  <2> QED
    BY <2>1, <2>2
<1>3. CASE Register
  <2>1. port \in Port /\ pid \in Pid /\ InHand
    BY <1>3 DEF Register, TypeOK, InHand
  <2>2. DistinctIn(mapping') /\ ElemsIn(mapping') = ElemsIn(mapping) \union {port}
    BY <1>0, <1>3, <2>1, PutEntry DEF Register
  <2>3. ports' = ports /\ ~InHand' /\ rpc' = rpc /\ rport' = rport
    BY <1>3 DEF Register, InHand, reaper
  <2> QED
    BY <2>1, <2>2, <2>3
<1>4. CASE GiveBack
  <2>1. port \in Port /\ InHand
    BY <1>4 DEF GiveBack, TypeOK, InHand
  <2>2. Distinct(ports') /\ Elems(ports') = Elems(ports) \union {port}
    BY <1>4, <2>1, ComesBack DEF GiveBack
  <2>3. mapping' = mapping /\ ~InHand' /\ rpc' = rpc /\ rport' = rport
    BY <1>4 DEF GiveBack, InHand, reaper
  <2> QED
    BY <2>1, <2>2, <2>3
<1>5. CASE Lookup
  <2>1. /\ DistinctIn(mapping') /\ rport' \in ElemsIn(mapping)
        /\ ElemsIn(mapping') = ElemsIn(mapping) \ {rport'}
    BY <1>0, <1>5, TakeEntry DEF Lookup, TypeOK
  <2>2. ports' = ports /\ mpc' = mpc /\ port' = port
    BY <1>5 DEF Lookup, matchmaker
  <2> QED
    BY <2>1, <2>2 DEF InHand
<1>6. CASE Push
  <2>1. rport \in Port /\ rpc = "push"
    BY <1>6 DEF Push, TypeOK
  <2>2. Distinct(ports') /\ Elems(ports') = Elems(ports) \union {rport}
    BY <1>6, <2>1, ComesBack DEF Push
  <2>3. mapping' = mapping /\ mpc' = mpc /\ port' = port /\ rpc' # "push"
    BY <1>6 DEF Push, ReaperEnds, matchmaker
  <2> QED
    BY <2>1, <2>2, <2>3 DEF InHand
<1>7. CASE Create \/ Loop \/ FormEnd \/ Spawn \/ SpawnUnheard \/ SpawnFails \/ RegisterFails
           \/ Status \/ Exit \/ Join
  BY <1>1, <1>7 DEF Create, Loop, FormEnd, Spawn, SpawnUnheard, SpawnFails, RegisterFails,
       Status, Exit, Join, InHand, reaper
<1>8. CASE \/ ReaperStart \/ ReaperTop \/ Signalled \/ TimedOut \/ ReapNone \/ ReaperFails
           \/ LookupUnknown \/ \E p \in Pid : Reap(p)
  BY <1>1, <1>8 DEF ReaperStart, ReaperTop, Signalled, TimedOut, ReapNone, ReaperFails,
       ReaperEnds, LookupUnknown, Reap, InHand, matchmaker
<1>9. CASE ChildExits \/ Shutdown \/ UNCHANGED vars
  BY <1>1, <1>9 DEF ChildExits, Shutdown, vars, InHand, matchmaker, reaper
<1> QED
  BY <1>2, <1>3, <1>4, <1>5, <1>6, <1>7, <1>8, <1>9 DEF Next, Matchmaker, Reaper, Ended

(* A registered game keeps its entry until it is reaped: entries are taken   *)
(* only of a pid that has been.                                              *)
LEMMA HoldingStep ==
  ASSUME IndInv, [Next]_vars
  PROVE  Holding'
<1> USE DEF Holding, kernel, flags, matchmaker, reaper
<1>0. TypeOK /\ Holding /\ Places
  BY PlacesMeaning DEF IndInv, TypeOK
<1>1. CASE /\ UNCHANGED <<registered, child, told, mapping>>
           /\ mpc' = "spawned" => mpc = "spawned" /\ UNCHANGED <<pid, port>>
           /\ rpc' = "lookup" => rpc = "lookup" /\ rpid' = rpid
  BY <1>0, <1>1
<1>2. CASE Spawn
  <2>1. PICK p \in FreshPid : /\ child' = [child EXCEPT ![p] = "running"]
                              /\ pid' = p /\ told' = [told EXCEPT ![p] = port]
    BY <1>2 DEF Spawn
  <2>2. /\ p \in Pid /\ child[p] = "none" /\ ~(rpc = "lookup" /\ rpid = p)
        /\ p \notin registered
    BY <1>0, <2>1 DEF FreshPid
  <2>3. /\ registered' = registered /\ mapping' = mapping /\ port' = port
        /\ rpc' = rpc /\ rpid' = rpid
    BY <1>2 DEF Spawn
  <2> QED
    BY <1>0, <2>1, <2>2, <2>3 DEF TypeOK
<1>3. CASE SpawnUnheard
  <2>1. PICK p \in FreshPid : /\ child' = [child EXCEPT ![p] = "running"]
                              /\ told' = [told EXCEPT ![p] = None]
    BY <1>3 DEF SpawnUnheard
  <2>2. /\ p \in Pid /\ child[p] = "none" /\ ~(rpc = "lookup" /\ rpid = p)
        /\ p \notin registered
    BY <1>0, <2>1 DEF FreshPid
  <2>3. /\ registered' = registered /\ mapping' = mapping /\ mpc' # "spawned"
        /\ rpc' = rpc /\ rpid' = rpid
    BY <1>3 DEF SpawnUnheard
  <2> QED
    BY <1>0, <2>1, <2>2, <2>3 DEF TypeOK
<1>4. CASE Register
  <2>1. pid \in Pid /\ port \in Port /\ pid \notin registered
    BY <1>0, <1>4 DEF Register, TypeOK, InHand
  <2>2. port \in Elems(mapping'[pid]) /\ \A d \in Pid \ {pid} : mapping'[d] = mapping[d]
    <3>1. mapping \in [Pid -> Seq(Port)] /\ mapping' = [mapping EXCEPT ![pid] = <<port>> \o @]
      BY <1>0, <1>4 DEF Register, TypeOK
    <3>2. mapping[pid] \in Seq(Port) /\ mapping'[pid] = <<port>> \o mapping[pid]
      BY <2>1, <3>1
    <3>3. 1 \in DOMAIN mapping'[pid] /\ mapping'[pid][1] = port
      BY <2>1, <3>2
    <3> QED
      BY <3>1, <3>3 DEF Elems
  <2>3. /\ child' = child /\ told' = told /\ rpc' = rpc /\ rpid' = rpid /\ mpc' # "spawned"
        /\ registered' = IF child[pid] = "none" THEN registered ELSE registered \union {pid}
    BY <1>4 DEF Register
  <2>4. \A c \in registered' : child[c] # "none" /\ told[c] \in Port /\ told[c] \in Elems(mapping'[c])
    <3>1. SUFFICES ASSUME NEW c \in registered'
                   PROVE  child[c] # "none" /\ told[c] \in Port /\ told[c] \in Elems(mapping'[c])
      OBVIOUS
    <3>2. CASE c \in registered
      <4>1. c \in Pid \ {pid} /\ told[c] \in Elems(mapping[c])
        BY <1>0, <2>1, <3>2 DEF TypeOK, Elems
      <4> QED
        BY <1>0, <2>2, <3>2, <4>1
    <3>3. CASE c \notin registered
      <4>1. c = pid /\ child[pid] # "none" /\ told[pid] = port
        BY <1>0, <1>4, <2>3, <3>3 DEF Register
      <4> QED
        BY <2>1, <2>2, <4>1
    <3> QED
      BY <3>2, <3>3
  <2> QED
    BY <1>0, <2>3, <2>4 DEF Elems
<1>5. CASE \E p \in Pid : Reap(p)
  <2>1. PICK p \in Pid : Reap(p)
    BY <1>5
  <2>2. /\ child' = [child EXCEPT ![p] = "none"] /\ told' = [told EXCEPT ![p] = None]
        /\ registered' = registered \ {p} /\ rpid' = p
        /\ UNCHANGED <<mapping, mpc, pid, port>>
    BY <2>1 DEF Reap
  <2> QED
    BY <1>0, <2>2 DEF TypeOK
<1>6. CASE Lookup
  <2>1. rpid \in Pid /\ rpid \notin registered
    BY <1>0, <1>6 DEF Lookup, TypeOK
  <2>2. \A d \in Pid : d # rpid => mapping'[d] = mapping[d]
    BY <1>0, <1>6, <2>1, TakeEntry DEF Lookup, TypeOK, Places
  <2>3. /\ UNCHANGED <<registered, child, told, mpc, pid, port>> /\ rpc' # "lookup"
        /\ registered \subseteq Pid
    BY <1>0, <1>6 DEF Lookup, TypeOK
  <2> QED
    BY <1>0, <2>1, <2>2, <2>3
<1>7. CASE ChildExits
  <2>1. PICK p \in Pid : child[p] = "running" /\ child' = [child EXCEPT ![p] = "zombie"]
    BY <1>7 DEF ChildExits
  <2>2. UNCHANGED <<registered, told, mapping, mpc, pid, port, rpc, rpid>>
    BY <1>7 DEF ChildExits
  <2>3. \A c \in Pid : child[c] = "none" <=> child'[c] = "none"
    BY <1>0, <2>1 DEF TypeOK
  <2>4. registered \subseteq Pid /\ (mpc = "spawned" => pid \in Pid) /\ (rpc = "lookup" => rpid \in Pid)
    BY <1>0 DEF TypeOK
  <2> QED
    BY <1>0, <2>2, <2>3, <2>4
<1>8. CASE Create \/ Loop \/ Borrow \/ FormEnd \/ SpawnFails \/ RegisterFails \/ GiveBack
           \/ Status \/ Exit \/ Join
  BY <1>1, <1>8 DEF Create, Loop, Borrow, FormEnd, SpawnFails, RegisterFails, GiveBack,
       Status, Exit, Join
<1>9. CASE \/ ReaperStart \/ ReaperTop \/ Signalled \/ TimedOut \/ ReapNone \/ ReaperFails
           \/ LookupUnknown \/ Push
  BY <1>1, <1>9 DEF ReaperStart, ReaperTop, Signalled, TimedOut, ReapNone, ReaperFails,
       ReaperEnds, LookupUnknown, Push
<1>10. CASE Shutdown \/ UNCHANGED vars
  BY <1>1, <1>10 DEF Shutdown, vars
<1> QED
  BY <1>2, <1>3, <1>4, <1>5, <1>6, <1>7, <1>8, <1>9, <1>10 DEF Next, Matchmaker, Reaper, Ended

(* The reaper is started by the step that leaves the start.                  *)
LEMMA NoReaperYetStep ==
  ASSUME NoReaperYet, [Next]_vars
  PROVE  NoReaperYet'
<1> USE DEF NoReaperYet, kernel, flags, matchmaker, reaper
<1>1. CASE Matchmaker
  BY <1>1 DEF Matchmaker, Create, Loop, Borrow, FormEnd, Spawn, SpawnUnheard, SpawnFails,
       Register, RegisterFails, GiveBack, Status, Exit, Join
<1>2. CASE Reaper \/ ReaperFails
  <2>1. rpc # "none" /\ mpc' = mpc
    BY <1>2 DEF Reaper, ReaperStart, ReaperTop, Signalled, TimedOut, Reap, ReapNone,
         ReaperFails, Lookup, LookupUnknown, Push
  <2> QED
    BY <2>1
<1>3. CASE ChildExits \/ Shutdown \/ UNCHANGED vars
  BY <1>3 DEF ChildExits, Shutdown, vars
<1> QED
  BY <1>1, <1>2, <1>3 DEF Next, Ended

(* Only Signalled takes the signal, and then the reaper looks; it stops      *)
(* looking when nothing has exited.                                          *)
LEMMA PendingStep ==
  ASSUME IndInv, [Next]_vars
  PROVE  Pending'
<1> USE DEF Pending, kernel, flags, matchmaker, reaper
<1>0. TypeOK /\ Pending
  BY DEF IndInv
<1>1. CASE Create
  <2>1. rpc = "none" /\ UNCHANGED <<child, sigchld>>
    BY <1>1 DEF Create, IndInv, NoReaperYet
  <2> QED
    BY <1>0, <2>1
<1>2. CASE Loop \/ Borrow \/ FormEnd \/ SpawnFails \/ Register \/ RegisterFails \/ GiveBack
           \/ Status \/ Exit \/ Join
  BY <1>0, <1>2 DEF Loop, Borrow, FormEnd, SpawnFails, Register, RegisterFails, GiveBack,
       Status, Exit, Join
<1>3. CASE Spawn \/ SpawnUnheard
  <2>1. PICK p \in Pid : child' = [child EXCEPT ![p] = "running"]
    BY <1>3 DEF Spawn, SpawnUnheard, FreshPid
  <2>2. \A c \in Pid : child'[c] = "zombie" => child[c] = "zombie"
    BY <1>0, <2>1 DEF TypeOK
  <2>3. sigchld' = sigchld /\ rpc' = rpc
    BY <1>3 DEF Spawn, SpawnUnheard
  <2> QED
    BY <1>0, <2>2, <2>3
<1>4. CASE ChildExits
  BY <1>4 DEF ChildExits
<1>5. CASE Signalled \/ Lookup \/ LookupUnknown \/ Push \/ ReaperFails \/ \E p \in Pid : Reap(p)
  BY <1>5 DEF Signalled, Lookup, LookupUnknown, Push, ReaperFails, ReaperEnds, Reap
<1>6. CASE ReapNone
  BY <1>6 DEF ReapNone
<1>7. CASE ReaperStart \/ ReaperTop \/ TimedOut
  BY <1>0, <1>7 DEF ReaperStart, ReaperTop, TimedOut, ReaperEnds
<1>8. CASE Shutdown \/ UNCHANGED vars
  BY <1>0, <1>8 DEF Shutdown, vars
<1> QED
  BY <1>1, <1>2, <1>3, <1>4, <1>5, <1>6, <1>7, <1>8 DEF Next, Matchmaker, Reaper, Ended

-----------------------------------------------------------------------------
(* The places of the ports, what registered games hold and the pending      *)
(* signal: true in every state, for every pool and every set of pids.       *)
THEOREM Inductive == Spec => []IndInv
<1>1. Init => IndInv
  BY InitInd
<1>2. IndInv /\ [Next]_vars => IndInv'
  <2>1. SUFFICES ASSUME IndInv, [Next]_vars PROVE IndInv'
    OBVIOUS
  <2>2. TypeOK /\ Places
    BY <2>1, PlacesMeaning DEF IndInv, TypeOK
  <2>3. TypeOK' /\ Places'
    BY <2>1, <2>2, TypeStep, PlacesStep
  <2>4. NoPortTwice'
    <3>1. ports' \in Seq(Port) /\ mapping' \in [Pid -> Seq(Port)]
      BY <2>3 DEF TypeOK
    <3>2. Places' <=> NoPortTwice'
      <4>1. \A p : (Free(p)' <=> p \in Elems(ports')) /\ (Mapped(p)' <=> p \in ElemsIn(mapping'))
        BY DEF Free, Mapped, Elems, ElemsIn
      <4>2. Elems(ports') \subseteq Port
        BY <3>1 DEF Elems
      <4>3. Elems(ports') \intersect ElemsIn(mapping') = {}
              <=> \A p \in Port : ~(Free(p)' /\ Mapped(p)')
        BY <4>1, <4>2
      <4> QED
        BY <4>1, <4>3 DEF Places, NoPortTwice, Distinct, DistinctIn
    <3> QED
      BY <2>3, <3>2
  <2>5. Holding' /\ Pending' /\ NoReaperYet'
    BY <2>1, HoldingStep, PendingStep, NoReaperYetStep DEF IndInv
  <2> QED
    BY <2>3, <2>4, <2>5 DEF IndInv
<1> QED
  BY <1>1, <1>2, PTL DEF Spec

(* Type correctness.                                                        *)
THEOREM TypeCorrect == Spec => []TypeOK
<1>1. IndInv => TypeOK
  BY DEF IndInv
<1> QED
  BY <1>1, Inductive, PTL

(* A port is at one place, once: it is never handed out twice.              *)
THEOREM PortsDistinct == Spec => []NoPortTwice
<1>1. IndInv => NoPortTwice
  BY DEF IndInv
<1> QED
  BY <1>1, Inductive, PTL

(* The queue has room for every port that comes back, so neither the reaper *)
(* nor pm_return_port fails to put it there.                                *)
THEOREM RoomAlways == Spec => []RoomForReturns
<1>1. IndInv => RoomForReturns
  <2>1. SUFFICES ASSUME IndInv PROVE RoomForReturns
    OBVIOUS
  <2>2. TypeOK /\ Places
    BY <2>1, PlacesMeaning DEF IndInv, TypeOK
  <2> QED
    BY <2>2, RoomLeft
<1> QED
  BY <1>1, Inductive, PTL

(* Two games that players were sent to have different ports: each port is   *)
(* in the entry of its own game.                                            *)
THEOREM GamesApart == Spec => []GamesOnDistinctPorts
<1>1. IndInv => GamesOnDistinctPorts
  <2>1. SUFFICES ASSUME IndInv, NEW c \in registered, NEW d \in registered, c # d
                 PROVE  told[c] # told[d]
    BY DEF GamesOnDistinctPorts
  <2>2. c \in Pid /\ d \in Pid
    BY <2>1 DEF IndInv, TypeOK
  <2>3. PICK i \in DOMAIN mapping[c] : told[c] = mapping[c][i]
    BY <2>1 DEF IndInv, Holding
  <2>4. PICK j \in DOMAIN mapping[d] : told[d] = mapping[d][j]
    BY <2>1 DEF IndInv, Holding
  <2> QED
    BY <2>1, <2>2, <2>3, <2>4 DEF IndInv, NoPortTwice
<1> QED
  BY <1>1, Inductive, PTL

(* The reaper never goes to wait with an exited child and no signal.        *)
THEOREM NobodyForgotten == Spec => []NoForgottenZombie
<1>1. IndInv => NoForgottenZombie
  BY DEF IndInv, Pending, NoForgottenZombie
<1> QED
  BY <1>1, Inductive, PTL

-----------------------------------------------------------------------------
(* The pool.                                                                *)

(* The free ports are those of the queue and the one in the matchmaker's     *)
(* hands.                                                                   *)
LEMMA FreePortsMeaning ==
  ASSUME TypeOK
  PROVE  FreePorts = Elems(ports) \union (IF InHand THEN {port} ELSE {})
<1>1. Elems(ports) \subseteq Port /\ (InHand => port \in Port)
  BY DEF TypeOK, Elems
<1>2. \A p : Free(p) <=> p \in Elems(ports)
  BY DEF Free, Elems
<1> QED
  BY <1>1, <1>2 DEF FreePorts

(* Each step is one of the pool's or moves a port where the pool does not    *)
(* look.                                                                    *)
LEMMA PoolStep ==
  ASSUME IndInv, [Next]_vars
  PROVE  Pool!Next \/ UNCHANGED <<FreePorts, GamePorts>>
<1> USE DEF flags, matchmaker, reaper, kernel
<1>0. TypeOK /\ Holding /\ Places
  BY PlacesMeaning DEF IndInv, TypeOK
<1>1. TypeOK'
  BY <1>0, TypeStep
<1>2. /\ FreePorts = Elems(ports) \union (IF InHand THEN {port} ELSE {})
      /\ FreePorts' = Elems(ports') \union (IF InHand' THEN {port'} ELSE {})
  <2>1. Elems(ports') \subseteq Port /\ (InHand' => port' \in Port)
    BY <1>1 DEF TypeOK, Elems
  <2>2. \A p : Free(p)' <=> p \in Elems(ports')
    BY DEF Free, Elems
  <2>3. FreePorts' = Elems(ports') \union (IF InHand' THEN {port'} ELSE {})
    BY <2>1, <2>2 DEF FreePorts
  <2> QED
    BY <1>0, <2>3, FreePortsMeaning
<1> DEFINE GP(reg, at) == [c \in Pid |-> IF c \in reg THEN at[c] ELSE None]
<1>3. GamePorts = GP(registered, told) /\ GamePorts' = GP(registered', told')
  BY DEF GamePorts
<1>4. CASE UNCHANGED <<ports, port, InHand, registered, told>>
  BY <1>2, <1>3, <1>4
<1>5. CASE Borrow
  <2>1. /\ ports \in Seq(Port) /\ ports # <<>> /\ Distinct(ports)
        /\ ports' = Tail(ports) /\ port' = Head(ports) /\ ~InHand /\ InHand'
        /\ UNCHANGED <<registered, told>>
    BY <1>0, <1>5 DEF Borrow, TypeOK, Places, InHand
  <2>2. Elems(ports') = Elems(ports) \ {port'} /\ port' \in Elems(ports)
    BY <2>1, TakeFront DEF Elems
  <2> QED
    BY <1>2, <1>3, <2>1, <2>2
<1>6. CASE Spawn \/ SpawnUnheard
  <2>1. PICK p \in FreshPid : \E x : told' = [told EXCEPT ![p] = x]
    BY <1>6 DEF Spawn, SpawnUnheard
  <2>2. p \in Pid /\ p \notin registered /\ told \in [Pid -> Port \union {None}]
    BY <1>0, <2>1 DEF FreshPid, Holding, TypeOK
  <2>3. UNCHANGED <<ports, port, InHand, registered>>
    BY <1>6 DEF Spawn, SpawnUnheard, InHand
  <2>4. \A c \in registered : told'[c] = told[c]
    BY <1>0, <2>1, <2>2 DEF TypeOK
  <2> QED
    BY <1>2, <1>3, <2>3, <2>4
<1>7. CASE Register
  <2>1. /\ pid \in Pid /\ port \in Port /\ pid \notin registered
        /\ child[pid] # "none" => told[pid] = port
        /\ InHand /\ ~InHand' /\ ports' = ports /\ told' = told
        /\ registered' = IF child[pid] = "none" THEN registered ELSE registered \union {pid}
        /\ port \notin Elems(ports)
    BY <1>0, <1>7 DEF Register, TypeOK, Holding, Places, InHand
  <2>2. port \in FreePorts /\ FreePorts' = FreePorts \ {port}
    BY <1>2, <2>1
  <2>3. CASE child[pid] = "none"
    <3>1. GamePorts' = GamePorts
      BY <1>3, <2>1, <2>3
    <3>2. Pool!Lose(port)
      BY <2>2, <3>1 DEF Pool!Lose
    <3> QED
      BY <2>1, <3>2 DEF Pool!Next
  <2>4. CASE child[pid] # "none"
    <3>1. GamePorts[pid] = None
      BY <1>3, <2>1
    <3>2. GamePorts' = [GamePorts EXCEPT ![pid] = port]
      BY <1>3, <2>1, <2>4
    <3>3. Pool!Assign(pid, port)
      BY <2>2, <3>1, <3>2 DEF Pool!Assign
    <3> QED
      BY <2>1, <3>3 DEF Pool!Next
  <2> QED
    BY <2>3, <2>4
<1>8. CASE GiveBack
  <2>1. /\ port \in Port /\ InHand /\ ~InHand' /\ PushPort(port)
        /\ port \notin Elems(ports) /\ UNCHANGED <<registered, told>>
    BY <1>0, <1>8 DEF GiveBack, TypeOK, Places, InHand
  <2>2. Elems(ports') = Elems(ports) \union {port}
    BY <1>0, <2>1, ComesBack
  <2> QED
    BY <1>2, <1>3, <2>1, <2>2
<1>9. ASSUME NEW p \in Pid, Reap(p)
      PROVE  Pool!Next \/ UNCHANGED <<FreePorts, GamePorts>>
  <2>1. /\ UNCHANGED <<ports, port, InHand>> /\ told' = [told EXCEPT ![p] = None]
        /\ registered' = registered \ {p} /\ told \in [Pid -> Port \union {None}]
        /\ None \notin Port
    BY <1>0, <1>9, PortAssumption DEF Reap, TypeOK, InHand
  <2>2. FreePorts' = FreePorts
    BY <1>2, <2>1
  <2>3. GamePorts' = [GamePorts EXCEPT ![p] = None]
    BY <1>3, <2>1
  <2>4. CASE p \notin registered
    BY <1>3, <2>1, <2>2, <2>4
  <2>5. CASE p \in registered
    <3>1. GamePorts[p] # None
      BY <1>0, <1>3, <2>1, <2>5 DEF Holding
    <3>2. Pool!Over(p)
      BY <2>2, <2>3, <3>1 DEF Pool!Over
    <3> QED
      BY <3>2 DEF Pool!Next
  <2> QED
    BY <2>4, <2>5
<1>10. CASE Push
  <2>1. /\ rport \in Port /\ rpc = "push" /\ PushPort(rport)
        /\ rport \notin Elems(ports) \union ElemsIn(mapping) /\ (InHand => port # rport)
        /\ UNCHANGED <<port, InHand, registered, told>>
    BY <1>0, <1>10 DEF Push, TypeOK, Places, InHand
  <2>2. Elems(ports') = Elems(ports) \union {rport}
    BY <1>0, <2>1, ComesBack
  <2>3. rport \notin FreePorts /\ FreePorts' = FreePorts \union {rport}
    BY <1>2, <2>1, <2>2
  <2>4. ASSUME NEW c \in Pid
        PROVE  GamePorts[c] # rport
    <3>1. CASE c \in registered
      <4>1. told[c] \in ElemsIn(mapping)
        BY <1>0, <3>1 DEF Holding, ElemsIn, Elems
      <4> QED
        BY <1>3, <2>1, <3>1, <4>1
    <3>2. CASE c \notin registered
      BY <1>3, <2>1, <3>2, PortAssumption
    <3> QED
      BY <3>1, <3>2
  <2>5. GamePorts' = GamePorts
    BY <1>3, <2>1
  <2>6. Pool!Return(rport)
    BY <2>3, <2>4, <2>5 DEF Pool!Return
  <2> QED
    BY <2>1, <2>6 DEF Pool!Next
<1>11. CASE Create \/ Loop \/ FormEnd \/ SpawnFails \/ RegisterFails \/ Status \/ Exit \/ Join
  BY <1>4, <1>11 DEF Create, Loop, FormEnd, SpawnFails, RegisterFails, Status, Exit, Join, InHand
<1>12. CASE \/ ReaperStart \/ ReaperTop \/ Signalled \/ TimedOut \/ ReapNone \/ ReaperFails
            \/ Lookup \/ LookupUnknown
  BY <1>4, <1>12 DEF ReaperStart, ReaperTop, Signalled, TimedOut, ReapNone, ReaperFails,
       ReaperEnds, Lookup, LookupUnknown, InHand
<1>13. CASE ChildExits \/ Shutdown \/ UNCHANGED vars
  BY <1>4, <1>13 DEF ChildExits, Shutdown, vars, InHand
<1> QED
  BY <1>5, <1>6, <1>7, <1>8, <1>9, <1>10, <1>11, <1>12, <1>13
     DEF Next, Matchmaker, Reaper, Ended

(* Whatever the threads, forks and exits do, the port manager is a pool that  *)
(* gives a port to one game at a time and takes it back when that is over.   *)
THEOREM PoolImplemented == Spec => ImplementsPool
<1>1. Init => Pool!Init
  <2>1. SUFFICES ASSUME Init
                 PROVE  Pool!Init
    OBVIOUS
  <2>2. GamePorts = [c \in Pid |-> None]
    BY <2>1 DEF Init, GamePorts
  <2>3. FreePorts = Port
    <3>1. ASSUME NEW p \in Port
          PROVE  \E i \in DOMAIN initial : initial[i] = p
      <4>1. initial \in Injection(1 .. Len(initial), Port)
        <5>1. initial \in [1 .. Len(initial) -> Port] /\ DOMAIN initial = 1 .. Len(initial)
          BY PortAssumption
        <5> QED
          BY <5>1, PortAssumption DEF Injection, IsInjective
      <4>2. IsFiniteSet(1 .. Len(initial)) /\ Cardinality(1 .. Len(initial)) = Cardinality(Port)
        BY PortAssumption, FS_Interval
      <4>3. initial \in Surjection(1 .. Len(initial), Port)
        BY <4>1, <4>2, PortAssumption, FS_Injection
      <4> QED
        BY <4>3, PortAssumption DEF Surjection
    <3> QED
      BY <2>1, <3>1 DEF Init, FreePorts, Free, InHand
  <2> QED
    BY <2>2, <2>3 DEF Pool!Init
<1>2. IndInv /\ [Next]_vars => [Pool!Next]_Pool!pool
  BY PoolStep DEF Pool!pool
<1> QED
  BY <1>1, <1>2, Inductive, PTL DEF Spec, ImplementsPool, Pool!Spec

=============================================================================
