------------------------- MODULE SubscriberListProofs -------------------------
(***************************************************************************)
(* Proofs about SubscriberList, for any dispatchers and any subscribers.   *)
(***************************************************************************)
EXTENDS SubscriberList, FiniteSetTheorems, SequenceTheorems, TLAPS

Reading == {"load", "read"}

LEMMA StepCases ==
  ASSUME [Next]_vars
  PROVE  \/ \E o \in Objects : New(o)
         \/ \E o \in Objects : AddSubscriber(o)
         \/ \E o \in Objects : Remove(o)
         \/ \E o \in Objects : Delete(o)
         \/ \E d \in Dispatchers : Start(d)
         \/ \E d \in Dispatchers : Count(d)
         \/ \E d \in Dispatchers : Load(d)
         \/ \E d \in Dispatchers : Read(d)
         \/ \E d \in Dispatchers : Call(d)
         \/ UNCHANGED vars
  BY DEF Next

-----------------------------------------------------------------------------
(* What the two changes of the list do to slots, size and Listed.           *)

LEMMA AddShape ==
  ASSUME TypeOK, NEW o \in Objects, AddSubscriber(o)
  PROVE  /\ object[o] = "new" /\ object' = [object EXCEPT ![o] = "listed"]
         /\ size' = size + 1
         /\ slots' \in Seq(Objects)
         /\ Len(slots') \in Nat /\ size + 1 <= Len(slots') /\ Len(slots) <= Len(slots')
         /\ slots'[size + 1] = o
         /\ \A j \in 1..Len(slots) : j # size + 1 => slots'[j] = slots[j]
         /\ capacity' \in Nat /\ Len(slots') <= capacity'
         /\ buffer' \in {buffer, buffer + 1}
         /\ o \notin Listed /\ Listed' = Listed \cup {o}
         /\ Watch(o)
         /\ UNCHANGED <<pc, index, base, pointer, wild, called, stayed, removals>>
<1>. DEFINE n == Len(slots)
<1>1. /\ n \in Nat /\ size \in 0..n /\ capacity \in Nat /\ n <= capacity /\ buffer \in Nat
      /\ slots \in Seq(Objects) /\ slots \in [1..n -> Objects]
  BY LenProperties DEF TypeOK
<1>2. /\ object[o] = "new" /\ object' = [object EXCEPT ![o] = "listed"]
      /\ size' = size + 1
      /\ \/ size < capacity /\ capacity' = capacity /\ buffer' = buffer
         \/ size = capacity /\ capacity' \in size + 1 .. 2 * size /\ buffer' = buffer + 1
      /\ slots' = IF size < n THEN [slots EXCEPT ![size + 1] = o] ELSE Append(slots, o)
      /\ Watch(o)
      /\ UNCHANGED <<pc, index, base, pointer, wild, called, stayed, removals>>
  BY DEF AddSubscriber, Grow, loopVars
<1>3. /\ slots' \in Seq(Objects)
      /\ Len(slots') = IF size < n THEN n ELSE n + 1
      /\ slots'[size + 1] = o
      /\ \A j \in 1..n : j # size + 1 => slots'[j] = slots[j]
  <2>1. CASE size < n
    <3>1. size + 1 \in 1..n
      BY <1>1, <2>1
    <3>. QED
      BY <1>1, <1>2, <2>1, <3>1, ExceptSeq
  <2>2. CASE ~(size < n)
    <3>0. slots' = Append(slots, o)
      BY <1>2, <2>2
    <3>1. size = n
      <4>1. n \in Nat /\ size \in 0..n
        BY <1>1
      <4>. HIDE DEF n
      <4>. QED
        BY <2>2, <4>1
    <3>2. /\ Append(slots, o) \in Seq(Objects) /\ Len(Append(slots, o)) = n + 1
          /\ \A i \in 1..n : Append(slots, o)[i] = slots[i]
          /\ Append(slots, o)[n + 1] = o
      BY <1>1, AppendProperties
    <3>. QED
      BY <1>1, <2>2, <3>0, <3>1, <3>2
  <2>. QED
    BY <2>1, <2>2
<1>4. /\ Len(slots') \in Nat /\ size + 1 <= Len(slots') /\ n <= Len(slots')
      /\ capacity' \in Nat /\ Len(slots') <= capacity'
  BY <1>1, <1>2, <1>3
<1>5. o \notin Listed
  BY <1>2 DEF TypeOK
<1>6. Listed' = Listed \cup {o}
  <2>1. \A j \in 1..size : slots'[j] = slots[j]
    BY <1>1, <1>3
  <2>2. 1..size' = (1..size) \cup {size + 1}
    BY <1>1, <1>2
  <2>3. Listed' = {slots'[k] : k \in 1..size'}
    BY DEF Listed
  <2>. QED
    BY <1>3, <2>1, <2>2, <2>3 DEF Listed
<1>. QED
  BY <1>1, <1>2, <1>3, <1>4, <1>5, <1>6

LEMMA RemoveShape ==
  ASSUME TypeOK, NEW o \in Objects, Remove(o)
  PROVE  \E k \in 1..size :
         /\ slots[k] = o
         /\ object[o] = "listed" /\ object' = [object EXCEPT ![o] = "removed"]
         /\ size' = size - 1
         /\ slots' \in Seq(Objects) /\ Len(slots') = Len(slots)
         /\ \A j \in 1..Len(slots) : slots'[j] = IF k <= j /\ j < size THEN slots[j + 1] ELSE slots[j]
         /\ o \in Listed /\ Listed' = Listed \ {o}
         /\ stayed' = [d \in Dispatchers |-> stayed[d] \ {o}]
         /\ removals' = [d \in Dispatchers |-> removals[d] + 1]
         /\ UNCHANGED <<pc, index, base, pointer, wild, called, window, capacity, buffer>>
<1>. DEFINE n == Len(slots)
<1>1. /\ n \in Nat /\ size \in 0..n
      /\ slots \in Seq(Objects) /\ slots \in [1..n -> Objects]
  BY LenProperties DEF TypeOK
<1>2. PICK k \in 1..size :
        /\ slots[k] = o
        /\ slots' = [j \in 1..n |-> IF k <= j /\ j < size THEN slots[j + 1] ELSE slots[j]]
        /\ object[o] = "listed" /\ object' = [object EXCEPT ![o] = "removed"]
        /\ size' = size - 1
        /\ stayed' = [d \in Dispatchers |-> stayed[d] \ {o}]
        /\ removals' = [d \in Dispatchers |-> removals[d] + 1]
        /\ UNCHANGED <<pc, index, base, pointer, wild, called, window, capacity, buffer>>
  BY DEF Remove, Shrink, loopVars
<1>3. slots' \in [1..n -> Objects]
  <2>1. \A j \in 1..n : (IF k <= j /\ j < size THEN slots[j + 1] ELSE slots[j]) \in Objects
    BY <1>1
  <2>. QED
    BY <1>2, <2>1
<1>4. slots' \in Seq(Objects) /\ Len(slots') = n
  <2>1. slots' \in Seq(Objects)
    BY <1>1, <1>3, SeqDef
  <2>2. DOMAIN slots' = 1..n /\ DOMAIN slots' = 1..Len(slots') /\ Len(slots') \in Nat
    BY <1>3, <2>1, LenProperties
  <2>. QED
    BY <1>1, <2>1, <2>2
<1>5. \A j \in 1..n : slots'[j] = IF k <= j /\ j < size THEN slots[j + 1] ELSE slots[j]
  BY <1>2
<1>6. o \in Listed
  BY <1>2 DEF Listed
<1>7. Listed' = Listed \ {o}
  <2>1. Listed' = {slots'[j] : j \in 1..size - 1}
    BY <1>2 DEF Listed
  <2>2. ASSUME NEW j \in 1..size - 1
        PROVE  slots'[j] \in Listed \ {o}
    <3>1. j \in 1..n /\ j \in 1..size /\ j + 1 \in 1..size
      BY <1>1
    <3>2. \A i \in 1..size : slots[i] = slots[k] => i = k
      BY DEF TypeOK
    <3>3. CASE k <= j
      <4>1. slots'[j] = slots[j + 1]
        BY <1>1, <1>5, <3>1, <3>3
      <4>2. j + 1 # k
        BY <3>3
      <4>3. slots[j + 1] # o
        BY <1>2, <3>1, <3>2, <4>2
      <4>. QED
        BY <3>1, <4>1, <4>3 DEF Listed
    <3>4. CASE ~(k <= j)
      BY <1>2, <1>5, <3>1, <3>2, <3>4 DEF Listed
    <3>. QED
      BY <3>3, <3>4
  <2>3. ASSUME NEW i \in 1..size, slots[i] # o
        PROVE  \E j \in 1..size - 1 : slots'[j] = slots[i]
    <3>1. CASE i < k
      <4>1. i \in 1..n /\ i \in 1..size - 1
        BY <1>1, <3>1
      <4>. QED
        BY <1>5, <3>1, <4>1
    <3>2. CASE i > k
      <4>1. i - 1 \in 1..n /\ i - 1 \in 1..size - 1 /\ k <= i - 1 /\ i - 1 < size /\ i - 1 + 1 = i
        BY <1>1, <3>2
      <4>. QED
        BY <1>5, <4>1
    <3>3. i # k
      BY <1>2, <2>3
    <3>4. i < k \/ i > k
      BY <3>3
    <3>. QED
      BY <3>1, <3>2, <3>4
  <2>4. Listed' \subseteq Listed \ {o}
    BY <2>1, <2>2
  <2>5. Listed \ {o} \subseteq Listed'
    BY <2>1, <2>3 DEF Listed
  <2>. QED
    BY <2>4, <2>5
<1>. QED
  BY <1>2, <1>4, <1>5, <1>6, <1>7

-----------------------------------------------------------------------------
(* Types, and indices inside the buffer.                                    *)

\* A buffer that is about to be read is not younger than the current one.
BaseOld == \A d \in Dispatchers : base[d] <= buffer

\* The buffer never forgets a slot, so an index below the size at the count
\* stays inside.
IndexInside == \A d \in Dispatchers : pc[d] \in Reading => index[d] < Len(slots)

TypeInv == TypeOK /\ BaseOld /\ IndexInside

LEMMA InitType == Init => TypeInv
<1>. SUFFICES ASSUME Init PROVE TypeInv
  OBVIOUS
<1>1. PICK o \in Objects : slots = <<o>> /\ object = [x \in Objects |-> IF x = o THEN "listed" ELSE "none"]
  BY DEF Init
<1>2. slots \in Seq(Objects) /\ Len(slots) = 1 /\ slots[1] = o
  BY <1>1
<1>3. Listed = {o}
  BY <1>2 DEF Init, Listed
<1>4. Listed = {x \in Objects : object[x] = "listed"}
  BY <1>1, <1>3
<1>5. \A j, k \in 1..size : slots[j] = slots[k] => j = k
  BY DEF Init
<1>. QED
  BY <1>1, <1>2, <1>4, <1>5 DEF Init, TypeInv, TypeOK, BaseOld, IndexInside, Reading

LEMMA AddType ==
  ASSUME TypeInv, NEW o \in Objects, AddSubscriber(o)
  PROVE  TypeInv'
<1>. TypeOK
  BY DEF TypeInv
<1>1. /\ object[o] = "new" /\ object' = [object EXCEPT ![o] = "listed"]
      /\ size' = size + 1
      /\ slots' \in Seq(Objects)
      /\ Len(slots') \in Nat /\ size + 1 <= Len(slots') /\ Len(slots) <= Len(slots')
      /\ slots'[size + 1] = o
      /\ \A j \in 1..Len(slots) : j # size + 1 => slots'[j] = slots[j]
      /\ capacity' \in Nat /\ Len(slots') <= capacity'
      /\ buffer' \in {buffer, buffer + 1}
      /\ o \notin Listed /\ Listed' = Listed \cup {o}
      /\ Watch(o)
      /\ UNCHANGED <<pc, index, base, pointer, wild, called, stayed, removals>>
  BY AddShape
<1>2. size \in Nat /\ size \in 0..Len(slots) /\ Len(slots) \in Nat /\ buffer \in Nat
  BY LenProperties DEF TypeOK
<1>3. size' \in 0..Len(slots') /\ buffer' \in Nat
  BY <1>1, <1>2
<1>4. object' \in [Objects -> {"none", "new", "listed", "removed", "deleted"}]
  BY <1>1 DEF TypeOK
<1>5. window' \in [Dispatchers -> SUBSET Objects]
  BY <1>1 DEF Watch, TypeOK
<1>6. \A j, k \in 1..size' : slots'[j] = slots'[k] => j = k
  <2>1. \A j \in 1..size : slots'[j] = slots[j] /\ slots[j] # o
    BY <1>1, <1>2 DEF Listed
  <2>2. \A j \in 1..size' : j \in 1..size \/ j = size + 1
    BY <1>1, <1>2
  <2>3. \A j, k \in 1..size : slots[j] = slots[k] => j = k
    BY DEF TypeOK
  <2>. QED
    BY <1>1, <2>1, <2>2, <2>3
<1>7. Listed' = {x \in Objects : object'[x] = "listed"}
  BY <1>1 DEF TypeOK
<1>8. TypeOK'
  BY <1>1, <1>3, <1>4, <1>5, <1>6, <1>7 DEF TypeOK
<1>9. BaseOld' /\ IndexInside'
  BY <1>1, <1>2, LenProperties DEF TypeInv, TypeOK, BaseOld, IndexInside
<1>. QED
  BY <1>8, <1>9 DEF TypeInv

LEMMA RemoveType ==
  ASSUME TypeInv, NEW o \in Objects, Remove(o)
  PROVE  TypeInv'
<1>. TypeOK
  BY DEF TypeInv
<1>1. PICK k \in 1..size :
      /\ slots[k] = o
      /\ object[o] = "listed" /\ object' = [object EXCEPT ![o] = "removed"]
      /\ size' = size - 1
      /\ slots' \in Seq(Objects) /\ Len(slots') = Len(slots)
      /\ \A j \in 1..Len(slots) : slots'[j] = IF k <= j /\ j < size THEN slots[j + 1] ELSE slots[j]
      /\ o \in Listed /\ Listed' = Listed \ {o}
      /\ stayed' = [d \in Dispatchers |-> stayed[d] \ {o}]
      /\ removals' = [d \in Dispatchers |-> removals[d] + 1]
      /\ UNCHANGED <<pc, index, base, pointer, wild, called, window, capacity, buffer>>
  BY RemoveShape
<1>2. size \in 0..Len(slots) /\ Len(slots) \in Nat
  BY LenProperties DEF TypeOK
<1>3. size' \in 0..Len(slots')
  BY <1>1, <1>2
<1>4. object' \in [Objects -> {"none", "new", "listed", "removed", "deleted"}]
  BY <1>1 DEF TypeOK
<1>5. stayed' \in [Dispatchers -> SUBSET Objects] /\ removals' \in [Dispatchers -> Nat]
  BY <1>1 DEF TypeOK
<1>6. ASSUME NEW i \in 1..size', NEW j \in 1..size', slots'[i] = slots'[j]
      PROVE  i = j
  <2>1. /\ i \in 1..Len(slots) /\ i \in 1..size /\ i + 1 \in 1..size /\ i < size
        /\ j \in 1..Len(slots) /\ j \in 1..size /\ j + 1 \in 1..size /\ j < size
    BY <1>1, <1>2
  <2>2. \A a, b \in 1..size : slots[a] = slots[b] => a = b
    BY DEF TypeOK
  <2>3. /\ slots'[i] = IF k <= i THEN slots[i + 1] ELSE slots[i]
        /\ slots'[j] = IF k <= j THEN slots[j + 1] ELSE slots[j]
    BY <1>1, <2>1
  <2>. DEFINE I == IF k <= i THEN i + 1 ELSE i
              J == IF k <= j THEN j + 1 ELSE j
  <2>4. I \in 1..size /\ J \in 1..size /\ slots[I] = slots[J]
    BY <1>6, <2>1, <2>3
  <2>5. I = J
    BY <2>2, <2>4
  <2>6. i \in Nat /\ j \in Nat /\ k \in Nat
    BY <2>1
  <2>. QED
    BY <2>5, <2>6
<1>7. Listed' = {x \in Objects : object'[x] = "listed"}
  BY <1>1 DEF TypeOK
<1>8. TypeOK'
  BY <1>1, <1>3, <1>4, <1>5, <1>6, <1>7 DEF TypeOK
<1>9. BaseOld' /\ IndexInside'
  BY <1>1 DEF TypeInv, BaseOld, IndexInside
<1>. QED
  BY <1>8, <1>9 DEF TypeInv

LEMMA NextType == TypeInv /\ [Next]_vars => TypeInv'
<1>. SUFFICES ASSUME TypeInv, [Next]_vars
              PROVE  TypeInv'
  OBVIOUS
<1>0. Len(slots) \in Nat /\ size \in 0..Len(slots) /\ Listed \subseteq Objects
  BY LenProperties DEF TypeInv, TypeOK
<1>1. ASSUME NEW o \in Objects, New(o) \/ Delete(o)
      PROVE  TypeInv'
  <2>1. /\ object[o] # "listed" 
        /\ \E l \in {"new", "deleted"} : object' = [object EXCEPT ![o] = l]
        /\ UNCHANGED <<listVars, loopVars, historyVars>>
    BY <1>1 DEF New, Delete, Destroy
  <2>2. Listed' = Listed
    BY <2>1 DEF Listed, listVars
  <2>. QED
    BY <2>1, <2>2 DEF TypeInv, TypeOK, BaseOld, IndexInside, listVars, loopVars, historyVars
<1>2. ASSUME NEW d \in Dispatchers, Start(d)
      PROVE  TypeInv'
  <2>1. Listed' = Listed
    BY <1>2 DEF Start, Listed, listVars
  <2>2. TypeOK'
    BY <1>0, <1>2, <2>1 DEF Start, Goto, listVars, TypeInv, TypeOK
  <2>3. BaseOld' /\ IndexInside'
    BY <1>2 DEF Start, Goto, listVars, TypeInv, TypeOK, BaseOld, IndexInside, Reading
  <2>. QED
    BY <2>2, <2>3 DEF TypeInv
<1>3. ASSUME NEW d \in Dispatchers, Count(d)
      PROVE  TypeInv'
  <2>1. Listed' = Listed
    BY <1>3 DEF Count, Continue, Listed, listVars
  <2>2. TypeOK'
    <3>1. pc' \in [Dispatchers -> {"idle", "count", "load", "read", "call"}]
      BY <1>3 DEF Count, Continue, Goto, TypeInv, TypeOK
    <3>2. window' \in [Dispatchers -> SUBSET Objects]
      BY <1>0, <1>3 DEF Count, Continue, TypeInv, TypeOK
    <3>. QED
      BY <1>3, <2>1, <3>1, <3>2 DEF Count, Continue, listVars, TypeInv, TypeOK
  <2>3. IndexInside'
    <3>1. ASSUME NEW e \in Dispatchers, pc'[e] \in Reading
          PROVE  (e = d /\ index[d] < size) \/ pc[e] \in Reading
      BY <1>3, <3>1 DEF Count, Continue, Goto, TypeInv, TypeOK, Reading
    <3>2. index[d] \in Nat
      BY DEF TypeInv, TypeOK
    <3>. QED
      BY <1>0, <1>3, <3>1, <3>2 DEF Count, Continue, listVars, TypeInv, IndexInside
  <2>4. BaseOld'
    BY <1>3 DEF Count, Continue, listVars, TypeInv, BaseOld
  <2>. QED
    BY <2>2, <2>3, <2>4 DEF TypeInv
<1>4. ASSUME NEW d \in Dispatchers, Load(d)
      PROVE  TypeInv'
  <2>1. Listed' = Listed
    BY <1>4 DEF Load, Listed, listVars
  <2>2. TypeOK'
    BY <1>4, <2>1 DEF Load, Goto, listVars, historyVars, TypeInv, TypeOK
  <2>3. BaseOld' /\ IndexInside'
    BY <1>4 DEF Load, Goto, listVars, TypeInv, TypeOK, BaseOld, IndexInside, Reading
  <2>. QED
    BY <2>2, <2>3 DEF TypeInv
<1>5. ASSUME NEW d \in Dispatchers, Read(d)
      PROVE  TypeInv'
  <2>1. Listed' = Listed
    BY <1>5 DEF Read, Listed, listVars
  <2>2. slots[index[d] + 1] \in Objects
    <3>1. index[d] + 1 \in 1..Len(slots)
      BY <1>0, <1>5 DEF Read, TypeInv, TypeOK, IndexInside, Reading
    <3>. QED
      BY <3>1, ElementOfSeq DEF TypeInv, TypeOK
  <2>3. pointer' \in [Dispatchers -> Objects \cup {Garbage}] /\ wild' \in [Dispatchers -> BOOLEAN]
    BY <1>5, <2>2 DEF Read, TypeInv, TypeOK
  <2>4. TypeOK'
    BY <1>5, <2>1, <2>3 DEF Read, Goto, listVars, historyVars, TypeInv, TypeOK
  <2>5. BaseOld' /\ IndexInside'
    BY <1>5 DEF Read, Goto, listVars, TypeInv, TypeOK, BaseOld, IndexInside, Reading
  <2>. QED
    BY <2>4, <2>5 DEF TypeInv
<1>6. ASSUME NEW d \in Dispatchers, Call(d)
      PROVE  TypeInv'
  <2>1. Listed' = Listed
    BY <1>6 DEF Call, Listed, listVars
  <2>2. TypeOK'
    BY <1>6, <2>1 DEF Call, Goto, listVars, TypeInv, TypeOK
  <2>3. BaseOld' /\ IndexInside'
    BY <1>6 DEF Call, Goto, listVars, TypeInv, TypeOK, BaseOld, IndexInside, Reading
  <2>. QED
    BY <2>2, <2>3 DEF TypeInv
<1>7. CASE UNCHANGED vars
  BY <1>7 DEF vars, TypeInv, TypeOK, BaseOld, IndexInside, Listed
<1>. QED
  BY <1>1, <1>2, <1>3, <1>4, <1>5, <1>6, <1>7, AddType, RemoveType, StepCases

(* The types hold, and the list holds each subscriber that is subscribed    *)
(* once and no other, whatever removals have left behind it in the buffer.  *)
THEOREM TypeCorrect == Spec => []TypeOK
<1>1. TypeInv => TypeOK
  BY DEF TypeInv
<1>. QED
  BY <1>1, InitType, NextType, PTL DEF Spec

(* No slot is read before it was written: the index was below the size at   *)
(* the count, and a buffer keeps its slots when the list shrinks.           *)
THEOREM ReadsAreInitialised == Spec => []ReadsInitialised
<1>1. TypeInv => ReadsInitialised
  BY DEF TypeInv, IndexInside, ReadsInitialised, Reading
<1>. QED
  BY <1>1, InitType, NextType, PTL DEF Spec

LEMMA TypeInvHolds == Spec => []TypeInv
  BY InitType, NextType, PTL DEF Spec

-----------------------------------------------------------------------------
(* Whom a walk calls.                                                       *)

\* Only who has been listed is ever called or in a window.
SeenOnly ==
  \A d \in Dispatchers : \A o \in called[d] \cup window[d] : object[o] \notin {"none", "new"}

WindowCovers == \A d \in Dispatchers : pc[d] \in Reading => Listed \subseteq window[d]

\* The slot under the index may be behind the list by now, but what it holds
\* was listed at the count or later.
SlotFresh ==
  \A d \in Dispatchers : pc[d] \in Reading => slots[index[d] + 1] \in window[d] \ called[d]

\* Removals only bring closer what is still ahead.
AheadFresh ==
  \A d \in Dispatchers : pc[d] # "idle" =>
    \A j \in index[d] + 1 .. size : slots[j] \notin called[d]

AheadOfCall ==
  \A d \in Dispatchers : pc[d] = "call" =>
    \A j \in index[d] + 2 .. size : slots[j] # pointer[d]

WalkInv ==
  /\ SeenOnly /\ WindowCovers /\ SlotFresh /\ AheadFresh /\ AheadOfCall
  /\ CallsOnceAndRecent

LEMMA InitWalk == Init => WalkInv
  BY DEF Init, WalkInv, SeenOnly, WindowCovers, SlotFresh, AheadFresh, AheadOfCall,
         CallsOnceAndRecent, Reading

LEMMA AddWalk ==
  ASSUME TypeInv, WalkInv, NEW o \in Objects, AddSubscriber(o)
  PROVE  WalkInv'
<1>1. /\ object[o] = "new" /\ object' = [object EXCEPT ![o] = "listed"]
      /\ size' = size + 1
      /\ slots'[size + 1] = o
      /\ \A j \in 1..Len(slots) : j # size + 1 => slots'[j] = slots[j]
      /\ Listed' = Listed \cup {o}
      /\ Watch(o)
      /\ UNCHANGED <<pc, index, base, pointer, wild, called, stayed, removals>>
  BY AddShape DEF TypeInv
<1>2. /\ size \in Nat /\ Len(slots) \in Nat /\ size <= Len(slots)
      /\ \A d \in Dispatchers : index[d] \in Nat
      /\ \A d \in Dispatchers : pc[d] \in Reading => index[d] + 1 \in 1..Len(slots)
  BY LenProperties DEF TypeInv, TypeOK, IndexInside
<1>3. \A d \in Dispatchers : o \notin called[d] \cup window[d]
  BY <1>1 DEF WalkInv, SeenOnly
<1>4. \A d \in Dispatchers : window'[d] = IF pc[d] \in Reading THEN window[d] \cup {o} ELSE window[d]
  BY <1>1 DEF Watch, Reading
<1>5. SeenOnly'
  <2>1. SUFFICES ASSUME NEW d \in Dispatchers, NEW x \in called[d] \cup window'[d]
                 PROVE  object'[x] \notin {"none", "new"}
    BY <1>1 DEF SeenOnly
  <2>2. x \in Objects
    BY <1>4, <2>1 DEF TypeInv, TypeOK
  <2>3. window'[d] \subseteq window[d] \cup {o}
    BY <1>4
  <2>4. x = o \/ x \in called[d] \cup window[d]
    BY <2>3
  <2>. QED
    BY <1>1, <2>2, <2>4 DEF WalkInv, SeenOnly, TypeInv, TypeOK
<1>6. WindowCovers'
  BY <1>1, <1>4 DEF WalkInv, WindowCovers
<1>7. SlotFresh'
  <2>1. SUFFICES ASSUME NEW d \in Dispatchers, pc[d] \in Reading
                 PROVE  slots'[index[d] + 1] \in window'[d] \ called[d]
    BY <1>1 DEF SlotFresh
  <2>2. CASE index[d] + 1 = size + 1
    BY <1>1, <1>3, <1>4, <2>1, <2>2
  <2>3. CASE index[d] + 1 # size + 1
    BY <1>1, <1>2, <1>4, <2>1, <2>3 DEF WalkInv, SlotFresh
  <2>. QED
    BY <2>2, <2>3
<1>8. \A j \in 1..size' : slots'[j] = IF j = size + 1 THEN o ELSE slots[j]
  BY <1>1, <1>2
<1>9. ASSUME NEW d \in Dispatchers, NEW j \in index[d] + 1 .. size'
      PROVE  j \in 1..size' /\ (j # size + 1 => j \in index[d] + 1 .. size)
  BY <1>1, <1>2
<1>10. AheadFresh'
  BY <1>1, <1>3, <1>8, <1>9 DEF WalkInv, AheadFresh
<1>11. AheadOfCall'
  <2>1. SUFFICES ASSUME NEW d \in Dispatchers, pc[d] = "call", NEW j \in index[d] + 2 .. size'
                 PROVE  slots'[j] # pointer[d]
    BY <1>1 DEF AheadOfCall
  <2>2. pointer[d] # o
    BY <1>3, <2>1, GarbageNotObject DEF WalkInv, CallsOnceAndRecent
  <2>3. j \in 1..size' /\ (j # size + 1 => j \in index[d] + 2 .. size)
    BY <1>1, <1>2
  <2>. QED
    BY <1>8, <2>1, <2>2, <2>3 DEF WalkInv, AheadOfCall
<1>12. CallsOnceAndRecent'
  BY <1>1, <1>4 DEF WalkInv, CallsOnceAndRecent, Reading
<1>. QED
  BY <1>5, <1>6, <1>7, <1>10, <1>11, <1>12 DEF WalkInv

LEMMA RemoveWalk ==
  ASSUME TypeInv, WalkInv, NEW o \in Objects, Remove(o)
  PROVE  WalkInv'
<1>1. PICK k \in 1..size :
      /\ object[o] = "listed" /\ object' = [object EXCEPT ![o] = "removed"]
      /\ size' = size - 1
      /\ \A j \in 1..Len(slots) : slots'[j] = IF k <= j /\ j < size THEN slots[j + 1] ELSE slots[j]
      /\ Listed' = Listed \ {o}
      /\ UNCHANGED <<pc, index, base, pointer, wild, called, window, capacity, buffer>>
  BY RemoveShape DEF TypeInv
<1>2. /\ size \in Nat /\ Len(slots) \in Nat /\ size <= Len(slots)
      /\ \A d \in Dispatchers : index[d] \in Nat
      /\ \A d \in Dispatchers : pc[d] \in Reading => index[d] + 1 \in 1..Len(slots)
  BY LenProperties DEF TypeInv, TypeOK, IndexInside
<1>3. \A j \in 1..Len(slots) : slots'[j] = slots[j] \/ (j + 1 \in 1..size /\ slots'[j] = slots[j + 1])
  BY <1>1, <1>2
<1>4. SeenOnly'
  BY <1>1 DEF WalkInv, SeenOnly, TypeInv, TypeOK
<1>5. WindowCovers'
  BY <1>1 DEF WalkInv, WindowCovers
<1>6. SlotFresh'
  <2>1. SUFFICES ASSUME NEW d \in Dispatchers, pc[d] \in Reading
                 PROVE  slots'[index[d] + 1] \in window[d] \ called[d]
    BY <1>1 DEF SlotFresh
  <2>. DEFINE i == index[d] + 1
  <2>2. i \in 1..Len(slots) /\ i \in Nat
    BY <1>2, <2>1
  <2>3. CASE slots'[i] = slots[i]
    BY <2>1, <2>3 DEF WalkInv, SlotFresh
  <2>4. CASE i + 1 \in 1..size /\ slots'[i] = slots[i + 1]
    <3>1. slots[i + 1] \in window[d]
      BY <2>1, <2>4 DEF WalkInv, WindowCovers, Listed
    <3>2. i + 1 \in index[d] + 1 .. size /\ pc[d] # "idle"
      BY <1>2, <2>1, <2>4 DEF Reading
    <3>3. slots[i + 1] \notin called[d]
      BY <3>2 DEF WalkInv, AheadFresh
    <3>. QED
      BY <2>4, <3>1, <3>3
  <2>. QED
    BY <1>3, <2>2, <2>3, <2>4
<1>7. ASSUME NEW n \in Nat, NEW j \in n + 1 .. size'
      PROVE  \E i \in n + 1 .. size : slots'[j] = slots[i]
  <2>1. j \in 1..Len(slots) /\ j \in n + 1 .. size /\ j + 1 \in n + 1 .. size
    BY <1>1, <1>2
  <2>. QED
    BY <1>3, <2>1
<1>8. AheadFresh'
  BY <1>1, <1>2, <1>7 DEF WalkInv, AheadFresh
<1>9. AheadOfCall'
  <2>1. SUFFICES ASSUME NEW d \in Dispatchers, pc[d] = "call", NEW j \in index[d] + 2 .. size'
                 PROVE  slots'[j] # pointer[d]
    BY <1>1 DEF AheadOfCall
  <2>2. index[d] + 1 \in Nat /\ index[d] + 1 + 1 = index[d] + 2
    BY <1>2
  <2>3. PICK i \in index[d] + 2 .. size : slots'[j] = slots[i]
    BY <1>7, <2>2
  <2>. QED
    BY <2>1, <2>3 DEF WalkInv, AheadOfCall
<1>10. CallsOnceAndRecent'
  BY <1>1 DEF WalkInv, CallsOnceAndRecent
<1>. QED
  BY <1>4, <1>5, <1>6, <1>8, <1>9, <1>10 DEF WalkInv

LEMMA NextWalk == TypeInv /\ WalkInv /\ [Next]_vars => WalkInv'
<1>. SUFFICES ASSUME TypeInv, WalkInv, [Next]_vars
              PROVE  WalkInv'
  OBVIOUS
<1>0. /\ size \in Nat /\ Len(slots) \in Nat /\ size <= Len(slots)
      /\ \A d \in Dispatchers : index[d] \in Nat
  BY LenProperties DEF TypeInv, TypeOK
<1>1. ASSUME NEW o \in Objects, New(o) \/ Delete(o)
      PROVE  WalkInv'
  <2>1. /\ object[o] # "listed"
        /\ object[o] # "none" => object' = [object EXCEPT ![o] = "deleted"]
        /\ object[o] = "none" => object' = [object EXCEPT ![o] = "new"]
        /\ UNCHANGED <<listVars, loopVars, historyVars>>
    BY <1>1 DEF New, Delete, Destroy
  <2>2. SeenOnly'
    BY <2>1 DEF WalkInv, SeenOnly, historyVars, TypeInv, TypeOK
  <2>. QED
    BY <2>1, <2>2 DEF WalkInv, WindowCovers, SlotFresh, AheadFresh, AheadOfCall,
                      CallsOnceAndRecent, Listed, listVars, loopVars, historyVars
<1>2. ASSUME NEW d \in Dispatchers, Start(d)
      PROVE  WalkInv'
  <2>1. /\ UNCHANGED <<slots, size, object, window, pointer>>
        /\ pc' = [pc EXCEPT ![d] = "count"]
        /\ index' = [index EXCEPT ![d] = 0] /\ called' = [called EXCEPT ![d] = {}]
        /\ wild' = [wild EXCEPT ![d] = FALSE]
    BY <1>2 DEF Start, Goto, listVars
  <2>2. /\ pc'[d] = "count" /\ called'[d] = {}
        /\ \A e \in Dispatchers \ {d} :
             pc'[e] = pc[e] /\ called'[e] = called[e] /\ index'[e] = index[e] /\ wild'[e] = wild[e]
    BY <2>1 DEF TypeInv, TypeOK
  <2>3. SeenOnly' /\ WindowCovers' /\ CallsOnceAndRecent'
    BY <2>1, <2>2 DEF WalkInv, SeenOnly, WindowCovers, CallsOnceAndRecent, Listed, Reading
  <2>4. SlotFresh' /\ AheadFresh' /\ AheadOfCall'
    BY <2>1, <2>2 DEF WalkInv, SlotFresh, AheadFresh, AheadOfCall, Reading
  <2>. QED
    BY <2>3, <2>4 DEF WalkInv
<1>3. ASSUME NEW d \in Dispatchers, Count(d)
      PROVE  WalkInv'
  <2>1. /\ UNCHANGED <<slots, size, object, index, called, pointer, wild>>
        /\ pc[d] = "count" /\ pc' = [pc EXCEPT ![d] = IF index[d] < size THEN "load" ELSE "idle"]
        /\ window' = [window EXCEPT ![d] = Listed]
    BY <1>3 DEF Count, Continue, Goto, listVars
  <2>2. /\ pc'[d] = IF index[d] < size THEN "load" ELSE "idle"
        /\ window'[d] = Listed
        /\ \A e \in Dispatchers \ {d} : pc'[e] = pc[e] /\ window'[e] = window[e]
    BY <2>1 DEF TypeInv, TypeOK
  <2>3. SeenOnly'
    BY <2>1, <2>2 DEF WalkInv, SeenOnly, TypeInv, TypeOK
  <2>4. WindowCovers'
    BY <2>1, <2>2 DEF WalkInv, WindowCovers, Listed
  <2>5. SlotFresh'
    <3>1. index[d] < size => index[d] + 1 \in 1..size /\ index[d] + 1 \in index[d] + 1 .. size
      BY <1>0
    <3>2. index[d] < size => slots[index[d] + 1] \in Listed \ called[d]
      BY <2>1, <3>1 DEF WalkInv, AheadFresh, Listed
    <3>. QED
      BY <2>1, <2>2, <3>2 DEF WalkInv, SlotFresh, Reading
  <2>6. AheadFresh' /\ AheadOfCall' /\ CallsOnceAndRecent'
    BY <2>1, <2>2 DEF WalkInv, AheadFresh, AheadOfCall, CallsOnceAndRecent
  <2>. QED
    BY <2>3, <2>4, <2>5, <2>6 DEF WalkInv
<1>4. ASSUME NEW d \in Dispatchers, Load(d)
      PROVE  WalkInv'
  <2>1. /\ UNCHANGED <<slots, size, object, index, called, pointer, window, wild>>
        /\ pc[d] = "load" /\ pc' = [pc EXCEPT ![d] = "read"]
    BY <1>4 DEF Load, Goto, listVars, historyVars
  <2>2. \A e \in Dispatchers : /\ pc'[e] \in Reading <=> pc[e] \in Reading
                               /\ pc'[e] = "call" <=> pc[e] = "call"
                               /\ pc'[e] = "idle" <=> pc[e] = "idle"
    BY <2>1 DEF TypeInv, TypeOK, Reading
  <2>. QED
    BY <2>1, <2>2 DEF WalkInv, SeenOnly, WindowCovers, SlotFresh, AheadFresh, AheadOfCall,
                      CallsOnceAndRecent, Listed
<1>5. ASSUME NEW d \in Dispatchers, Read(d)
      PROVE  WalkInv'
  <2>1. /\ UNCHANGED <<slots, size, object, index, called, window>>
        /\ pc[d] = "read" /\ pc' = [pc EXCEPT ![d] = "call"]
        /\ \/ pointer' = [pointer EXCEPT ![d] = slots[index[d] + 1]] /\ UNCHANGED wild
           \/ pointer' = [pointer EXCEPT ![d] = Garbage] /\ wild' = [wild EXCEPT ![d] = TRUE]
    BY <1>5 DEF Read, Goto, listVars, historyVars
  <2>2. /\ pc'[d] = "call"
        /\ \/ pointer'[d] = slots[index[d] + 1]
           \/ pointer'[d] = Garbage /\ wild'[d]
        /\ \A e \in Dispatchers \ {d} : pc'[e] = pc[e] /\ pointer'[e] = pointer[e] /\ wild'[e] = wild[e]
    BY <2>1 DEF TypeInv, TypeOK
  <2>3. SeenOnly' /\ WindowCovers' /\ SlotFresh' /\ AheadFresh'
    BY <2>1, <2>2 DEF WalkInv, SeenOnly, WindowCovers, SlotFresh, AheadFresh, Reading, Listed
  <2>4. slots[index[d] + 1] \in window[d] \ called[d]
    BY <2>1 DEF WalkInv, SlotFresh, Reading
  <2>5. CallsOnceAndRecent'
    BY <2>1, <2>2, <2>4 DEF WalkInv, CallsOnceAndRecent
  <2>6. ASSUME NEW j \in index[d] + 2 .. size
        PROVE  slots[j] # pointer'[d]
    <3>1. j \in 1..size /\ index[d] + 1 \in 1..size /\ j # index[d] + 1
      BY <1>0
    <3>2. slots[j] \in Objects
      BY <1>0, <3>1, ElementOfSeq DEF TypeInv, TypeOK
    <3>3. slots[j] # slots[index[d] + 1]
      BY <3>1 DEF TypeInv, TypeOK
    <3>. QED
      BY <2>2, <3>2, <3>3, GarbageNotObject
  <2>7. AheadOfCall'
    BY <2>1, <2>2, <2>6 DEF WalkInv, AheadOfCall
  <2>. QED
    BY <2>3, <2>5, <2>7 DEF WalkInv
<1>6. ASSUME NEW d \in Dispatchers, Call(d)
      PROVE  WalkInv'
  <2>1. /\ UNCHANGED <<slots, size, object, wild>>
        /\ pc[d] = "call" /\ pc' = [pc EXCEPT ![d] = "count"]
        /\ called' = [called EXCEPT ![d] = @ \cup ({pointer[d]} \ {Garbage})]
        /\ index' = [index EXCEPT ![d] = @ + 1]
        /\ pointer' = [pointer EXCEPT ![d] = Garbage]
        /\ window' = [window EXCEPT ![d] = {}]
    BY <1>6 DEF Call, Goto, listVars
  <2>2. /\ pc'[d] = "count" /\ called'[d] = called[d] \cup ({pointer[d]} \ {Garbage})
        /\ index'[d] = index[d] + 1 /\ window'[d] = {}
        /\ \A e \in Dispatchers \ {d} :
             /\ pc'[e] = pc[e] /\ called'[e] = called[e] /\ index'[e] = index[e]
             /\ pointer'[e] = pointer[e] /\ window'[e] = window[e]
    BY <2>1 DEF TypeInv, TypeOK
  <2>3. SeenOnly'
    <3>1. {pointer[d]} \ {Garbage} \subseteq window[d]
      BY <2>1 DEF WalkInv, CallsOnceAndRecent
    <3>. QED
      BY <2>1, <2>2, <3>1 DEF WalkInv, SeenOnly
  <2>4. WindowCovers' /\ SlotFresh' /\ AheadOfCall' /\ CallsOnceAndRecent'
    BY <2>1, <2>2 DEF WalkInv, WindowCovers, SlotFresh, AheadOfCall, CallsOnceAndRecent,
                      Reading, Listed
  <2>5. \A j \in index[d] + 1 + 1 .. size : slots[j] \notin called'[d]
    <3>1. \A j \in index[d] + 1 + 1 .. size : j \in index[d] + 1 .. size /\ j \in index[d] + 2 .. size
      BY <1>0
    <3>. QED
      BY <2>1, <2>2, <3>1 DEF WalkInv, AheadFresh, AheadOfCall
  <2>6. AheadFresh'
    BY <2>1, <2>2, <2>5 DEF WalkInv, AheadFresh
  <2>. QED
    BY <2>3, <2>4, <2>6 DEF WalkInv
<1>7. CASE UNCHANGED vars
  BY <1>7 DEF vars, WalkInv, SeenOnly, WindowCovers, SlotFresh, AheadFresh, AheadOfCall,
              CallsOnceAndRecent, Listed
<1>. QED
  BY <1>1, <1>2, <1>3, <1>4, <1>5, <1>6, <1>7, AddWalk, RemoveWalk, StepCases

(* A walk calls nobody twice, and nobody who had left before its last look  *)
(* at the size: what is ahead of the index is uncalled, however removals    *)
(* shift it, and the slot under the index was in the list at that look or   *)
(* later.                                                                   *)
THEOREM CallsAreFresh == Spec => []CallsOnceAndRecent
<1>1. WalkInv => CallsOnceAndRecent
  BY DEF WalkInv
<1>. QED
  BY <1>1, TypeInvHolds, InitWalk, NextWalk, PTL DEF Spec

-----------------------------------------------------------------------------
(* Whom a walk misses.                                                      *)

LEMMA OneMore ==
  ASSUME NEW S, IsFiniteSet(S), NEW x, NEW T, T \subseteq S \cup {x}
  PROVE  /\ IsFiniteSet(T) /\ Cardinality(T) \in Nat /\ Cardinality(S) \in Nat
         /\ Cardinality(T) <= Cardinality(S) + 1
         /\ T \subseteq S => Cardinality(T) <= Cardinality(S)
<1>0. Cardinality(S) \in Nat
  BY FS_CardinalityType
<1>1. /\ IsFiniteSet(S \cup {x})
      /\ Cardinality(S \cup {x}) <= Cardinality(S) + 1
  BY <1>0, FS_AddElement
<1>2. IsFiniteSet(T) /\ Cardinality(T) <= Cardinality(S \cup {x})
  BY <1>1, FS_Subset
<1>3. Cardinality(T) \in Nat /\ Cardinality(S \cup {x}) \in Nat
  BY <1>1, <1>2, FS_CardinalityType
<1>4. T \subseteq S => Cardinality(T) <= Cardinality(S)
  BY FS_Subset
<1>. QED
  BY <1>0, <1>1, <1>2, <1>3, <1>4

StayedListed == \A d \in Dispatchers : stayed[d] \subseteq Listed

\* How many positions the walk has done with or is at.
Reached(d) == IF pc[d] \in {"load", "read", "call"} THEN index[d] + 1 ELSE index[d]

\* Whom it calls in this iteration.
Target(d) ==
  IF pc[d] \in Reading THEN {slots[index[d] + 1]}
  ELSE IF pc[d] = "call" THEN {pointer[d]} ELSE {}

\* Who is listed there and will not be called.
Passed(d) ==
  {o \in Listed : /\ \E j \in 1..size : j <= Reached(d) /\ slots[j] = o
                  /\ o \notin called[d] \cup Target(d)}

\* One removal passes at most one subscriber over; so does one that joins
\* where the walk has already been, for which there must be a removal that
\* has not passed any.
MissBound ==
  \A d \in Dispatchers : pc[d] # "idle" /\ ~wild[d] =>
    /\ Cardinality(Passed(d)) <= removals[d]
    /\ Cardinality(Passed(d)) + Reached(d) <= removals[d] + size

MissInv == IsFiniteSet(Listed) /\ StayedListed /\ MissBound /\ MissesBoundedByRemovals

LEMMA PassedFinite ==
  ASSUME TypeInv, MissInv, NEW d \in Dispatchers
  PROVE  /\ IsFiniteSet(Passed(d)) /\ Cardinality(Passed(d)) \in Nat
         /\ Reached(d) \in Nat /\ removals[d] \in Nat /\ index[d] \in Nat
         /\ size \in Nat /\ Len(slots) \in Nat /\ size <= Len(slots)
<1>1. Passed(d) \subseteq Listed
  BY DEF Passed
<1>2. IsFiniteSet(Passed(d)) /\ Cardinality(Passed(d)) \in Nat
  BY <1>1, FS_Subset, FS_CardinalityType DEF MissInv
<1>. QED
  BY <1>2, LenProperties DEF TypeInv, TypeOK, Reached

LEMMA InitMiss == Init => MissInv
<1>. SUFFICES ASSUME Init PROVE MissInv
  OBVIOUS
<1>1. PICK o \in Objects : slots = <<o>>
  BY DEF Init
<1>2. Listed = {o}
  BY <1>1 DEF Init, Listed
<1>3. IsFiniteSet(Listed)
  BY <1>2, FS_Singleton
<1>4. \A d \in Dispatchers : stayed[d] \ called[d] = {} /\ removals[d] = 0 /\ stayed[d] = {} /\ pc[d] = "idle"
  BY DEF Init
<1>5. Cardinality({}) <= 0
  BY FS_EmptySet
<1>. QED
  BY <1>3, <1>4, <1>5 DEF MissInv, StayedListed, MissBound, MissesBoundedByRemovals

LEMMA AddMiss ==
  ASSUME TypeInv, MissInv, NEW o \in Objects, AddSubscriber(o)
  PROVE  MissInv'
<1>1. /\ size' = size + 1
      /\ slots'[size + 1] = o
      /\ \A j \in 1..Len(slots) : j # size + 1 => slots'[j] = slots[j]
      /\ Listed' = Listed \cup {o} /\ o \notin Listed
      /\ UNCHANGED <<pc, index, base, pointer, wild, called, stayed, removals>>
  BY AddShape DEF TypeInv
<1>2. IsFiniteSet(Listed')
  BY <1>1, FS_AddElement DEF MissInv
<1>3. StayedListed' /\ MissesBoundedByRemovals'
  BY <1>1 DEF MissInv, StayedListed, MissesBoundedByRemovals
<1>4. ASSUME NEW d \in Dispatchers, pc[d] # "idle", ~wild[d]
      PROVE  /\ Cardinality(Passed(d)') <= removals[d]
             /\ Cardinality(Passed(d)') + Reached(d) <= removals[d] + size + 1
  <2>. DEFINE r == Reached(d)
  <2>1. /\ IsFiniteSet(Passed(d)) /\ Cardinality(Passed(d)) \in Nat
        /\ r \in Nat /\ removals[d] \in Nat /\ index[d] \in Nat
        /\ size \in Nat /\ Len(slots) \in Nat /\ size <= Len(slots)
    BY PassedFinite
  <2>2. /\ Cardinality(Passed(d)) <= removals[d]
        /\ Cardinality(Passed(d)) + r <= removals[d] + size
    BY <1>4 DEF MissInv, MissBound
  <2>3. /\ Reached(d)' = r
        /\ pc[d] \in Reading => r = index[d] + 1 /\ r \in 1..Len(slots)
    BY <1>1, <2>1 DEF Reached, Reading, TypeInv, IndexInside
  <2>4. \A j \in 1..size : slots'[j] = slots[j]
    BY <1>1, <2>1
  <2>5. \A j \in 1..size' : j \in 1..size \/ j = size + 1
    BY <1>1, <2>1
  <2>6. CASE r <= size
    <3>0. pc[d] \in Reading => index[d] + 1 \in 1..size
      BY <2>1, <2>3, <2>6
    <3>1. Target(d)' = Target(d)
      BY <1>1, <2>4, <3>0 DEF Target
    <3>2. Passed(d)' \subseteq Passed(d)
      <4>1. SUFFICES ASSUME NEW x \in Passed(d)'
                     PROVE  x \in Passed(d)
        OBVIOUS
      <4>2. PICK j \in 1..size' : j <= r /\ slots'[j] = x
        BY <2>3, <4>1 DEF Passed
      <4>3. j \in 1..size
        BY <2>1, <2>5, <2>6, <4>2
      <4>4. x \in Listed /\ slots[j] = x
        BY <2>4, <4>2, <4>3 DEF Listed
      <4>. QED
        BY <1>1, <3>1, <4>1, <4>2, <4>3, <4>4 DEF Passed
    <3>3. Cardinality(Passed(d)') \in Nat /\ Cardinality(Passed(d)') <= Cardinality(Passed(d))
      BY <2>1, <3>2, OneMore
    <3>. QED
      BY <2>1, <2>2, <3>3
  <2>7. CASE r > size
    <3>1. PICK y : Passed(d)' \subseteq Passed(d) \cup {y}
      <4>. DEFINE y == IF pc[d] \in Reading /\ r = size + 1 THEN slots[index[d] + 1] ELSE o
      <4>1. SUFFICES ASSUME NEW x \in Passed(d)', x # y
                     PROVE  x \in Passed(d)
        <5>1. Passed(d)' \subseteq Passed(d) \cup {y}
          BY <4>1
        <5>. QED
          BY <5>1
      <4>2. PICK j \in 1..size' : j <= r /\ slots'[j] = x
        BY <2>3, <4>1 DEF Passed
      <4>3. x \notin called[d] /\ x \notin Target(d)'
        BY <1>1, <4>1 DEF Passed
      <4>4. x # o
        <5>1. CASE pc[d] \in Reading /\ r = size + 1
          <6>1. Target(d)' = {o}
            BY <1>1, <2>3, <5>1 DEF Target
          <6>. QED
            BY <4>3, <6>1
        <5>. QED
          BY <4>1, <5>1
      <4>5. j \in 1..size /\ slots[j] = x /\ x \in Listed
        BY <1>1, <2>4, <2>5, <4>2, <4>4 DEF Listed
      <4>6. x \notin Target(d)
        <5>1. CASE pc[d] \in Reading /\ r = size + 1
          BY <4>1, <5>1 DEF Target
        <5>2. CASE pc[d] \in Reading /\ r # size + 1
          BY <1>1, <2>3, <4>3, <5>2 DEF Target
        <5>3. CASE pc[d] \notin Reading
          BY <1>1, <4>3, <5>3 DEF Target
        <5>. QED
          BY <5>1, <5>2, <5>3
      <4>. QED
        BY <4>2, <4>3, <4>5, <4>6 DEF Passed
    <3>2. Cardinality(Passed(d)') \in Nat /\ Cardinality(Passed(d)') <= Cardinality(Passed(d)) + 1
      BY <2>1, <3>1, OneMore
    <3>. QED
      BY <2>1, <2>2, <2>7, <3>2
  <2>. QED
    BY <2>1, <2>6, <2>7
<1>5. \A d \in Dispatchers : Reached(d)' = Reached(d) /\ Reached(d) \in Nat /\ removals[d] \in Nat /\ size \in Nat
  BY <1>1, PassedFinite DEF Reached
<1>6. MissBound'
  BY <1>1, <1>4, <1>5 DEF MissBound
<1>. QED
  BY <1>2, <1>3, <1>6 DEF MissInv

LEMMA RemoveMiss ==
  ASSUME TypeInv, MissInv, NEW o \in Objects, Remove(o)
  PROVE  MissInv'
<1>1. PICK k \in 1..size :
      /\ size' = size - 1
      /\ \A j \in 1..Len(slots) : slots'[j] = IF k <= j /\ j < size THEN slots[j + 1] ELSE slots[j]
      /\ Listed' = Listed \ {o}
      /\ stayed' = [d \in Dispatchers |-> stayed[d] \ {o}]
      /\ removals' = [d \in Dispatchers |-> removals[d] + 1]
      /\ UNCHANGED <<pc, index, base, pointer, wild, called, window, capacity, buffer>>
  BY RemoveShape DEF TypeInv
<1>2. IsFiniteSet(Listed')
  BY <1>1, FS_RemoveElement DEF MissInv
<1>3. StayedListed'
  BY <1>1 DEF MissInv, StayedListed
<1>4. MissesBoundedByRemovals'
  <2>1. SUFFICES ASSUME NEW d \in Dispatchers, pc[d] = "idle", ~wild[d]
                 PROVE  Cardinality((stayed[d] \ {o}) \ called[d]) <= removals[d] + 1
    BY <1>1 DEF MissesBoundedByRemovals
  <2>2. IsFiniteSet(stayed[d] \ called[d])
    <3>1. stayed[d] \ called[d] \subseteq Listed
      BY DEF MissInv, StayedListed
    <3>. QED
      BY <3>1, FS_Subset DEF MissInv
  <2>3. Cardinality(stayed[d] \ called[d]) <= removals[d] /\ removals[d] \in Nat
    BY <2>1 DEF MissInv, MissesBoundedByRemovals, TypeInv, TypeOK
  <2>4. (stayed[d] \ {o}) \ called[d] \subseteq stayed[d] \ called[d]
    OBVIOUS
  <2>5. /\ Cardinality((stayed[d] \ {o}) \ called[d]) \in Nat /\ Cardinality(stayed[d] \ called[d]) \in Nat
        /\ Cardinality((stayed[d] \ {o}) \ called[d]) <= Cardinality(stayed[d] \ called[d])
    BY <2>2, <2>4, OneMore
  <2>. QED
    BY <2>3, <2>5
<1>5. ASSUME NEW d \in Dispatchers, pc[d] # "idle", ~wild[d]
      PROVE  /\ Cardinality(Passed(d)') <= removals[d] + 1
             /\ Cardinality(Passed(d)') + Reached(d) <= removals[d] + 1 + size - 1
  <2>. DEFINE r == Reached(d)
  <2>1. /\ IsFiniteSet(Passed(d)) /\ Cardinality(Passed(d)) \in Nat
        /\ r \in Nat /\ removals[d] \in Nat /\ index[d] \in Nat
        /\ size \in Nat /\ Len(slots) \in Nat /\ size <= Len(slots)
    BY PassedFinite
  <2>2. /\ Cardinality(Passed(d)) <= removals[d]
        /\ Cardinality(Passed(d)) + r <= removals[d] + size
    BY <1>5 DEF MissInv, MissBound
  <2>3. /\ Reached(d)' = r
        /\ pc[d] \in Reading => r = index[d] + 1 /\ r \in 1..Len(slots)
    BY <1>1, <2>1 DEF Reached, Reading, TypeInv, IndexInside
  <2>4. ASSUME NEW x \in Passed(d)'
        PROVE  /\ x \in Listed /\ x \notin called[d] /\ x \notin Target(d)'
               /\ \E j \in 1..size - 1 : /\ j <= r /\ slots'[j] = x
                                         /\ slots'[j] = IF k <= j THEN slots[j + 1] ELSE slots[j]
    <3>1. x \in Listed /\ x \notin called[d] /\ x \notin Target(d)'
      BY <1>1, <2>4 DEF Passed
    <3>2. PICK j \in 1..size - 1 : j <= r /\ slots'[j] = x
      BY <1>1, <2>3, <2>4 DEF Passed
    <3>3. slots'[j] = IF k <= j THEN slots[j + 1] ELSE slots[j]
      BY <1>1, <2>1
    <3>. QED
      BY <3>1, <3>2, <3>3
  <2>5. CASE r >= size
    <3>1. Target(d)' = Target(d)
      <4>1. pc[d] \in Reading => slots'[index[d] + 1] = slots[index[d] + 1]
        BY <1>1, <2>1, <2>3, <2>5
      <4>. QED
        BY <1>1, <4>1 DEF Target
    <3>2. ASSUME NEW x \in Passed(d)'
          PROVE  x \in Passed(d)
      <4>1. PICK j \in 1..size : slots[j] = x
        BY <2>4, <3>2 DEF Listed
      <4>2. j <= r
        BY <2>1, <2>5
      <4>. QED
        BY <2>4, <3>1, <3>2, <4>1, <4>2 DEF Passed
    <3>3. Passed(d)' \subseteq Passed(d)
      BY <3>2
    <3>4. Cardinality(Passed(d)') \in Nat /\ Cardinality(Passed(d)') <= Cardinality(Passed(d))
      BY <2>1, <3>3, OneMore
    <3>. QED
      BY <2>1, <2>2, <3>4
  <2>6. CASE r < size
    <3>1. PICK y : Passed(d)' \subseteq Passed(d) \cup {y}
      <4>. DEFINE y == IF pc[d] \in Reading /\ k <= r THEN slots[r] ELSE slots[r + 1]
      <4>1. SUFFICES ASSUME NEW x \in Passed(d)', x # y
                     PROVE  x \in Passed(d)
        <5>1. Passed(d)' \subseteq Passed(d) \cup {y}
          BY <4>1
        <5>. QED
          BY <5>1
      <4>2. PICK j \in 1..size - 1 : /\ j <= r /\ slots'[j] = x
                                     /\ slots'[j] = IF k <= j THEN slots[j + 1] ELSE slots[j]
        BY <2>4, <4>1
      <4>3. x \in Listed /\ x \notin called[d] /\ x \notin Target(d)'
        BY <2>4, <4>1
      <4>4. pc[d] \in Reading => Target(d)' = {IF k <= r THEN slots[r + 1] ELSE slots[r]}
        BY <1>1, <2>1, <2>3, <2>6 DEF Target
      <4>5. pc[d] \notin Reading => Target(d)' = Target(d)
        BY <1>1 DEF Target
      <4>6. x # slots[r + 1] \/ (pc[d] \in Reading /\ ~(k <= r))
        BY <4>1, <4>3, <4>4
      <4>7. \E i \in 1..size : i <= r /\ slots[i] = x
        <5>1. CASE k <= j
          <6>1. j + 1 \in 1..size /\ x = slots[j + 1] /\ k <= r
            BY <2>1, <4>2, <5>1
          <6>2. j # r
            BY <4>6, <6>1
          <6>3. j + 1 <= r
            BY <2>1, <4>2, <6>2
          <6>. QED
            BY <6>1, <6>3
        <5>2. CASE ~(k <= j)
          <6>1. j \in 1..size /\ x = slots[j]
            BY <2>1, <4>2, <5>2
          <6>. QED
            BY <4>2, <6>1
        <5>. QED
          BY <5>1, <5>2
      <4>8. x \notin Target(d)
        <5>1. CASE pc[d] \in Reading
          <6>1. Target(d) = {slots[r]}
            BY <2>3, <5>1 DEF Target
          <6>. QED
            BY <4>1, <4>3, <4>4, <5>1, <6>1
        <5>. QED
          BY <4>3, <4>5, <5>1
      <4>. QED
        BY <4>3, <4>7, <4>8 DEF Passed
    <3>2. Cardinality(Passed(d)') \in Nat /\ Cardinality(Passed(d)') <= Cardinality(Passed(d)) + 1
      BY <2>1, <3>1, OneMore
    <3>. QED
      BY <2>1, <2>2, <2>6, <3>2
  <2>. QED
    BY <2>1, <2>5, <2>6
<1>6. \A d \in Dispatchers : /\ Reached(d)' = Reached(d) /\ Reached(d) \in Nat
                             /\ removals'[d] = removals[d] + 1 /\ removals[d] \in Nat /\ size \in Nat
  BY <1>1, PassedFinite DEF Reached
<1>7. MissBound'
  BY <1>1, <1>5, <1>6 DEF MissBound
<1>. QED
  BY <1>2, <1>3, <1>4, <1>7 DEF MissInv

\* When the index has reached the size, whoever is listed and not called has
\* been passed over.
LEMMA MissesAtTheEnd ==
  ASSUME TypeInv, MissInv, NEW d \in Dispatchers, pc[d] = "count", ~wild[d], ~(index[d] < size)
  PROVE  Cardinality(Listed \ called[d]) <= removals[d]
<1>1. Reached(d) = index[d] /\ index[d] \in Nat /\ size \in Nat
  BY PassedFinite DEF Reached
<1>2. Target(d) = {}
  BY DEF Target, Reading
<1>3. \A o \in Listed : \E j \in 1..size : j <= Reached(d) /\ slots[j] = o
  BY <1>1 DEF Listed
<1>4. Listed \ called[d] = Passed(d)
  BY <1>2, <1>3 DEF Passed
<1>. QED
  BY <1>4 DEF MissInv, MissBound

LEMMA NextMiss == TypeInv /\ MissInv /\ [Next]_vars => MissInv'
<1>. SUFFICES ASSUME TypeInv, MissInv, [Next]_vars
              PROVE  MissInv'
  OBVIOUS
<1>0. /\ size \in Nat /\ Len(slots) \in Nat /\ size <= Len(slots)
      /\ \A d \in Dispatchers : index[d] \in Nat /\ removals[d] \in Nat
  BY LenProperties DEF TypeInv, TypeOK
<1>1. ASSUME NEW o \in Objects, New(o) \/ Delete(o)
      PROVE  MissInv'
  <2>1. UNCHANGED <<listVars, loopVars, historyVars>>
    BY <1>1 DEF New, Delete, Destroy
  <2>2. Listed' = Listed /\ \A d \in Dispatchers : Passed(d)' = Passed(d) /\ Reached(d)' = Reached(d)
    BY <2>1 DEF listVars, loopVars, historyVars, Listed, Passed, Reached, Target
  <2>. QED
    BY <2>1, <2>2 DEF MissInv, StayedListed, MissBound, MissesBoundedByRemovals,
                      listVars, loopVars, historyVars
<1>2. ASSUME NEW d \in Dispatchers, Start(d)
      PROVE  MissInv'
  <2>1. /\ UNCHANGED <<slots, size, pointer>>
        /\ pc' = [pc EXCEPT ![d] = "count"]
        /\ index' = [index EXCEPT ![d] = 0] /\ called' = [called EXCEPT ![d] = {}]
        /\ stayed' = [stayed EXCEPT ![d] = Listed] /\ removals' = [removals EXCEPT ![d] = 0]
        /\ wild' = [wild EXCEPT ![d] = FALSE]
    BY <1>2 DEF Start, Goto, listVars
  <2>2. /\ pc'[d] = "count" /\ index'[d] = 0 /\ stayed'[d] = Listed /\ removals'[d] = 0
        /\ \A e \in Dispatchers \ {d} :
             /\ pc'[e] = pc[e] /\ called'[e] = called[e] /\ index'[e] = index[e] /\ wild'[e] = wild[e]
             /\ stayed'[e] = stayed[e] /\ removals'[e] = removals[e]
    BY <2>1 DEF TypeInv, TypeOK
  <2>3. Listed' = Listed
    BY <2>1 DEF Listed
  <2>4. \A e \in Dispatchers \ {d} : Passed(e)' = Passed(e) /\ Reached(e)' = Reached(e)
    BY <2>1, <2>2, <2>3 DEF Passed, Reached, Target
  <2>5. Cardinality(Passed(d)') = 0 /\ Reached(d)' = 0
    <3>1. Reached(d)' = 0
      BY <2>2 DEF Reached
    <3>2. Passed(d)' = {}
      BY <3>1 DEF Passed
    <3>. QED
      BY <3>1, <3>2, FS_EmptySet
  <2>6. MissBound'
    BY <1>0, <2>1, <2>2, <2>4, <2>5 DEF MissInv, MissBound
  <2>. QED
    BY <2>2, <2>3, <2>6 DEF MissInv, StayedListed, MissesBoundedByRemovals
<1>3. ASSUME NEW d \in Dispatchers, Count(d)
      PROVE  MissInv'
  <2>1. /\ UNCHANGED <<slots, size, index, called, pointer, wild, stayed, removals>>
        /\ pc[d] = "count" /\ pc' = [pc EXCEPT ![d] = IF index[d] < size THEN "load" ELSE "idle"]
    BY <1>3 DEF Count, Continue, Goto, listVars
  <2>2. /\ pc'[d] = IF index[d] < size THEN "load" ELSE "idle"
        /\ \A e \in Dispatchers \ {d} : pc'[e] = pc[e]
    BY <2>1 DEF TypeInv, TypeOK
  <2>3. Listed' = Listed
    BY <2>1 DEF Listed
  <2>4. \A e \in Dispatchers \ {d} : Passed(e)' = Passed(e) /\ Reached(e)' = Reached(e)
    BY <2>1, <2>2, <2>3 DEF Passed, Reached, Target
  <2>5. CASE index[d] < size
    <3>1. Reached(d) = index[d] /\ Reached(d)' = index[d] + 1 /\ Target(d) = {}
          /\ Target(d)' = {slots[index[d] + 1]}
      BY <2>1, <2>2, <2>5 DEF Reached, Target, Reading
    <3>2. ASSUME NEW x \in Passed(d)'
          PROVE  x \in Passed(d)
      <4>1. /\ x \in Listed /\ x \notin called[d] /\ x # slots[index[d] + 1]
            /\ \E j \in 1..size : j <= index[d] + 1 /\ slots[j] = x
        BY <2>1, <2>3, <3>1, <3>2 DEF Passed
      <4>2. PICK j \in 1..size : j <= index[d] + 1 /\ slots[j] = x
        BY <4>1
      <4>3. j <= index[d]
        BY <1>0, <4>1, <4>2
      <4>. QED
        BY <3>1, <4>1, <4>2, <4>3 DEF Passed
    <3>3. Passed(d)' \subseteq Passed(d)
      BY <3>2
    <3>4. IsFiniteSet(Passed(d))
      BY PassedFinite
    <3>5. /\ Cardinality(Passed(d)') \in Nat /\ Cardinality(Passed(d)) \in Nat
          /\ Cardinality(Passed(d)') <= Cardinality(Passed(d))
      BY <3>3, <3>4, OneMore
    <3>6. ~wild[d] => Cardinality(Passed(d)) <= removals[d]
      BY <2>1 DEF MissInv, MissBound
    <3>7. ~wild[d] => /\ Cardinality(Passed(d)') <= removals[d]
                      /\ Cardinality(Passed(d)') + (index[d] + 1) <= removals[d] + size
      BY <1>0, <2>5, <3>5, <3>6
    <3>8. MissBound'
      <4>1. SUFFICES ASSUME NEW e \in Dispatchers, pc'[e] # "idle", ~wild[e]
                     PROVE  /\ Cardinality(Passed(e)') <= removals[e]
                            /\ Cardinality(Passed(e)') + Reached(e)' <= removals[e] + size
        BY <2>1 DEF MissBound
      <4>2. CASE e = d
        BY <3>1, <3>7, <4>1, <4>2
      <4>3. CASE e # d
        BY <2>2, <2>4, <4>1, <4>3 DEF MissInv, MissBound
      <4>. QED
        BY <4>2, <4>3
    <3>9. MissesBoundedByRemovals'
      BY <2>1, <2>2, <2>5 DEF MissInv, MissesBoundedByRemovals
    <3>. QED
      BY <2>1, <2>3, <3>8, <3>9 DEF MissInv, StayedListed
  <2>6. CASE ~(index[d] < size)
    <3>1. ~wild[d] => Cardinality(Listed \ called[d]) <= removals[d]
      BY <2>1, <2>6, MissesAtTheEnd
    <3>2. ~wild[d] => Cardinality(stayed[d] \ called[d]) <= removals[d]
      <4>1. IsFiniteSet(Listed \ called[d]) /\ stayed[d] \ called[d] \subseteq Listed \ called[d]
        BY FS_Difference DEF MissInv, StayedListed
      <4>2. /\ Cardinality(stayed[d] \ called[d]) \in Nat /\ Cardinality(Listed \ called[d]) \in Nat
            /\ Cardinality(stayed[d] \ called[d]) <= Cardinality(Listed \ called[d])
        BY <4>1, OneMore
      <4>. QED
        BY <1>0, <3>1, <4>2
    <3>3. MissesBoundedByRemovals'
      BY <2>1, <2>2, <3>2 DEF MissInv, MissesBoundedByRemovals
    <3>4. MissBound'
      BY <2>1, <2>2, <2>4, <2>6 DEF MissInv, MissBound
    <3>. QED
      BY <2>1, <2>3, <3>3, <3>4 DEF MissInv, StayedListed
  <2>. QED
    BY <2>5, <2>6
<1>4. ASSUME NEW d \in Dispatchers, Load(d)
      PROVE  MissInv'
  <2>1. /\ UNCHANGED <<slots, size, index, called, pointer, wild, stayed, removals>>
        /\ pc[d] = "load" /\ pc' = [pc EXCEPT ![d] = "read"]
    BY <1>4 DEF Load, Goto, listVars, historyVars
  <2>2. \A e \in Dispatchers : /\ pc'[e] \in Reading <=> pc[e] \in Reading
                               /\ pc'[e] = "call" <=> pc[e] = "call"
                               /\ pc'[e] = "idle" <=> pc[e] = "idle"
    BY <2>1 DEF TypeInv, TypeOK, Reading
  <2>3. Listed' = Listed /\ \A e \in Dispatchers : Passed(e)' = Passed(e) /\ Reached(e)' = Reached(e)
    <3>1. Listed' = Listed
      BY <2>1 DEF Listed
    <3>2. \A e \in Dispatchers : Target(e)' = Target(e) /\ Reached(e)' = Reached(e)
      BY <2>1, <2>2 DEF Target, Reached, Reading
    <3>. QED
      BY <2>1, <3>1, <3>2 DEF Passed
  <2>. QED
    BY <2>1, <2>2, <2>3 DEF MissInv, StayedListed, MissBound, MissesBoundedByRemovals
<1>5. ASSUME NEW d \in Dispatchers, Read(d)
      PROVE  MissInv'
  <2>1. /\ UNCHANGED <<slots, size, index, called, stayed, removals>>
        /\ pc[d] = "read" /\ pc' = [pc EXCEPT ![d] = "call"]
        /\ \/ pointer' = [pointer EXCEPT ![d] = slots[index[d] + 1]] /\ UNCHANGED wild
           \/ pointer' = [pointer EXCEPT ![d] = Garbage] /\ wild' = [wild EXCEPT ![d] = TRUE]
    BY <1>5 DEF Read, Goto, listVars, historyVars
  <2>2. /\ pc'[d] = "call"
        /\ wild'[d] \/ (pointer'[d] = slots[index[d] + 1] /\ ~wild[d])
        /\ \A e \in Dispatchers \ {d} : pc'[e] = pc[e] /\ pointer'[e] = pointer[e] /\ wild'[e] = wild[e]
    BY <2>1 DEF TypeInv, TypeOK
  <2>3. Listed' = Listed
    BY <2>1 DEF Listed
  <2>4. \A e \in Dispatchers : ~wild'[e] => Target(e)' = Target(e) /\ Reached(e)' = Reached(e) /\ ~wild[e]
    BY <2>1, <2>2 DEF Reached, Target, Reading
  <2>5. \A e \in Dispatchers : ~wild'[e] => Passed(e)' = Passed(e)
    BY <2>1, <2>3, <2>4 DEF Passed
  <2>6. MissBound'
    BY <2>1, <2>2, <2>4, <2>5 DEF MissInv, MissBound
  <2>. QED
    BY <2>1, <2>2, <2>3, <2>6 DEF MissInv, StayedListed, MissesBoundedByRemovals
<1>6. ASSUME NEW d \in Dispatchers, Call(d)
      PROVE  MissInv'
  <2>1. /\ UNCHANGED <<slots, size, wild, stayed, removals>>
        /\ pc[d] = "call" /\ pc' = [pc EXCEPT ![d] = "count"]
        /\ called' = [called EXCEPT ![d] = @ \cup ({pointer[d]} \ {Garbage})]
        /\ index' = [index EXCEPT ![d] = @ + 1]
        /\ pointer' = [pointer EXCEPT ![d] = Garbage]
    BY <1>6 DEF Call, Goto, listVars
  <2>2. /\ pc'[d] = "count" /\ called'[d] = called[d] \cup ({pointer[d]} \ {Garbage})
        /\ index'[d] = index[d] + 1
        /\ \A e \in Dispatchers \ {d} :
             /\ pc'[e] = pc[e] /\ called'[e] = called[e] /\ index'[e] = index[e]
             /\ pointer'[e] = pointer[e]
    BY <2>1 DEF TypeInv, TypeOK
  <2>3. Listed' = Listed /\ Garbage \notin Listed
    BY <2>1, GarbageNotObject DEF Listed, TypeInv, TypeOK
  <2>4. \A e \in Dispatchers \ {d} : Passed(e)' = Passed(e) /\ Reached(e)' = Reached(e)
    BY <2>1, <2>2, <2>3 DEF Passed, Reached, Target
  <2>5. Passed(d)' = Passed(d) /\ Reached(d)' = Reached(d)
    <3>1. Reached(d)' = index[d] + 1 /\ Reached(d) = index[d] + 1
      BY <2>1, <2>2 DEF Reached
    <3>2. Target(d) = {pointer[d]} /\ Target(d)' = {}
      BY <2>1, <2>2 DEF Target, Reading
    <3>. QED
      BY <2>1, <2>2, <2>3, <3>1, <3>2 DEF Passed
  <2>6. MissBound'
    <3>1. pc[d] # "idle"
      BY <2>1
    <3>. QED
      BY <2>1, <2>2, <2>4, <2>5, <3>1 DEF MissInv, MissBound
  <2>. QED
    BY <2>1, <2>2, <2>3, <2>6 DEF MissInv, StayedListed, MissesBoundedByRemovals
<1>7. CASE UNCHANGED vars
  <2>1. Listed' = Listed /\ \A d \in Dispatchers : Passed(d)' = Passed(d) /\ Reached(d)' = Reached(d)
    BY <1>7 DEF vars, Listed, Passed, Reached, Target
  <2>. QED
    BY <1>7, <2>1 DEF vars, MissInv, StayedListed, MissBound, MissesBoundedByRemovals
<1>. QED
  BY <1>1, <1>2, <1>3, <1>4, <1>5, <1>6, <1>7, AddMiss, RemoveMiss, StepCases

(* A subscriber that stays is missed only for one that left: a removal      *)
(* shifts at most one uncalled subscriber below the index, and a later one  *)
(* that joins below the index fills a gap some removal has made.            *)
THEOREM MissesAreBounded == Spec => []MissesBoundedByRemovals
<1>1. MissInv => MissesBoundedByRemovals
  BY DEF MissInv
<1>. QED
  BY <1>1, TypeInvHolds, InitMiss, NextMiss, PTL DEF Spec

-----------------------------------------------------------------------------
(* The walks as FanOut sees them (the substitutions of Walks).              *)

Lists == [t \in {"this"} |-> Listed]
At == [d \in Dispatchers |-> IF Walking(d) THEN "this" ELSE "none"]
Stage == [d \in Dispatchers |-> IF pc[d] \in {"load", "read"} THEN "pick" ELSE pc[d]]
HasCalled == [d \in Dispatchers |-> IF Walking(d) THEN called[d] ELSE {}]
Recent == [d \in Dispatchers |-> IF pc[d] \in {"load", "read"} THEN window[d] ELSE {}]
Gone == [d \in Dispatchers |-> IF Walking(d) THEN removals[d] ELSE 0]
Moved == [d \in Dispatchers |-> pc[d] = "read" /\ base[d] # buffer]
Wild == [d \in Dispatchers |-> Walking(d) /\ wild[d]]

\* FanOut counts with its own instance of FiniteSets.
LEMMA SameCardinality == \A S : Walks!Cardinality(S) = Cardinality(S)
  BY DEF Walks!Cardinality, Cardinality, Walks!IsFiniteSet, IsFiniteSet

LEMMA InitMapsToWalks == Init => Walks!Init
<1>. SUFFICES ASSUME Init PROVE Walks!Init
  OBVIOUS
<1>1. \A d \in Dispatchers : pc[d] = "idle"
  BY DEF Init
<1>2. Listed \subseteq Objects
  BY InitType DEF TypeInv, TypeOK
<1>3. Lists \in [{"this"} -> SUBSET Objects]
  BY <1>2 DEF Lists
<1>4. /\ At = [d \in Dispatchers |-> "none"] /\ Stage = [d \in Dispatchers |-> "idle"]
      /\ HasCalled = [d \in Dispatchers |-> {}] /\ pointer = [d \in Dispatchers |-> Garbage]
      /\ Recent = [d \in Dispatchers |-> {}] /\ Gone = [d \in Dispatchers |-> 0]
      /\ Moved = [d \in Dispatchers |-> FALSE] /\ Wild = [d \in Dispatchers |-> FALSE]
  BY <1>1 DEF Init, At, Stage, HasCalled, Recent, Gone, Moved, Wild, Walking
<1>. QED
  BY <1>3, <1>4 DEF Walks!Init, Lists, At, Stage, HasCalled, Recent, Gone, Moved, Wild

\* push_back adds to the set, and may move it away from who is about to read.
LEMMA AddMapsToJoin ==
  ASSUME TypeInv, WalkInv, NEW o \in Objects, AddSubscriber(o)
  PROVE  Walks!Join("this", o)
<1>1. /\ Listed' = Listed \cup {o} /\ o \notin Listed
      /\ Watch(o)
      /\ buffer' \in {buffer, buffer + 1}
      /\ UNCHANGED <<pc, index, base, pointer, wild, called, stayed, removals>>
  BY AddShape DEF TypeInv
<1>2. o \notin Lists["this"] /\ Lists' = [Lists EXCEPT !["this"] = @ \cup {o}]
  BY <1>1 DEF Lists
<1>3. Recent' = [d \in Dispatchers |-> IF Stage[d] = "pick" THEN Recent[d] \cup Lists'[At[d]] ELSE Recent[d]]
  <2>1. ASSUME NEW d \in Dispatchers
        PROVE  Recent'[d] = IF Stage[d] = "pick" THEN Recent[d] \cup Lists'[At[d]] ELSE Recent[d]
    <3>1. CASE pc[d] \in {"load", "read"}
      <4>1. Stage[d] = "pick" /\ Recent[d] = window[d] /\ Lists'[At[d]] = Listed \cup {o}
        BY <1>1, <3>1 DEF Stage, Recent, At, Walking, Lists
      <4>2. Recent'[d] = window[d] \cup {o}
        BY <1>1, <3>1 DEF Recent, Watch
      <4>3. Listed \subseteq window[d]
        BY <3>1 DEF WalkInv, WindowCovers, Reading
      <4>. QED
        BY <4>1, <4>2, <4>3
    <3>2. CASE pc[d] \notin {"load", "read"}
      BY <1>1, <3>2 DEF Stage, Recent, TypeInv, TypeOK
    <3>. QED
      BY <3>1, <3>2
  <2>2. Recent' = [d \in Dispatchers |-> Recent'[d]]
    BY DEF Recent
  <2>. QED
    BY <2>1, <2>2
<1>4. Gone' = [d \in Dispatchers |-> IF Stage[d] = "idle" THEN 0 ELSE Gone[d] + Cardinality(Lists[At[d]] \ Lists'[At[d]])]
  <2>1. ASSUME NEW d \in Dispatchers
        PROVE  Gone'[d] = IF Stage[d] = "idle" THEN 0 ELSE Gone[d] + Cardinality(Lists[At[d]] \ Lists'[At[d]])
    <3>1. CASE pc[d] = "idle"
      BY <1>1, <3>1 DEF Gone, Stage, Walking
    <3>2. CASE pc[d] # "idle"
      <4>1. Stage[d] # "idle" /\ Gone'[d] = removals[d] /\ Gone[d] = removals[d] /\ removals[d] \in Nat
        BY <1>1, <3>2 DEF Gone, Stage, Walking, TypeInv, TypeOK
      <4>2. Lists[At[d]] \ Lists'[At[d]] = {}
        BY <1>1, <3>2 DEF Lists, At, Walking
      <4>3. Cardinality(Lists[At[d]] \ Lists'[At[d]]) = 0
        BY <4>2, FS_EmptySet
      <4>. QED
        BY <4>1, <4>3
    <3>. QED
      BY <3>1, <3>2
  <2>2. Gone' = [d \in Dispatchers |-> Gone'[d]]
    BY DEF Gone
  <2>. QED
    BY <2>1, <2>2
<1>5. \E W \in SUBSET {d \in Dispatchers : Stage[d] = "pick" /\ At[d] = "this"} :
        Moved' = [d \in Dispatchers |-> Moved[d] \/ d \in W]
  <2>. DEFINE W == {d \in Dispatchers : pc[d] = "read" /\ base[d] = buffer /\ buffer' # buffer}
  <2>1. W \in SUBSET {d \in Dispatchers : Stage[d] = "pick" /\ At[d] = "this"}
    BY DEF Stage, At, Walking
  <2>2. \A d \in Dispatchers : base[d] <= buffer /\ base[d] \in Nat /\ buffer \in Nat
    BY DEF TypeInv, TypeOK, BaseOld
  <2>3. ASSUME NEW d \in Dispatchers
        PROVE  (pc[d] = "read" /\ base[d] # buffer') <=> (Moved[d] \/ d \in W)
    <3>1. Moved[d] <=> pc[d] = "read" /\ base[d] # buffer
      BY DEF Moved
    <3>2. d \in W <=> pc[d] = "read" /\ base[d] = buffer /\ buffer' # buffer
      OBVIOUS
    <3>3. base[d] # buffer => base[d] # buffer'
      BY <1>1, <2>2
    <3>. QED
      BY <3>1, <3>2, <3>3
  <2>4. Moved' = [d \in Dispatchers |-> pc[d] = "read" /\ base[d] # buffer']
    BY <1>1 DEF Moved
  <2>5. Moved' = [d \in Dispatchers |-> Moved[d] \/ d \in W]
    BY <2>3, <2>4
  <2>. QED
    BY <2>1, <2>5
<1>6. UNCHANGED <<At, Stage, HasCalled, pointer, Wild>>
  BY <1>1 DEF At, Stage, HasCalled, Wild, Walking
<1>7. Walks!Observe
  BY <1>3, <1>4, SameCardinality DEF Walks!Observe, Lists, At, Stage, Recent, Gone
<1>. QED
  BY <1>2, <1>5, <1>6, <1>7 DEF Walks!Join, Lists, At, Stage, HasCalled, Moved, Wild

LEMMA RemoveMapsToLeave ==
  ASSUME TypeInv, WalkInv, NEW o \in Objects, Remove(o)
  PROVE  Walks!Leave("this", o)
<1>1. /\ o \in Listed /\ Listed' = Listed \ {o}
      /\ removals' = [d \in Dispatchers |-> removals[d] + 1]
      /\ UNCHANGED <<pc, index, base, pointer, wild, called, window, buffer>>
  BY RemoveShape DEF TypeInv
<1>2. o \in Lists["this"] /\ Lists' = [Lists EXCEPT !["this"] = @ \ {o}]
  BY <1>1 DEF Lists
<1>3. Recent' = [d \in Dispatchers |-> IF Stage[d] = "pick" THEN Recent[d] \cup Lists'[At[d]] ELSE Recent[d]]
  <2>1. ASSUME NEW d \in Dispatchers
        PROVE  Recent'[d] = IF Stage[d] = "pick" THEN Recent[d] \cup Lists'[At[d]] ELSE Recent[d]
    <3>1. CASE pc[d] \in {"load", "read"}
      <4>1. Stage[d] = "pick" /\ Recent[d] = window[d] /\ Lists'[At[d]] = Listed \ {o}
        BY <1>1, <3>1 DEF Stage, Recent, At, Walking, Lists
      <4>2. Recent'[d] = window[d]
        BY <1>1, <3>1 DEF Recent
      <4>3. Listed \subseteq window[d]
        BY <3>1 DEF WalkInv, WindowCovers, Reading
      <4>. QED
        BY <4>1, <4>2, <4>3
    <3>2. CASE pc[d] \notin {"load", "read"}
      BY <1>1, <3>2 DEF Stage, Recent, TypeInv, TypeOK
    <3>. QED
      BY <3>1, <3>2
  <2>2. Recent' = [d \in Dispatchers |-> Recent'[d]]
    BY DEF Recent
  <2>. QED
    BY <2>1, <2>2
<1>4. Gone' = [d \in Dispatchers |-> IF Stage[d] = "idle" THEN 0 ELSE Gone[d] + Cardinality(Lists[At[d]] \ Lists'[At[d]])]
  <2>1. ASSUME NEW d \in Dispatchers
        PROVE  Gone'[d] = IF Stage[d] = "idle" THEN 0 ELSE Gone[d] + Cardinality(Lists[At[d]] \ Lists'[At[d]])
    <3>1. CASE pc[d] = "idle"
      BY <1>1, <3>1 DEF Gone, Stage, Walking
    <3>2. CASE pc[d] # "idle"
      <4>1. Stage[d] # "idle" /\ Gone'[d] = removals[d] + 1 /\ Gone[d] = removals[d]
        BY <1>1, <3>2 DEF Gone, Stage, Walking, TypeInv, TypeOK
      <4>2. Lists[At[d]] \ Lists'[At[d]] = {o}
        BY <1>1, <3>2 DEF Lists, At, Walking
      <4>3. Cardinality(Lists[At[d]] \ Lists'[At[d]]) = 1
        BY <4>2, FS_Singleton
      <4>. QED
        BY <4>1, <4>3
    <3>. QED
      BY <3>1, <3>2
  <2>2. Gone' = [d \in Dispatchers |-> Gone'[d]]
    BY DEF Gone
  <2>. QED
    BY <2>1, <2>2
<1>5. UNCHANGED <<At, Stage, HasCalled, pointer, Moved, Wild>>
  BY <1>1 DEF At, Stage, HasCalled, Moved, Wild, Walking
<1>6. Walks!Observe
  BY <1>3, <1>4, SameCardinality DEF Walks!Observe, Lists, At, Stage, Recent, Gone
<1>. QED
  BY <1>2, <1>5, <1>6 DEF Walks!Leave, Lists, At, Stage, HasCalled, Moved, Wild

\* The temporary is gone once the call has returned.
PointerGone == \A d \in Dispatchers : pc[d] # "call" => pointer[d] = Garbage

LEMMA PointerGoneInductive ==
  /\ Init => PointerGone
  /\ TypeInv /\ PointerGone /\ [Next]_vars => PointerGone'
<1>1. Init => PointerGone
  BY DEF Init, PointerGone
<1>2. ASSUME TypeInv, PointerGone, [Next]_vars
      PROVE  PointerGone'
  <2>1. ASSUME UNCHANGED <<pc, pointer>>
        PROVE  PointerGone'
    BY <1>2, <2>1 DEF PointerGone
  <2>2. ASSUME NEW o \in Objects, New(o) \/ AddSubscriber(o) \/ Remove(o) \/ Delete(o)
        PROVE  UNCHANGED <<pc, pointer>>
    BY <2>2 DEF New, AddSubscriber, Grow, Remove, Shrink, Delete, Destroy, loopVars
  <2>3. ASSUME NEW d \in Dispatchers, Start(d) \/ Count(d) \/ Load(d)
        PROVE  PointerGone'
    <3>1. /\ pc[d] # "call" /\ UNCHANGED pointer
          /\ \E l \in {"count", "load", "idle", "read"} : pc' = [pc EXCEPT ![d] = l]
      BY <2>3 DEF Start, Count, Continue, Load, Goto
    <3>. QED
      BY <1>2, <3>1 DEF PointerGone, TypeInv, TypeOK
  <2>4. ASSUME NEW d \in Dispatchers, Read(d)
        PROVE  PointerGone'
    <3>1. pc' = [pc EXCEPT ![d] = "call"] /\ \E o : pointer' = [pointer EXCEPT ![d] = o]
      BY <2>4 DEF Read, Goto
    <3>. QED
      BY <1>2, <3>1 DEF PointerGone, TypeInv, TypeOK
  <2>5. ASSUME NEW d \in Dispatchers, Call(d)
        PROVE  PointerGone'
    <3>1. pc' = [pc EXCEPT ![d] = "count"] /\ pointer' = [pointer EXCEPT ![d] = Garbage]
      BY <2>5 DEF Call, Goto
    <3>. QED
      BY <1>2, <3>1 DEF PointerGone, TypeInv, TypeOK
  <2>6. CASE UNCHANGED vars
    BY <2>1, <2>6 DEF vars
  <2>. QED
    BY <1>2, <2>1, <2>2, <2>3, <2>4, <2>5, <2>6, StepCases
<1>. QED
  BY <1>1, <1>2

LEMMA StartMaps ==
  ASSUME TypeInv, NEW d \in Dispatchers, Start(d)
  PROVE  Walks!Start(d, "this")
<1>1. /\ pc[d] = "idle" /\ UNCHANGED <<slots, size, buffer, base, pointer, window>>
      /\ pc' = [pc EXCEPT ![d] = "count"] /\ called' = [called EXCEPT ![d] = {}]
      /\ removals' = [removals EXCEPT ![d] = 0] /\ wild' = [wild EXCEPT ![d] = FALSE]
  BY DEF Start, Goto, listVars
<1>2. Stage[d] = "idle" /\ Stage' = [Stage EXCEPT ![d] = "count"]
  BY <1>1 DEF Stage, TypeInv, TypeOK
<1>3. At' = [At EXCEPT ![d] = "this"]
  BY <1>1 DEF At, Walking, TypeInv, TypeOK
<1>4. UNCHANGED <<Lists, pointer, HasCalled, Recent, Gone, Moved, Wild>>
  <2>1. UNCHANGED <<Lists, pointer>>
    BY <1>1 DEF Lists, Listed
  <2>2. UNCHANGED <<HasCalled, Gone>>
    BY <1>1 DEF HasCalled, Gone, Walking, TypeInv, TypeOK
  <2>3. UNCHANGED <<Recent, Moved>>
    BY <1>1 DEF Recent, Moved, TypeInv, TypeOK
  <2>4. UNCHANGED Wild
    BY <1>1 DEF Wild, Walking, TypeInv, TypeOK
  <2>. QED
    BY <2>1, <2>2, <2>3, <2>4
<1>. QED
  BY <1>2, <1>3, <1>4 DEF Walks!Start, Lists, At, Stage, HasCalled, Recent, Gone, Moved, Wild

\* Ahead of the index somebody uncalled is listed.
LEMMA CountMaps ==
  ASSUME TypeInv, WalkInv, MissInv, NEW d \in Dispatchers, Count(d)
  PROVE  Walks!Count(d) \/ Walks!End(d)
<1>1. /\ pc[d] = "count" /\ UNCHANGED <<slots, size, buffer, index, base, pointer, called, wild, removals>>
      /\ pc' = [pc EXCEPT ![d] = IF index[d] < size THEN "load" ELSE "idle"]
      /\ window' = [window EXCEPT ![d] = Listed]
  BY DEF Count, Continue, Goto, listVars
<1>2. Stage[d] = "count" /\ UNCHANGED <<Lists, pointer, Moved>>
  BY <1>1 DEF Stage, Lists, Listed, Moved, TypeInv, TypeOK
<1>3. Lists[At[d]] = Listed /\ HasCalled[d] = called[d] /\ Gone[d] = removals[d] /\ Wild[d] = wild[d]
  BY <1>1 DEF Lists, At, HasCalled, Gone, Wild, Walking, TypeInv, TypeOK
<1>4. CASE index[d] < size
  <2>1. Stage' = [Stage EXCEPT ![d] = "pick"] /\ Recent' = [Recent EXCEPT ![d] = Lists[At[d]]]
    <3>1. Recent' = [Recent EXCEPT ![d] = Listed]
      BY <1>1, <1>4 DEF Recent, TypeInv, TypeOK
    <3>2. Stage' = [Stage EXCEPT ![d] = "pick"]
      BY <1>1, <1>4 DEF Stage, TypeInv, TypeOK
    <3>. QED
      BY <1>3, <3>1, <3>2
  <2>2. UNCHANGED <<At, HasCalled, Gone, Wild>>
    BY <1>1, <1>4 DEF At, HasCalled, Gone, Wild, Walking, TypeInv, TypeOK
  <2>3. slots[index[d] + 1] \in Listed \ called[d]
    <3>1. index[d] \in Nat /\ size \in Nat
      BY PassedFinite
    <3>2. index[d] + 1 \in 1..size /\ index[d] + 1 \in index[d] + 1 .. size
      BY <1>4, <3>1
    <3>. QED
      BY <1>1, <3>2 DEF WalkInv, AheadFresh, Listed
  <2>4. ~(Lists[At[d]] \subseteq HasCalled[d])
    BY <1>3, <2>3
  <2>5. Walks!Count(d)
    BY <1>2, <2>1, <2>2, <2>4
    DEF Walks!Count, Lists, At, Stage, HasCalled, Recent, Gone, Moved, Wild
  <2>. QED
    BY <2>5
<1>5. CASE ~(index[d] < size)
  <2>1. Stage' = [Stage EXCEPT ![d] = "idle"] /\ At' = [At EXCEPT ![d] = "none"]
    <3>1. Stage' = [Stage EXCEPT ![d] = "idle"]
      BY <1>1, <1>5 DEF Stage, TypeInv, TypeOK
    <3>2. At' = [At EXCEPT ![d] = "none"]
      BY <1>1, <1>5 DEF At, Walking, TypeInv, TypeOK
    <3>. QED
      BY <3>1, <3>2
  <2>2. /\ HasCalled' = [HasCalled EXCEPT ![d] = {}] /\ Gone' = [Gone EXCEPT ![d] = 0]
        /\ Wild' = [Wild EXCEPT ![d] = FALSE]
    BY <1>1, <1>5 DEF HasCalled, Gone, Wild, Walking, TypeInv, TypeOK
  <2>3. UNCHANGED Recent
    BY <1>1, <1>5 DEF Recent, TypeInv, TypeOK
  <2>4. Wild[d] \/ Cardinality(Lists[At[d]] \ HasCalled[d]) <= Gone[d]
    BY <1>1, <1>3, <1>5, MissesAtTheEnd
  <2>5. Walks!End(d)
    BY <1>2, <2>1, <2>2, <2>3, <2>4, SameCardinality
    DEF Walks!End, Lists, At, Stage, HasCalled, Recent, Gone, Moved, Wild
  <2>. QED
    BY <2>5
<1>. QED
  BY <1>4, <1>5

LEMMA LoadMaps ==
  ASSUME TypeInv, NEW d \in Dispatchers, Load(d)
  PROVE  UNCHANGED Walks!vars
<1>1. /\ pc[d] = "load" /\ pc' = [pc EXCEPT ![d] = "read"] /\ base' = [base EXCEPT ![d] = buffer]
      /\ UNCHANGED <<slots, size, buffer, pointer, wild, called, removals, window>>
  BY DEF Load, Goto, listVars, historyVars
<1>2. UNCHANGED <<Lists, pointer>>
  BY <1>1 DEF Lists, Listed
<1>3. UNCHANGED <<At, HasCalled, Gone, Wild>>
  BY <1>1 DEF At, HasCalled, Gone, Wild, Walking, TypeInv, TypeOK
<1>4. UNCHANGED <<Stage, Recent>>
  BY <1>1 DEF Stage, Recent, TypeInv, TypeOK
<1>5. UNCHANGED Moved
  BY <1>1 DEF Moved, TypeInv, TypeOK
<1>. QED
  BY <1>2, <1>3, <1>4, <1>5 DEF Walks!vars, Lists, At, Stage, HasCalled, Recent, Gone, Moved, Wild

LEMMA ReadMaps ==
  ASSUME TypeInv, WalkInv, PointerGone, NEW d \in Dispatchers, Read(d)
  PROVE  Walks!PickWild(d) \/ \E s \in Objects : Walks!Pick(d, s)
<1>1. /\ pc[d] = "read" /\ pc' = [pc EXCEPT ![d] = "call"]
      /\ UNCHANGED <<slots, size, buffer, called, removals, window>>
      /\ base' = [base EXCEPT ![d] = 0]
  BY DEF Read, Goto, listVars, historyVars
<1>2. /\ Stage[d] = "pick" /\ Recent[d] = window[d] /\ HasCalled[d] = called[d]
      /\ Moved[d] = (base[d] # buffer)
  BY <1>1 DEF Stage, Recent, HasCalled, Moved, Walking
<1>3. Stage' = [Stage EXCEPT ![d] = "call"] /\ Recent' = [Recent EXCEPT ![d] = {}]
  BY <1>1 DEF Stage, Recent, TypeInv, TypeOK
<1>4. UNCHANGED <<Lists, At, HasCalled, Gone>>
  BY <1>1 DEF Lists, Listed, At, HasCalled, Gone, Walking, TypeInv, TypeOK
<1>5. CASE base[d] = buffer
  <2>1. slots[index[d] + 1] \in window[d] \ called[d]
    BY <1>1 DEF WalkInv, SlotFresh, Reading
  <2>2. PICK s \in Objects : s = slots[index[d] + 1]
    BY <2>1 DEF TypeInv, TypeOK
  <2>3. pointer' = [pointer EXCEPT ![d] = s] /\ UNCHANGED wild
    BY <1>5, <2>2 DEF Read
  <2>4. UNCHANGED Wild
    BY <1>1, <2>3 DEF Wild, Walking, TypeInv, TypeOK
  <2>5. UNCHANGED Moved
    BY <1>1, <1>5 DEF Moved, TypeInv, TypeOK
  <2>6. Walks!Pick(d, s)
    BY <1>2, <1>3, <1>4, <1>5, <2>1, <2>2, <2>3, <2>4, <2>5
    DEF Walks!Pick, Lists, At, Stage, HasCalled, Recent, Gone, Moved, Wild
  <2>. QED
    BY <2>6
<1>6. CASE base[d] # buffer
  <2>1. pointer' = [pointer EXCEPT ![d] = Garbage] /\ wild' = [wild EXCEPT ![d] = TRUE]
    BY <1>6 DEF Read
  <2>2. UNCHANGED pointer
    BY <1>1, <2>1 DEF PointerGone, TypeInv, TypeOK
  <2>3. Wild' = [Wild EXCEPT ![d] = TRUE]
    BY <1>1, <2>1 DEF Wild, Walking, TypeInv, TypeOK
  <2>4. Moved' = [Moved EXCEPT ![d] = FALSE]
    BY <1>1 DEF Moved, TypeInv, TypeOK
  <2>5. Walks!PickWild(d)
    BY <1>2, <1>3, <1>4, <1>6, <2>2, <2>3, <2>4
    DEF Walks!PickWild, Lists, At, Stage, HasCalled, Recent, Gone, Moved, Wild
  <2>. QED
    BY <2>5
<1>. QED
  BY <1>5, <1>6

LEMMA CallMaps ==
  ASSUME TypeInv, NEW d \in Dispatchers, Call(d)
  PROVE  Walks!Call(d)
<1>1. /\ pc[d] = "call" /\ pc' = [pc EXCEPT ![d] = "count"]
      /\ UNCHANGED <<slots, size, buffer, base, wild, removals>>
      /\ called' = [called EXCEPT ![d] = called[d] \cup ({pointer[d]} \ {Garbage})]
      /\ pointer' = [pointer EXCEPT ![d] = Garbage]
      /\ window' = [window EXCEPT ![d] = {}]
  BY DEF Call, Goto, listVars
<1>2. Stage[d] = "call" /\ Stage' = [Stage EXCEPT ![d] = "count"]
  BY <1>1 DEF Stage, TypeInv, TypeOK
<1>3. HasCalled' = [HasCalled EXCEPT ![d] = @ \cup ({pointer[d]} \ {Garbage})]
  BY <1>1 DEF HasCalled, Walking, TypeInv, TypeOK
<1>4. UNCHANGED <<Lists, At, Gone, Wild>>
  BY <1>1 DEF Lists, Listed, At, Gone, Wild, Walking, TypeInv, TypeOK
<1>5. UNCHANGED <<Recent, Moved>>
  BY <1>1 DEF Recent, Moved, TypeInv, TypeOK
<1>. QED
  BY <1>1, <1>2, <1>3, <1>4, <1>5
  DEF Walks!Call, Lists, At, Stage, HasCalled, Recent, Gone, Moved, Wild

LEMMA NextMapsToWalks ==
  TypeInv /\ WalkInv /\ MissInv /\ PointerGone /\ [Next]_vars => [Walks!Next]_(Walks!vars)
<1>. SUFFICES ASSUME TypeInv, WalkInv, MissInv, PointerGone, [Next]_vars
              PROVE  Walks!Next \/ UNCHANGED Walks!vars
  OBVIOUS
<1>1. ASSUME NEW o \in Objects, New(o) \/ Delete(o)
      PROVE  UNCHANGED Walks!vars
  <2>1. UNCHANGED <<listVars, loopVars, historyVars>>
    BY <1>1 DEF New, Delete, Destroy
  <2>2. UNCHANGED <<slots, size, buffer, pc, base, pointer, wild, called, removals, window>>
    BY <2>1 DEF listVars, loopVars, historyVars
  <2>. QED
    BY <2>2 DEF Walks!vars, Walking, Listed
<1>2. CASE UNCHANGED vars
  BY <1>2 DEF vars, Walks!vars, Walking, Listed
<1>3. ASSUME NEW o \in Objects, AddSubscriber(o) \/ Remove(o)
      PROVE  Walks!Next
  BY <1>3, AddMapsToJoin, RemoveMapsToLeave DEF Walks!Next
<1>4. ASSUME NEW d \in Dispatchers, Start(d) \/ Count(d) \/ Read(d) \/ Call(d)
      PROVE  Walks!Next
  BY <1>4, StartMaps, CountMaps, ReadMaps, CallMaps DEF Walks!Next
<1>. QED
  BY <1>1, <1>2, <1>3, <1>4, LoadMaps, StepCases

(* The vector with its slots, its moving buffer and its unlocked readers    *)
(* implements the set of subscribers FanOut describes.                      *)
THEOREM ImplementsFanOut == Spec => FanOutSpec
  BY TypeInvHolds, InitWalk, NextWalk, InitMiss, NextMiss, PointerGoneInductive,
     InitMapsToWalks, NextMapsToWalks, PTL
  DEF Spec, FanOutSpec, Walks!Spec
=============================================================================
