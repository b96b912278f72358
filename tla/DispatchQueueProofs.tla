------------------------- MODULE DispatchQueueProofs -------------------------
(***************************************************************************)
(* Proofs about DispatchQueue, for any number of dispatchers, publishers,  *)
(* topics and messages, with and without ~Broker.                          *)
(***************************************************************************)
EXTENDS DispatchQueue, FiniteSetTheorems, SequenceTheorems, TLAPS

\* The dispatcher between the lock and the unlock owns the mutex, nobody else.
MutexHeld ==
  \A d \in Dispatchers :
    holder = d <=> pc[d] \in {"test", "recheck", "front", "pop"}

\* The token is never reset, so what the predicate saw still holds.
SawCancelSound == \A d \in Dispatchers : sawCancel[d] => cancel

\* What the predicate established when it let the dispatcher through.
PredicateHolds ==
  \A d \in Dispatchers : pc[d] = "recheck" => cancel \/ queue # <<>>

SafeInv == TypeOK /\ MutexHeld /\ SawCancelSound /\ PredicateHolds /\ NoPopFromEmpty

LEMMA InitSafe == Init => SafeInv
<1>. SUFFICES ASSUME Init PROVE SafeInv
  OBVIOUS
<1>1. queue \in Seq(Message)
  BY EmptySeq DEF Init
<1>2. TypeOK
  <2>1. pc \in [Dispatchers -> Locations] /\ sawCancel \in [Dispatchers -> BOOLEAN]
    BY DEF Init, Locations
  <2>2. held \in [Dispatchers -> Message \cup {NoMessage}]
    BY DEF Init
  <2>3. \A d \in Dispatchers : held[d] # NoMessage <=> pc[d] \in {"pop", "find", "deliver"}
    BY DEF Init
  <2>4. sent \in 0..MaxMessages
    BY MaxMessagesNat DEF Init
  <2>. QED
    BY <1>1, <2>1, <2>2, <2>3, <2>4 DEF Init, TypeOK
<1>. QED
  BY <1>2, NoThreadNotDispatcher
  DEF Init, SafeInv, MutexHeld, SawCancelSound, PredicateHolds, NoPopFromEmpty

\* Every way a step can change the state, for the case splits below.
LEMMA StepCases ==
  ASSUME [Next]_vars
  PROVE  \/ \E p \in Publishers, t \in Topics : Push(p, t)
         \/ \E p \in Publishers : Notify(p)
         \/ \E t \in Topics : AddTopic(t)
         \/ \E d \in Dispatchers : Lock(d) \/ Test(d) \/ SpuriousWakeup(d)
                                   \/ Recheck(d) \/ Front(d) \/ Pop(d)
                                   \/ Find(d) \/ Deliver(d)
         \/ Cancel \/ NotifyAll \/ Join \/ UNCHANGED vars
  BY DEF Next, DispatcherStep

LEMMA NextSafe == SafeInv /\ [Next]_vars => SafeInv'
<1>. SUFFICES ASSUME SafeInv, [Next]_vars
              PROVE  SafeInv'
  OBVIOUS
<1>. USE DEF SafeInv, TypeOK, MutexHeld, SawCancelSound, PredicateHolds,
             NoPopFromEmpty, Locations, brokerVars, threadVars, historyVars, Goto
<1>. USE MaxMessagesNat, NoThreadNotDispatcher, NoMessageNotMessage
<1>1. ASSUME NEW p \in Publishers, NEW t \in Topics, Push(p, t)
      PROVE  SafeInv'
  <2>. DEFINE m == [id |-> sent + 1, topic |-> t]
  <2>1. m \in Message
    BY <1>1 DEF Push, Enqueue, Message
  <2>2. Append(queue, m) \in Seq(Message) /\ Append(queue, m) # <<>>
    BY <2>1, AppendProperties
  <2>. QED
    BY <1>1, <2>2 DEF Push, Enqueue
<1>2. ASSUME NEW p \in Publishers, Notify(p)
      PROVE  SafeInv'
  BY <1>2 DEF Notify, Sleeping
<1>3. ASSUME NEW t \in Topics, AddTopic(t)
      PROVE  SafeInv'
  BY <1>3 DEF AddTopic
<1>4. ASSUME NEW d \in Dispatchers, Lock(d)
      PROVE  SafeInv'
  BY <1>4 DEF Lock
<1>5. ASSUME NEW d \in Dispatchers, Test(d)
      PROVE  SafeInv'
  BY <1>5 DEF Test, WaitUnless
<1>6. ASSUME NEW d \in Dispatchers, SpuriousWakeup(d)
      PROVE  SafeInv'
  BY <1>6 DEF SpuriousWakeup
<1>7. ASSUME NEW d \in Dispatchers, Recheck(d)
      PROVE  SafeInv'
  BY <1>7 DEF Recheck, ReturnIf
<1>8. ASSUME NEW d \in Dispatchers, Front(d)
      PROVE  SafeInv'
  <2>1. Head(queue) \in Message
    BY <1>8, HeadTailProperties DEF Front, Copy
  <2>. QED
    BY <1>8, <2>1 DEF Front, Copy
<1>9. ASSUME NEW d \in Dispatchers, Pop(d)
      PROVE  SafeInv'
  <2>1. Tail(queue) \in Seq(Message)
    BY <1>9, HeadTailProperties DEF Pop
  <2>. QED
    BY <1>9, <2>1 DEF Pop
<1>10. ASSUME NEW d \in Dispatchers, Find(d)
       PROVE  SafeInv'
  <2>1. held[d] \in Message /\ held[d].id \in 1..MaxMessages
    BY <1>10 DEF Find, DeliverIf, Message
  <2>. QED
    BY <1>10, <2>1 DEF Find, DeliverIf, Return
<1>11. ASSUME NEW d \in Dispatchers, Deliver(d)
       PROVE  SafeInv'
  <2>1. held[d] \in Message /\ held[d].id \in 1..MaxMessages
    BY <1>11 DEF Deliver, FinishDelivery, HandOver, Message
  <2>. QED
    BY <1>11, <2>1 DEF Deliver, FinishDelivery, HandOver
<1>12. CASE Cancel
  BY <1>12 DEF Cancel
<1>13. CASE NotifyAll
  BY <1>13 DEF NotifyAll
<1>14. CASE Join
  BY <1>14 DEF Join
<1>15. CASE UNCHANGED vars
  BY <1>15 DEF vars
<1>. QED
  BY <1>1, <1>2, <1>3, <1>4, <1>5, <1>6, <1>7, <1>8, <1>9, <1>10, <1>11,
     <1>12, <1>13, <1>14, <1>15, StepCases

LEMMA SafeInvariant == Spec => []SafeInv
  BY InitSafe, NextSafe, PTL DEF Spec

(* The state of queue, pool and condition variable stays well typed, and a  *)
(* dispatcher's `message` is set exactly while it processes one.            *)
THEOREM TypeCorrect == Spec => []TypeOK
<1>1. SafeInv => TypeOK
  BY DEF SafeInv
<1>. QED
  BY <1>1, SafeInvariant, PTL

(* front() and pop() are never called on an empty queue.                    *)
THEOREM PopsAreSafe == Spec => []NoPopFromEmpty
<1>1. SafeInv => NoPopFromEmpty
  BY DEF SafeInv
<1>. QED
  BY <1>1, SafeInvariant, PTL

-----------------------------------------------------------------------------
(* No lost wake-up.                                                        *)

LEMMA ThreadSetsFinite ==
  ASSUME SafeInv
  PROVE  /\ IsFiniteSet(Checking) /\ Cardinality(Checking) \in Nat
         /\ IsFiniteSet(toNotify) /\ Cardinality(toNotify) \in Nat
         /\ Len(queue) \in Nat
<1>1. Checking \subseteq Dispatchers
  BY DEF Checking
<1>2. toNotify \subseteq Publishers /\ queue \in Seq(Message)
  BY DEF SafeInv, TypeOK
<1>3. Len(queue) \in Nat
  BY <1>2, LenProperties
<1>. QED
  BY <1>1, <1>2, <1>3, DispatchersFinite, PublishersFinite, FS_Subset, FS_CardinalityType

\* Waking a dispatcher up, or sending one back to the loop head, adds one
\* to Checking.
LEMMA OneMoreChecking ==
  ASSUME SafeInv, NEW d \in Dispatchers, d \notin Checking, Goto(d, "lock")
  PROVE  /\ Sleeping' \subseteq Sleeping
         /\ Cardinality(Checking') = Cardinality(Checking) + 1
<1>1. Sleeping' \subseteq Sleeping /\ Checking' = Checking \cup {d}
  BY DEF SafeInv, TypeOK, Goto, Sleeping, Checking
<1>. QED
  BY <1>1, ThreadSetsFinite, FS_AddElement

LEMMA NextCoverage == SafeInv /\ WakeCoverage /\ [Next]_vars => WakeCoverage'
<1>. SUFFICES ASSUME SafeInv, WakeCoverage, [Next]_vars
              PROVE  WakeCoverage'
  OBVIOUS
<1>. USE ThreadSetsFinite DEF WakeCoverage
<1>pc. pc \in [Dispatchers -> Locations] /\ queue \in Seq(Message)
  BY DEF SafeInv, TypeOK
<1>1. ASSUME NEW p \in Publishers, NEW t \in Topics, Push(p, t)
      PROVE  WakeCoverage'
  <2>1. Len(queue') = Len(queue) + 1
    BY <1>1, <1>pc DEF Push, Enqueue
  <2>2. Cardinality(toNotify') = Cardinality(toNotify) + 1
    BY <1>1, FS_AddElement DEF Push, Enqueue
  <2>3. Sleeping' = Sleeping /\ Checking' = Checking
    BY <1>1 DEF Push, Enqueue, threadVars, Sleeping, Checking
  <2>. QED
    BY <2>1, <2>2, <2>3
<1>2. ASSUME NEW p \in Publishers, Notify(p)
      PROVE  WakeCoverage'
  <2>1. Cardinality(toNotify') = Cardinality(toNotify) - 1 /\ queue' = queue
    BY <1>2, FS_RemoveElement DEF Notify
  <2>2. CASE Sleeping = {}
    BY <1>2, <2>2 DEF Notify, Sleeping
  <2>3. ASSUME NEW d \in Sleeping, Goto(d, "lock")
        PROVE  WakeCoverage'
    BY <2>1, <2>3, OneMoreChecking DEF Sleeping, Checking
  <2>. QED
    BY <1>2, <2>2, <2>3 DEF Notify
<1>3. ASSUME NEW d \in Dispatchers, SpuriousWakeup(d) \/ Deliver(d)
      PROVE  WakeCoverage'
  <2>1. d \notin Checking /\ Goto(d, "lock") /\ UNCHANGED <<queue, toNotify>>
    BY <1>3 DEF SpuriousWakeup, Deliver, FinishDelivery, HandOver, Checking
  <2>. QED
    BY <2>1, OneMoreChecking
<1>4. ASSUME NEW d \in Dispatchers, Test(d) \/ Recheck(d)
      PROVE  WakeCoverage'
  <2>1. UNCHANGED <<queue, toNotify>>
    BY <1>4 DEF Test, WaitUnless, Recheck, ReturnIf
  <2>2. CASE queue = <<>>
    <3>1. Len(queue') = 0
      BY <2>1, <2>2
    <3>2. IsFiniteSet(Checking')
      BY DispatchersFinite, FS_Subset DEF Checking
    <3>. QED
      BY <3>1, <3>2, <2>1, FS_CardinalityType
  <2>3. CASE queue # <<>>
    <3>1. Sleeping' = Sleeping /\ Checking' = Checking
      BY <1>4, <2>3, <1>pc DEF Test, WaitUnless, Recheck, ReturnIf, Goto, Sleeping,
                               Checking
    <3>. QED
      BY <3>1, <2>1
  <2>. QED
    BY <2>2, <2>3
<1>5. ASSUME NEW d \in Dispatchers, Lock(d) \/ Front(d) \/ Find(d)
      PROVE  WakeCoverage'
  <2>1. Sleeping' = Sleeping /\ Checking' = Checking
    BY <1>5, <1>pc DEF Lock, Front, Copy, Find, DeliverIf, Return, Goto,
                       Sleeping, Checking
  <2>2. UNCHANGED <<queue, toNotify>>
    BY <1>5 DEF Lock, Front, Copy, Find, DeliverIf
  <2>. QED
    BY <2>1, <2>2
<1>6. ASSUME NEW d \in Dispatchers, Pop(d)
      PROVE  WakeCoverage'
  <2>1. d \in Checking /\ Checking' = Checking \ {d} /\ Sleeping' = Sleeping
    BY <1>6, <1>pc DEF Pop, Goto, Checking, Sleeping
  <2>2. Cardinality(Checking') = Cardinality(Checking) - 1
    BY <2>1, FS_RemoveElement
  <2>3. queue # <<>>
    BY <1>6 DEF Pop, SafeInv, NoPopFromEmpty
  <2>4. Len(queue') = Len(queue) - 1 /\ toNotify' = toNotify
    BY <1>6, <2>3, <1>pc, HeadTailProperties DEF Pop
  <2>. QED
    BY <2>1, <2>2, <2>4
<1>7. CASE NotifyAll
  <2>1. Sleeping' = {}
    BY <1>7, <1>pc DEF NotifyAll, Sleeping
  <2>. QED
    BY <2>1
<1>8. CASE (\E t \in Topics : AddTopic(t)) \/ Cancel \/ Join \/ UNCHANGED vars
  <2>1. UNCHANGED <<queue, toNotify, pc>>
    BY <1>8 DEF AddTopic, Cancel, Join, vars, threadVars
  <2>. QED
    BY <2>1 DEF Sleeping, Checking
<1>. QED
  BY <1>1, <1>2, <1>3, <1>4, <1>5, <1>6, <1>7, <1>8, StepCases

(* While a dispatcher sleeps, every queued message has a dispatcher on its  *)
(* way to the queue or a notification to come, for any number of threads:   *)
(* notify_one() after the unlock loses no wake-up.                          *)
THEOREM NoLostWakeup == Spec => []WakeCoverage
<1>1. Init => WakeCoverage
  BY DEF Init, WakeCoverage, Sleeping
<1>. QED
  BY <1>1, NextCoverage, SafeInvariant, PTL DEF Spec

-----------------------------------------------------------------------------
(* The pool is a FIFO work queue.                                          *)

\* Between front() and pop() nobody else removes the message: the mutex is
\* held, and pushes append at the other end.
FrontIsHead == \A d \in Dispatchers : pc[d] = "pop" => held[d] = Head(queue)

LEMMA NextFrontIsHead == SafeInv /\ FrontIsHead /\ [Next]_vars => FrontIsHead'
<1>. SUFFICES ASSUME SafeInv, FrontIsHead, [Next]_vars,
                     NEW c \in Dispatchers, pc'[c] = "pop"
              PROVE  held'[c] = Head(queue')
  BY DEF FrontIsHead
<1>. USE DEF FrontIsHead
<1>inv. /\ pc \in [Dispatchers -> Locations] /\ queue \in Seq(Message)
        /\ held \in [Dispatchers -> Message \cup {NoMessage}] /\ MutexHeld
  BY DEF SafeInv, TypeOK
<1>1. ASSUME NEW p \in Publishers, NEW t \in Topics, Push(p, t)
      PROVE  held'[c] = Head(queue')
  <2>1. holder = NoThread /\ UNCHANGED pc
    BY <1>1 DEF Push, Enqueue, threadVars
  <2>. QED
    BY <2>1, <1>inv, NoThreadNotDispatcher DEF MutexHeld
<1>2. ASSUME NEW d \in Dispatchers, Front(d)
      PROVE  held'[c] = Head(queue')
  BY <1>2, <1>inv DEF Front, Copy, Goto, MutexHeld
<1>3. ASSUME NEW d \in Dispatchers, Pop(d)
      PROVE  held'[c] = Head(queue')
  BY <1>3, <1>inv DEF Pop, Goto, MutexHeld
<1>4. ASSUME NEW d \in Dispatchers,
             Lock(d) \/ Test(d) \/ SpuriousWakeup(d) \/ Recheck(d) \/ Find(d) \/ Deliver(d)
      PROVE  held'[c] = Head(queue')
  <2>1. pc[c] = "pop" /\ c # d
    BY <1>4, <1>inv DEF Lock, Test, WaitUnless, SpuriousWakeup, Recheck, ReturnIf,
                        Find, DeliverIf, Return, Deliver, FinishDelivery, HandOver, Goto
  <2>2. held'[c] = held[c] /\ queue' = queue
    BY <1>4, <2>1, <1>inv DEF Lock, Test, WaitUnless, SpuriousWakeup, Recheck,
                              ReturnIf, Find, DeliverIf, Return, Deliver,
                              FinishDelivery, HandOver
  <2>. QED
    BY <2>1, <2>2
<1>5. CASE (\E p \in Publishers : Notify(p)) \/ (\E t \in Topics : AddTopic(t))
           \/ Cancel \/ NotifyAll \/ Join \/ UNCHANGED vars
  <2>1. pc[c] = "pop" /\ UNCHANGED <<queue, held>>
    BY <1>5, <1>inv DEF Notify, AddTopic, Cancel, NotifyAll, Join, vars, threadVars,
                        Goto, Sleeping
  <2>. QED
    BY <2>1
<1>. QED
  BY <1>1, <1>2, <1>3, <1>4, <1>5, StepCases

LEMMA FrontIsHeadInvariant == Spec => [](SafeInv /\ FrontIsHead)
<1>1. Init => FrontIsHead
  BY DEF Init, FrontIsHead
<1>. QED
  BY <1>1, NextFrontIsHead, SafeInvariant, PTL DEF Spec

LEMMA InitMapsToPool == Init => Pool!Init
  BY DEF Init, Pool!Init, Settled, Stopped

LEMMA StepMapsToPool ==
  SafeInv /\ SafeInv' /\ FrontIsHead /\ [Next]_vars => [Pool!Next]_(Pool!vars)
<1>. SUFFICES ASSUME SafeInv, SafeInv', FrontIsHead, [Next]_vars
              PROVE  Pool!Next \/ UNCHANGED Pool!vars
  OBVIOUS
<1>. DEFINE taken == [d \in Dispatchers |->
                        IF pc[d] \in {"find", "deliver"} THEN held[d] ELSE NoMessage]
<1>inv. /\ pc \in [Dispatchers -> Locations] /\ queue \in Seq(Message)
        /\ held \in [Dispatchers -> Message \cup {NoMessage}] /\ NoPopFromEmpty
        /\ \A d \in Dispatchers : held[d] # NoMessage <=> pc[d] \in {"pop", "find", "deliver"}
  BY DEF SafeInv, TypeOK
<1>1. ASSUME NEW p \in Publishers, NEW t \in Topics, Push(p, t)
      PROVE  Pool!Issue(t)
  BY <1>1 DEF Push, Enqueue, Pool!Issue, threadVars, Settled, Stopped
<1>2. ASSUME NEW d \in Dispatchers, Pop(d)
      PROVE  Pool!Take(d)
  <2>1. queue # <<>> /\ held[d] = Head(queue) /\ pc[d] = "pop"
    BY <1>2, <1>inv DEF Pop, FrontIsHead, NoPopFromEmpty
  <2>2. taken' = [taken EXCEPT ![d] = Head(queue)]
    BY <1>2, <2>1, <1>inv DEF Pop, Goto
  <2>3. taken[d] = NoMessage /\ d \notin Stopped /\ Stopped' = Stopped
    BY <1>2, <2>1, <1>inv DEF Pop, Goto, Stopped
  <2>. QED
    BY <1>2, <2>1, <2>2, <2>3 DEF Pop, Pool!Take, historyVars, Settled
<1>3. ASSUME NEW d \in Dispatchers, Find(d)
      PROVE  Pool!Settle(d) \/ UNCHANGED Pool!vars
  <2>1. CASE Goto(d, "deliver") /\ UNCHANGED <<held, dropped>>
    <3>1. taken' = taken /\ Stopped' = Stopped
      BY <1>3, <2>1, <1>inv DEF Find, DeliverIf, Goto, Stopped
    <3>. QED
      BY <1>3, <2>1, <3>1 DEF Find, DeliverIf, Pool!vars, Settled
  <2>2. CASE Return(d)
    <3>1. pc[d] = "find" /\ held[d] # NoMessage
      BY <1>3, <1>inv DEF Find, DeliverIf
    <3>2. taken' = [taken EXCEPT ![d] = NoMessage] /\ Stopped' = Stopped \cup {d}
      BY <2>2, <3>1, <1>inv DEF Return, Goto, Stopped
    <3>3. Settled' = Settled \cup {held[d].id}
      BY <1>3, <2>2 DEF Find, DeliverIf, Return, Settled
    <3>. QED
      BY <1>3, <3>1, <3>2, <3>3 DEF Find, DeliverIf, Pool!Settle
  <2>. QED
    BY <1>3, <2>1, <2>2 DEF Find, DeliverIf
<1>4. ASSUME NEW d \in Dispatchers, Deliver(d)
      PROVE  Pool!Settle(d)
  <2>1. pc[d] = "deliver" /\ held[d] # NoMessage
    BY <1>4, <1>inv DEF Deliver, FinishDelivery, HandOver
  <2>2. taken' = [taken EXCEPT ![d] = NoMessage] /\ Stopped' = Stopped
    BY <1>4, <2>1, <1>inv DEF Deliver, FinishDelivery, HandOver, Goto, Stopped
  <2>3. Settled' = Settled \cup {held[d].id}
    BY <1>4 DEF Deliver, FinishDelivery, HandOver, Settled
  <2>. QED
    BY <1>4, <2>1, <2>2, <2>3 DEF Deliver, FinishDelivery, HandOver, Pool!Settle
<1>5. ASSUME NEW d \in Dispatchers, Recheck(d)
      PROVE  Pool!Retire(d) \/ UNCHANGED Pool!vars
  <2>1. taken' = taken /\ taken[d] = NoMessage
    BY <1>5, <1>inv DEF Recheck, ReturnIf, Goto
  <2>2. CASE queue = <<>> /\ Goto(d, "exited")
    <3>1. Stopped' = Stopped \cup {d}
      BY <1>5, <2>2, <1>inv DEF Recheck, ReturnIf, Goto, Stopped
    <3>. QED
      BY <1>5, <2>1, <2>2, <3>1 DEF Recheck, ReturnIf, Pool!Retire, historyVars, Settled
  <2>3. CASE Goto(d, "front")
    <3>1. Stopped' = Stopped
      BY <1>5, <2>3, <1>inv DEF Recheck, ReturnIf, Goto, Stopped
    <3>. QED
      BY <1>5, <2>1, <3>1 DEF Recheck, ReturnIf, Pool!vars, historyVars, Settled
  <2>. QED
    BY <1>5, <2>2, <2>3 DEF Recheck, ReturnIf
<1>6. ASSUME NEW d \in Dispatchers, Lock(d) \/ Test(d) \/ SpuriousWakeup(d) \/ Front(d)
      PROVE  UNCHANGED Pool!vars
  <2>1. taken' = taken /\ Stopped' = Stopped
    BY <1>6, <1>inv DEF Lock, Test, WaitUnless, SpuriousWakeup, Front, Copy, Goto,
                        Stopped
  <2>. QED
    BY <1>6, <2>1 DEF Lock, Test, WaitUnless, SpuriousWakeup, Front, Copy, Pool!vars,
                      historyVars, Settled
<1>7. CASE (\E p \in Publishers : Notify(p)) \/ (\E t \in Topics : AddTopic(t))
           \/ Cancel \/ NotifyAll \/ Join \/ UNCHANGED vars
  <2>1. taken' = taken /\ Stopped' = Stopped
    BY <1>7, <1>inv DEF Notify, AddTopic, Cancel, NotifyAll, Join, vars, threadVars,
                        Goto, Sleeping, Stopped
  <2>. QED
    BY <1>7, <2>1 DEF Notify, AddTopic, Cancel, NotifyAll, Join, vars, historyVars,
                      Pool!vars, Settled
<1>. QED
  BY <1>1, <1>2, <1>3, <1>4, <1>5, <1>6, <1>7, StepCases DEF Pool!Next

(* Locks, condition variable and pool implement the FIFO work queue: every  *)
(* step of the threads is one of its operations or leaves it alone.         *)
THEOREM PoolRefined == Spec => PoolSpec
<1>1. SafeInv /\ FrontIsHead /\ [Next]_vars => SafeInv'
  BY NextSafe
<1>. QED
  BY <1>1, InitMapsToPool, StepMapsToPool, FrontIsHeadInvariant, PTL
  DEF Spec, PoolSpec, Pool!Spec

-----------------------------------------------------------------------------
(* Each message is in exactly one place.                                   *)

\* The queue holds the youngest messages, in order and without gaps.
QueueIds ==
  /\ TakenCount \in Nat
  /\ \A i \in 1..Len(queue) : queue[i].id = TakenCount + i

OnceInv == QueueIds /\ ExactlyOnce

LEMMA NextOnce == SafeInv /\ FrontIsHead /\ OnceInv /\ [Next]_vars => OnceInv'
<1>. SUFFICES ASSUME SafeInv, FrontIsHead, OnceInv, [Next]_vars
              PROVE  OnceInv'
  OBVIOUS
<1>inv. /\ pc \in [Dispatchers -> Locations] /\ queue \in Seq(Message)
        /\ held \in [Dispatchers -> Message \cup {NoMessage}]
        /\ sent \in Nat /\ Len(queue) \in Nat /\ TakenCount \in Nat
  BY MaxMessagesNat, LenProperties DEF SafeInv, TypeOK, OnceInv, QueueIds
<1>1. ASSUME NEW p \in Publishers, NEW t \in Topics, Push(p, t)
      PROVE  OnceInv'
  <2>. DEFINE m == [id |-> sent + 1, topic |-> t]
  <2>1. m \in Message /\ m.id = sent + 1
    BY <1>1, <1>inv, MaxMessagesNat DEF Push, Enqueue, Message
  <2>2. /\ Len(queue') = Len(queue) + 1
        /\ \A i \in 1..Len(queue) : queue'[i] = queue[i]
        /\ queue'[Len(queue) + 1] = m
    BY <1>1, <1>inv, <2>1, AppendProperties DEF Push, Enqueue
  <2>3. TakenCount' = TakenCount
    BY <1>1, <1>inv, <2>2 DEF Push, Enqueue, TakenCount
  <2>4. ASSUME NEW i \in 1..Len(queue')
        PROVE  queue'[i].id = TakenCount' + i
    <3>1. CASE i \in 1..Len(queue)
      BY <2>2, <2>3, <3>1 DEF OnceInv, QueueIds
    <3>2. CASE i = Len(queue) + 1
      <4>1. TakenCount + i = sent + 1
        BY <1>inv, <3>2 DEF TakenCount
      <4>. QED
        BY <2>1, <2>2, <2>3, <3>2, <4>1
    <3>. QED
      BY <1>inv, <2>2, <3>1, <3>2
  <2>5. Taking' = Taking /\ Settled' = Settled /\ UNCHANGED <<held, delivered, dropped>>
    BY <1>1 DEF Push, Enqueue, threadVars, Taking, Settled
  <2>. QED
    BY <1>inv, <2>3, <2>4, <2>5 DEF OnceInv, QueueIds, ExactlyOnce
<1>2. ASSUME NEW d \in Dispatchers, Pop(d)
      PROVE  OnceInv'
  <2>1. queue # <<>> /\ held[d] = Head(queue) /\ pc[d] = "pop" /\ d \notin Taking
    BY <1>2 DEF Pop, SafeInv, NoPopFromEmpty, FrontIsHead, Taking
  <2>2. /\ Len(queue') = Len(queue) - 1 /\ Len(queue) >= 1
        /\ \A i \in 1..Len(queue') : queue'[i] = queue[i + 1]
        /\ held[d] = queue[1]
    BY <1>2, <1>inv, <2>1, HeadTailProperties DEF Pop
  <2>3. TakenCount' = TakenCount + 1 /\ held[d].id = TakenCount + 1
    <3>1. sent' = sent
      BY <1>2 DEF Pop, historyVars
    <3>2. 1 \in 1..Len(queue)
      BY <1>inv, <2>2
    <3>. QED
      BY <1>inv, <2>2, <3>1, <3>2 DEF TakenCount, OnceInv, QueueIds
  <2>4. \A i \in 1..Len(queue') : queue'[i].id = TakenCount' + i
    BY <1>inv, <2>2, <2>3, SMTT(60) DEF OnceInv, QueueIds
  <2>5. Taking' = Taking \cup {d} /\ UNCHANGED <<held, delivered, dropped>> /\ Settled' = Settled
    BY <1>2, <1>inv DEF Pop, Goto, historyVars, Taking, Settled
  <2>6. \A c \in Taking : held[c].id \in 1..TakenCount
    BY DEF OnceInv, ExactlyOnce
  <2>7. Settled \subseteq 1..TakenCount
    BY DEF OnceInv, ExactlyOnce
  <2>8. 1..TakenCount' = (1..TakenCount) \cup {TakenCount + 1}
    BY <1>inv, <2>3
  <2>9. TakenCount + 1 \notin 1..TakenCount
    BY <1>inv
  <2>10. {held[c].id : c \in Taking'} = {held[c].id : c \in Taking} \cup {TakenCount + 1}
    BY <2>3, <2>5
  <2>11. ExactlyOnce'
    BY <2>3, <2>5, <2>6, <2>7, <2>8, <2>9, <2>10 DEF OnceInv, ExactlyOnce
  <2>. QED
    BY <1>inv, <2>3, <2>4, <2>11 DEF OnceInv, QueueIds
<1>3. ASSUME NEW d \in Dispatchers, d \in Taking, Taking' = Taking \ {d},
             held' = [held EXCEPT ![d] = NoMessage], UNCHANGED <<queue, sent>>,
             \/ delivered' = delivered \cup {held[d].id} /\ dropped' = dropped
             \/ dropped' = dropped \cup {held[d].id} /\ delivered' = delivered
      PROVE  OnceInv'
  <2>1. TakenCount' = TakenCount /\ QueueIds'
    BY <1>3 DEF TakenCount, OnceInv, QueueIds
  <2>2. Settled' = Settled \cup {held[d].id}
    BY <1>3 DEF Settled
  <2>3. \A c \in Taking' : held'[c] = held[c] /\ held[c].id # held[d].id /\ c \in Taking
    BY <1>3, <1>inv DEF Taking, OnceInv, ExactlyOnce
  <2>4. {held'[c].id : c \in Taking'} = {held[c].id : c \in Taking} \ {held[d].id}
    BY <1>3, <2>3
  <2>5. held[d].id \notin Settled /\ held[d].id \in {held[c].id : c \in Taking}
    BY <1>3 DEF OnceInv, ExactlyOnce
  <2>6. delivered' \cap dropped' = {}
    BY <1>3, <2>5 DEF OnceInv, ExactlyOnce, Settled
  <2>7. {held'[c].id : c \in Taking'} \cup Settled' = 1..TakenCount'
    BY <2>1, <2>2, <2>4, <2>5 DEF OnceInv, ExactlyOnce
  <2>8. \A c \in Taking' : held'[c].id \notin Settled'
    BY <2>2, <2>3 DEF OnceInv, ExactlyOnce
  <2>9. \A b, c \in Taking' : held'[b].id = held'[c].id => b = c
    BY <2>3 DEF OnceInv, ExactlyOnce
  <2>. QED
    BY <2>1, <2>6, <2>7, <2>8, <2>9 DEF OnceInv, ExactlyOnce
<1>4. ASSUME Taking' = Taking, UNCHANGED <<queue, sent, delivered, dropped>>,
             \A c \in Taking : held'[c] = held[c]
      PROVE  OnceInv'
  <2>1. TakenCount' = TakenCount /\ QueueIds' /\ Settled' = Settled
    BY <1>4 DEF TakenCount, OnceInv, QueueIds, Settled
  <2>2. {held'[c].id : c \in Taking'} = {held[c].id : c \in Taking}
    BY <1>4
  <2>. QED
    BY <1>4, <2>1, <2>2 DEF OnceInv, ExactlyOnce
<1>5. ASSUME NEW d \in Dispatchers, Find(d)
      PROVE  OnceInv'
  <2>1. CASE Goto(d, "deliver") /\ UNCHANGED <<held, dropped>>
    <3>1. Taking' = Taking
      BY <1>5, <2>1, <1>inv DEF Find, DeliverIf, Goto, Taking
    <3>. QED
      BY <1>4, <1>5, <2>1, <3>1 DEF Find, DeliverIf
  <2>2. CASE Return(d)
    <3>1. d \in Taking /\ Taking' = Taking \ {d}
      BY <1>5, <2>2, <1>inv DEF Find, DeliverIf, Return, Goto, Taking
    <3>. QED
      BY <1>3, <1>5, <2>2, <3>1 DEF Find, DeliverIf, Return
  <2>. QED
    BY <1>5, <2>1, <2>2 DEF Find, DeliverIf
<1>6. ASSUME NEW d \in Dispatchers, Deliver(d)
      PROVE  OnceInv'
  <2>1. d \in Taking /\ Taking' = Taking \ {d}
    BY <1>6, <1>inv DEF Deliver, FinishDelivery, HandOver, Goto, Taking
  <2>. QED
    BY <1>3, <1>6, <2>1 DEF Deliver, FinishDelivery, HandOver
<1>7. ASSUME NEW d \in Dispatchers,
             Lock(d) \/ Test(d) \/ SpuriousWakeup(d) \/ Recheck(d) \/ Front(d)
      PROVE  OnceInv'
  <2>1. Taking' = Taking
    BY <1>7, <1>inv DEF Lock, Test, WaitUnless, SpuriousWakeup, Recheck, ReturnIf,
                        Front, Copy, Goto, Taking
  <2>2. \A c \in Taking : held'[c] = held[c]
    BY <1>7, <1>inv DEF Lock, Test, WaitUnless, SpuriousWakeup, Recheck, ReturnIf,
                        Front, Copy, Taking
  <2>. QED
    BY <1>4, <1>7, <2>1, <2>2 DEF Lock, Test, WaitUnless, SpuriousWakeup, Recheck,
                                  ReturnIf, Front, Copy, historyVars
<1>8. CASE (\E p \in Publishers : Notify(p)) \/ (\E t \in Topics : AddTopic(t))
           \/ Cancel \/ NotifyAll \/ Join \/ UNCHANGED vars
  <2>1. Taking' = Taking
    BY <1>8, <1>inv DEF Notify, AddTopic, Cancel, NotifyAll, Join, vars, threadVars,
                        Goto, Sleeping, Taking
  <2>2. UNCHANGED <<queue, held, sent, delivered, dropped>>
    BY <1>8 DEF Notify, AddTopic, Cancel, NotifyAll, Join, vars, threadVars, historyVars
  <2>. QED
    BY <1>4, <2>1, <2>2
<1>. QED
  BY <1>1, <1>2, <1>5, <1>6, <1>7, <1>8, StepCases

LEMMA InitOnce == Init => OnceInv
<1>. SUFFICES ASSUME Init PROVE OnceInv
  OBVIOUS
<1>1. Len(queue) = 0 /\ sent = 0
  BY EmptySeq DEF Init
<1>2. TakenCount = 0
  BY <1>1 DEF TakenCount
<1>3. Taking = {}
  BY DEF Init, Taking
<1>4. Settled = {} /\ delivered \cap dropped = {}
  BY DEF Init, Settled
<1>5. 1..TakenCount = {} /\ 1..Len(queue) = {}
  BY <1>1, <1>2
<1>6. {held[d].id : d \in Taking} = {}
  BY <1>3
<1>7. QueueIds
  BY <1>2, <1>5 DEF QueueIds
<1>8. ExactlyOnce
  BY <1>3, <1>4, <1>5, <1>6 DEF ExactlyOnce
<1>. QED
  BY <1>7, <1>8 DEF OnceInv

LEMMA OnceInvariant == Spec => [](SafeInv /\ FrontIsHead /\ OnceInv)
<1>1. Init => OnceInv
  BY InitOnce
<1>. QED
  BY <1>1, NextOnce, FrontIsHeadInvariant, PTL DEF Spec

(* However many dispatchers and publishers there are, each message pushed   *)
(* is queued, owned by one dispatcher, or settled, and never two of these.  *)
THEOREM EachMessageOnce == Spec => []ExactlyOnce
<1>1. OnceInv => ExactlyOnce
  BY DEF OnceInv
<1>. QED
  BY <1>1, OnceInvariant, PTL

-----------------------------------------------------------------------------
(* Overtaking.                                                             *)

\* For each settled message some dispatcher is idle, dead or already at work
\* on a later message: the one that settled it.
SettlerMovedOn ==
  \A i \in Settled : \E d \in Dispatchers : d \in Taking => held[d].id > i

LEMMA NextSettlerMovedOn ==
  SafeInv /\ FrontIsHead /\ OnceInv /\ SettlerMovedOn /\ [Next]_vars => SettlerMovedOn'
<1>. SUFFICES ASSUME SafeInv, FrontIsHead, OnceInv, SettlerMovedOn, [Next]_vars,
                     NEW i \in Settled'
              PROVE  \E d \in Dispatchers : d \in Taking' => held'[d].id > i
  BY DEF SettlerMovedOn
<1>inv. /\ pc \in [Dispatchers -> Locations] /\ queue \in Seq(Message)
        /\ held \in [Dispatchers -> Message \cup {NoMessage}]
        /\ TakenCount \in Nat /\ Len(queue) \in Nat
  BY LenProperties DEF SafeInv, TypeOK, OnceInv, QueueIds
<1>1. ASSUME NEW d \in Dispatchers, Find(d) \/ Deliver(d), d \notin Taking'
      PROVE  \E c \in Dispatchers : c \in Taking' => held'[c].id > i
  BY <1>1
<1>2. ASSUME NEW d \in Dispatchers, Find(d) \/ Deliver(d), d \in Taking'
      PROVE  UNCHANGED <<Taking, held, Settled>>
  BY <1>2, <1>inv DEF Find, DeliverIf, Deliver, FinishDelivery, HandOver, Return, Goto,
                      Taking, Settled
<1>3. ASSUME UNCHANGED <<Taking, Settled>>, \A c \in Taking : held'[c] = held[c]
      PROVE  \E c \in Dispatchers : c \in Taking' => held'[c].id > i
  BY <1>3 DEF SettlerMovedOn
<1>4. ASSUME NEW d \in Dispatchers, Pop(d)
      PROVE  \E c \in Dispatchers : c \in Taking' => held'[c].id > i
  <2>1. /\ Taking' = Taking \cup {d} /\ UNCHANGED <<held, Settled>>
    BY <1>4, <1>inv DEF Pop, Goto, historyVars, Taking, Settled
  <2>2. held[d].id = TakenCount + 1
    <3>1. held[d] = Head(queue) /\ queue # <<>> /\ 1 \in 1..Len(queue)
      BY <1>4, <1>inv, HeadTailProperties DEF Pop, FrontIsHead, SafeInv, NoPopFromEmpty
    <3>. QED
      BY <3>1, <1>inv, HeadTailProperties DEF OnceInv, QueueIds
  <2>3. i \in 1..TakenCount
    BY <2>1 DEF OnceInv, ExactlyOnce
  <2>. QED
    BY <2>1, <2>2, <2>3, <1>inv
<1>5. ASSUME NEW d \in Dispatchers,
             Lock(d) \/ Test(d) \/ SpuriousWakeup(d) \/ Recheck(d) \/ Front(d)
      PROVE  \E c \in Dispatchers : c \in Taking' => held'[c].id > i
  <2>1. UNCHANGED <<Taking, Settled>>
    BY <1>5, <1>inv DEF Lock, Test, WaitUnless, SpuriousWakeup, Recheck, ReturnIf,
                        Front, Copy, Goto, historyVars,
                        Taking, Settled
  <2>2. \A c \in Taking : held'[c] = held[c]
    BY <1>5, <1>inv DEF Lock, Test, WaitUnless, SpuriousWakeup, Recheck, ReturnIf,
                        Front, Copy, Taking
  <2>. QED
    BY <1>3, <2>1, <2>2
<1>6. CASE (\E p \in Publishers, t \in Topics : Push(p, t)) \/ (\E p \in Publishers : Notify(p))
           \/ (\E t \in Topics : AddTopic(t)) \/ Cancel \/ NotifyAll \/ Join \/ UNCHANGED vars
  <2>1. UNCHANGED <<Taking, Settled, held>>
    BY <1>6, <1>inv DEF Push, Enqueue, Notify, AddTopic, Cancel, NotifyAll, Join, vars,
                        threadVars,
                        historyVars, Goto, Sleeping, Taking, Settled
  <2>. QED
    BY <1>3, <2>1
<1>. QED
  BY <1>1, <1>2, <1>3, <1>4, <1>5, <1>6, StepCases

LEMMA FewBefore == OnceInv /\ SettlerMovedOn => OvertakingBounded
<1>. SUFFICES ASSUME OnceInv, SettlerMovedOn, NEW i \in Settled
              PROVE  Cardinality((1..i) \ Settled) < Cardinality(Dispatchers)
  BY DEF OvertakingBounded
<1>1. PICK w \in Dispatchers : w \in Taking => held[w].id > i
  BY DEF SettlerMovedOn
<1>. DEFINE before == {d \in Taking : held[d].id \in (1..i) \ Settled}
            f == [d \in before |-> held[d].id]
<1>2. TakenCount \in Nat /\ i \in 1..TakenCount
  BY DEF OnceInv, QueueIds, ExactlyOnce
<1>3. w \notin before /\ before \subseteq Dispatchers \ {w}
  BY <1>1, <1>2 DEF Taking
<1>4. f \in Surjection(before, (1..i) \ Settled)
  <2>1. \A k \in (1..i) \ Settled : \E d \in before : f[d] = k
    BY <1>2 DEF OnceInv, ExactlyOnce
  <2>. QED
    BY <2>1 DEF Surjection
<1>5. IsFiniteSet(Dispatchers \ {w})
      /\ Cardinality(Dispatchers \ {w}) = Cardinality(Dispatchers) - 1
  BY DispatchersFinite, FS_RemoveElement
<1>6. IsFiniteSet(before) /\ Cardinality(before) <= Cardinality(Dispatchers) - 1
  BY <1>3, <1>5, FS_Subset
<1>7. Cardinality((1..i) \ Settled) <= Cardinality(before) /\ IsFiniteSet((1..i) \ Settled)
  BY <1>4, <1>6, FS_Surjection
<1>. QED
  BY <1>6, <1>7, DispatchersFinite, FS_CardinalityType

(* However the dispatchers interleave, a settled message has overtaken      *)
(* fewer messages than there are dispatchers.                               *)
THEOREM FewOvertaken == Spec => []OvertakingBounded
<1>1. Init => SettlerMovedOn
  BY DEF Init, SettlerMovedOn, Settled
<1>. QED
  BY <1>1, NextSettlerMovedOn, FewBefore, OnceInvariant, PTL DEF Spec

-----------------------------------------------------------------------------
(* What happens to messages on known and on unknown topics.                *)

\* What the predicate of PromiseKept rests on: a promised message's topic is
\* known wherever the message is.
PromisedKnown ==
  /\ \A k \in 1..Len(queue) :
       queue[k].id <= sent /\ (queue[k].id \in promised => queue[k].topic \in known)
  /\ \A d \in Dispatchers : held[d] # NoMessage =>
       held[d].id <= sent /\ (held[d].id \in promised => held[d].topic \in known)
  /\ \A i \in promised \cup dropped : i <= sent
  /\ PromiseKept

LEMMA NextPromisedKnown == SafeInv /\ PromisedKnown /\ [Next]_vars => PromisedKnown'
<1>. SUFFICES ASSUME SafeInv, PromisedKnown, [Next]_vars
              PROVE  PromisedKnown'
  OBVIOUS
<1>. USE DEF PromisedKnown, PromiseKept
<1>inv. /\ pc \in [Dispatchers -> Locations] /\ queue \in Seq(Message)
        /\ held \in [Dispatchers -> Message \cup {NoMessage}]
        /\ sent \in Nat /\ Len(queue) \in Nat /\ promised \cup dropped \subseteq Nat
        /\ \A d \in Dispatchers : held[d] # NoMessage <=> pc[d] \in {"pop", "find", "deliver"}
  BY MaxMessagesNat, LenProperties DEF SafeInv, TypeOK
<1>ids. /\ \A k \in 1..Len(queue) : queue[k].id \in Nat
        /\ \A d \in Dispatchers : held[d] # NoMessage => held[d].id \in Nat
  <2>1. \A m \in Message : m.id \in Nat
    BY MaxMessagesNat DEF Message
  <2>2. \A k \in 1..Len(queue) : queue[k] \in Message
    BY <1>inv, ElementOfSeq
  <2>. QED
    BY <1>inv, <2>1, <2>2
<1>1. ASSUME NEW p \in Publishers, NEW t \in Topics, Push(p, t)
      PROVE  PromisedKnown'
  <2>. DEFINE m == [id |-> sent + 1, topic |-> t]
  <2>1. m \in Message /\ m.id = sent + 1 /\ m.topic = t
    BY <1>1, <1>inv, MaxMessagesNat DEF Push, Enqueue, Message
  <2>2. /\ Len(queue') = Len(queue) + 1
        /\ \A k \in 1..Len(queue) : queue'[k] = queue[k]
        /\ queue'[Len(queue) + 1] = m
    BY <1>1, <1>inv, <2>1, AppendProperties DEF Push, Enqueue
  <2>3. /\ sent' = sent + 1 /\ UNCHANGED <<held, known, dropped>>
        /\ promised' \in {promised, promised \cup {sent + 1}}
    BY <1>1 DEF Push, Enqueue, brokerVars, threadVars
  <2>4. sent + 1 \in promised' => t \in known
    <3>1. sent + 1 \notin promised
      BY <1>inv
    <3>. QED
      BY <1>1, <3>1 DEF Push, Enqueue
  <2>. QED
    BY <1>inv, <1>ids, <2>1, <2>2, <2>3, <2>4, SMTT(60)
<1>2. ASSUME NEW d \in Dispatchers, Front(d)
      PROVE  PromisedKnown'
  <2>1. queue # <<>> /\ UNCHANGED <<queue, known, sent, promised, dropped>>
    BY <1>2 DEF Front, Copy, SafeInv, NoPopFromEmpty, brokerVars, historyVars
  <2>2. Head(queue) = queue[1] /\ 1 \in 1..Len(queue)
    BY <1>inv, <2>1, HeadTailProperties
  <2>. QED
    BY <1>2, <1>inv, <2>1, <2>2 DEF Front, Copy
<1>3. ASSUME NEW d \in Dispatchers, Pop(d)
      PROVE  PromisedKnown'
  <2>1. queue # <<>> /\ UNCHANGED <<held, known, sent, promised, dropped>>
    BY <1>3 DEF Pop, SafeInv, NoPopFromEmpty, brokerVars, historyVars
  <2>2. /\ Len(queue') = Len(queue) - 1
        /\ \A k \in 1..Len(queue') : queue'[k] = queue[k + 1] /\ k + 1 \in 1..Len(queue)
    BY <1>3, <1>inv, <2>1, HeadTailProperties DEF Pop
  <2>. QED
    BY <2>1, <2>2
<1>4. ASSUME NEW d \in Dispatchers, Find(d)
      PROVE  PromisedKnown'
  <2>1. UNCHANGED <<queue, known, sent, promised>> /\ held[d] # NoMessage
    BY <1>4, <1>inv DEF Find, DeliverIf, brokerVars
  <2>2. \/ UNCHANGED <<held, dropped>>
        \/ /\ held[d].topic \notin known
           /\ held' = [held EXCEPT ![d] = NoMessage]
           /\ dropped' = dropped \cup {held[d].id}
    BY <1>4 DEF Find, DeliverIf, Return
  <2>. QED
    BY <1>inv, <2>1, <2>2
<1>5. ASSUME NEW d \in Dispatchers, Deliver(d)
      PROVE  PromisedKnown'
  BY <1>5, <1>inv DEF Deliver, FinishDelivery, HandOver, brokerVars
<1>6. ASSUME NEW d \in Dispatchers, Lock(d) \/ Test(d) \/ SpuriousWakeup(d) \/ Recheck(d)
      PROVE  PromisedKnown'
  <2>1. UNCHANGED <<queue, held, known, sent, promised, dropped>>
    BY <1>6 DEF Lock, Test, WaitUnless, SpuriousWakeup, Recheck, ReturnIf, brokerVars,
                historyVars
  <2>. QED
    BY <2>1
<1>7. CASE (\E p \in Publishers : Notify(p)) \/ Cancel \/ NotifyAll \/ Join \/ UNCHANGED vars
  <2>1. UNCHANGED <<queue, held, known, sent, promised, dropped>>
    BY <1>7 DEF Notify, Cancel, NotifyAll, Join, vars, brokerVars, threadVars,
                historyVars
  <2>. QED
    BY <2>1
<1>8. ASSUME NEW t \in Topics, AddTopic(t)
      PROVE  PromisedKnown'
  <2>1. UNCHANGED <<queue, held, sent, promised, dropped>> /\ known \subseteq known'
    BY <1>8 DEF AddTopic, threadVars, historyVars
  <2>. QED
    BY <2>1
<1>. QED
  BY <1>1, <1>2, <1>3, <1>4, <1>5, <1>6, <1>7, <1>8, StepCases

(* A message on a topic known when it was pushed is never discarded,        *)
(* however late its dispatcher looks the topic up.                          *)
THEOREM PromisesKept == Spec => []PromiseKept
<1>1. Init => PromisedKnown
  <2>. SUFFICES ASSUME Init PROVE PromisedKnown
    OBVIOUS
  <2>1. Len(queue) = 0
    BY EmptySeq DEF Init
  <2>. QED
    BY <2>1 DEF Init, PromisedKnown, PromiseKept
<1>2. PromisedKnown => PromiseKept
  BY DEF PromisedKnown
<1>. QED
  BY <1>1, <1>2, NextPromisedKnown, SafeInvariant, PTL DEF Spec

LEMMA NextDeaths ==
  SafeInv /\ OnceInv /\ DeathPerDrop /\ [Next]_vars => DeathPerDrop'
<1>. SUFFICES ASSUME SafeInv, OnceInv, DeathPerDrop, [Next]_vars
              PROVE  DeathPerDrop'
  OBVIOUS
<1>. DEFINE Dead == {d \in Dispatchers : pc[d] = "dead"}
<1>inv. /\ pc \in [Dispatchers -> Locations] /\ NoPopFromEmpty
        /\ dropped \subseteq 1..MaxMessages
  BY DEF SafeInv, TypeOK
<1>fin. IsFiniteSet(Dead) /\ IsFiniteSet(dropped)
  <2>1. IsFiniteSet(1..MaxMessages)
    BY MaxMessagesNat, FS_Interval
  <2>. QED
    BY <2>1, <1>inv, DispatchersFinite, FS_Subset
<1>1. ASSUME Dead' = Dead, dropped' = dropped
      PROVE  DeathPerDrop'
  BY <1>1 DEF DeathPerDrop
<1>2. ASSUME NEW d \in Dispatchers, Find(d), Return(d)
      PROVE  DeathPerDrop'
  <2>1. d \notin Dead /\ Dead' = Dead \cup {d}
    BY <1>2, <1>inv DEF Find, DeliverIf, Return, Goto
  <2>2. held[d].id \notin dropped /\ dropped' = dropped \cup {held[d].id}
    BY <1>2 DEF Find, DeliverIf, Return, OnceInv, ExactlyOnce, Taking, Settled
  <2>3. Cardinality(Dead') = Cardinality(Dead) + 1
    BY <2>1, <1>fin, FS_AddElement
  <2>4. Cardinality(dropped') = Cardinality(dropped) + 1
    BY <2>2, <1>fin, FS_AddElement
  <2>. QED
    BY <2>3, <2>4 DEF DeathPerDrop
<1>3. ASSUME NEW d \in Dispatchers,
             \/ Lock(d) \/ Test(d) \/ SpuriousWakeup(d) \/ Recheck(d) \/ Front(d) \/ Pop(d)
             \/ Deliver(d) \/ (Find(d) /\ Goto(d, "deliver") /\ UNCHANGED dropped)
      PROVE  DeathPerDrop'
  <2>1. Dead' = Dead
    BY <1>3, <1>inv DEF Lock, Test, WaitUnless, SpuriousWakeup, Recheck, ReturnIf,
                        Front, Copy, Pop, Deliver, FinishDelivery, HandOver, Find, DeliverIf, Goto
  <2>2. dropped' = dropped
    BY <1>3 DEF Lock, Test, WaitUnless, SpuriousWakeup, Recheck, ReturnIf, Front, Copy,
                Pop, Deliver, FinishDelivery, HandOver, historyVars
  <2>. QED
    BY <1>1, <2>1, <2>2
<1>4. CASE (\E p \in Publishers, t \in Topics : Push(p, t)) \/ (\E p \in Publishers : Notify(p))
           \/ (\E t \in Topics : AddTopic(t)) \/ Cancel \/ NotifyAll \/ Join \/ UNCHANGED vars
  <2>1. Dead' = Dead
    BY <1>4, <1>inv DEF Push, Enqueue, Notify, AddTopic, Cancel, NotifyAll, Join, vars,
                        threadVars,
                        Goto, Sleeping
  <2>2. dropped' = dropped
    BY <1>4 DEF Push, Enqueue, Notify, AddTopic, Cancel, NotifyAll, Join, vars,
                historyVars
  <2>. QED
    BY <1>1, <2>1, <2>2
<1>5. ASSUME NEW d \in Dispatchers, Find(d)
      PROVE  Return(d) \/ (Goto(d, "deliver") /\ UNCHANGED dropped)
  BY <1>5 DEF Find, DeliverIf
<1>. QED
  BY <1>2, <1>3, <1>4, <1>5, StepCases

(* The pool loses exactly one dispatcher for each discarded message.        *)
THEOREM DeathsAreDrops == Spec => []DeathPerDrop
<1>1. Init => DeathPerDrop
  BY FS_EmptySet DEF Init, DeathPerDrop
<1>. QED
  BY <1>1, NextDeaths, OnceInvariant, PTL DEF Spec

-----------------------------------------------------------------------------
(* ~Broker.                                                                *)

\* A dispatcher leaves for the cancellation only when nothing is queued, and
\* nothing is pushed from then on.
DrainInv ==
  /\ stage = "alive" <=> ~cancel
  /\ \A d \in Dispatchers : pc[d] = "exited" => cancel /\ queue = <<>>
  /\ stage = "joined" => Stopped = Dispatchers

LEMMA NextDrain == SafeInv /\ DrainInv /\ [Next]_vars => DrainInv'
<1>. SUFFICES ASSUME SafeInv, DrainInv, [Next]_vars
              PROVE  DrainInv'
  OBVIOUS
<1>. USE DEF DrainInv
<1>inv. pc \in [Dispatchers -> Locations] /\ NoPopFromEmpty
  BY DEF SafeInv, TypeOK
<1>1. CASE \E p \in Publishers, t \in Topics : Push(p, t)
  BY <1>1 DEF Push, Enqueue, brokerVars, threadVars, Stopped
<1>2. CASE \/ \E p \in Publishers : Notify(p)
           \/ \E d \in Dispatchers : Lock(d) \/ SpuriousWakeup(d) \/ Test(d) \/ Front(d) \/ Deliver(d)
           \/ NotifyAll
  <2>1. queue' = queue /\ cancel' = cancel
    BY <1>2 DEF Notify, Lock, SpuriousWakeup, Test, WaitUnless, Front, Copy, Deliver,
                FinishDelivery, HandOver, NotifyAll, brokerVars
  <2>2. \A c \in Dispatchers : pc'[c] \in {"exited", "dead"} <=> pc[c] \in {"exited", "dead"}
    BY <1>2, <1>inv DEF Notify, Lock, SpuriousWakeup, Test, WaitUnless, Front, Copy,
                        Deliver, FinishDelivery, HandOver, NotifyAll, Goto, Sleeping
  <2>3. \A c \in Dispatchers : pc'[c] = "exited" => pc[c] = "exited"
    BY <1>2, <1>inv DEF Notify, Lock, SpuriousWakeup, Test, WaitUnless, Front, Copy,
                        Deliver, FinishDelivery, HandOver, NotifyAll, Goto, Sleeping
  <2>4. /\ stage' = "alive" <=> stage = "alive"
        /\ stage' = "joined" <=> stage = "joined"
    BY <1>2 DEF Notify, Lock, SpuriousWakeup, Test, WaitUnless, Front, Copy, Deliver,
                FinishDelivery, HandOver, NotifyAll, brokerVars
  <2>. QED
    BY <2>1, <2>2, <2>3, <2>4 DEF Stopped
<1>3. ASSUME NEW d \in Dispatchers, Recheck(d) \/ Find(d)
      PROVE  DrainInv'
  BY <1>3, <1>inv DEF Recheck, ReturnIf, Find, DeliverIf, Return, Goto,
                      brokerVars, Stopped
<1>4. ASSUME NEW d \in Dispatchers, Pop(d)
      PROVE  DrainInv'
  <2>1. queue # <<>> /\ pc[d] = "pop"
    BY <1>4, <1>inv DEF Pop, NoPopFromEmpty
  <2>. QED
    BY <1>4, <1>inv, <2>1 DEF Pop, Goto, brokerVars, Stopped
<1>5. CASE (\E t \in Topics : AddTopic(t)) \/ Cancel \/ Join \/ UNCHANGED vars
  BY <1>5 DEF AddTopic, Cancel, Join, vars, threadVars, Stopped
<1>. QED
  BY <1>1, <1>2, <1>3, <1>4, <1>5, StepCases

(* ~Broker returns with an empty queue unless every dispatcher died of an   *)
(* unknown topic before.                                                    *)
THEOREM DestructorDrains == Spec => []DrainedAtJoin
<1>1. Init => DrainInv
  BY DEF Init, DrainInv
<1>2. DrainInv => DrainedAtJoin
  BY DEF DrainInv, DrainedAtJoin, Stopped
<1>. QED
  BY <1>1, <1>2, NextDrain, SafeInvariant, PTL DEF Spec
=============================================================================
