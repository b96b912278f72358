---------------------------- MODULE DispatchQueue ----------------------------
(***************************************************************************)
(* The broker's message queue and its pool of dispatcher threads           *)
(* (Broker.cpp): EnqueueMessage pushes under m_queueMutex and notifies     *)
(* m_condition after unlocking; dispatcher_task waits on m_condition with  *)
(* a predicate, pops, looks the topic up and hands the message over;       *)
(* ~Broker cancels, notifies all and joins.                                *)
(*                                                                         *)
(* A step is what one thread does between two points where another thread *)
(* can interfere.  The predicate of Condition.wait takes two steps,        *)
(* Token.IsCanceled() being read before MessageQueue.empty(): the token    *)
(* has a mutex of its own, so ~Broker can cancel in between.  The pop      *)
(* takes two as well (front, then pop).                                    *)
(*                                                                         *)
(* A message is its number in the order of EnqueueMessage calls and its    *)
(* topic; the JSON body is immaterial here.  The fan-out of one message    *)
(* over the topic's subscribers is the single step Deliver: module         *)
(* SubscriberList models its inside.                                       *)
(***************************************************************************)
EXTENDS Naturals, Sequences, FiniteSets

CONSTANTS
  Dispatchers,    \* threads in m_dispatchers (1000 of them in the code)
  Publishers,     \* threads that call Broker::EnqueueMessage
  Topics,         \* topic tags
  MaxMessages,    \* bound on the number of EnqueueMessage calls
  DestructorRuns, \* TRUE iff ~Broker is called; the shipped program never does
  NoThread,       \* m_queueMutex is free
  NoMessage       \* a dispatcher's local `message` is not set

Message == [id : 1..MaxMessages, topic : Topics]

ASSUME DispatchersFinite == IsFiniteSet(Dispatchers)
ASSUME PublishersFinite == IsFiniteSet(Publishers)
ASSUME MaxMessagesNat == MaxMessages \in Nat
ASSUME NoThreadNotDispatcher == NoThread \notin Dispatchers
ASSUME NoMessageNotMessage == NoMessage \notin Message

VARIABLES
  queue,      \* m_messageQueue
  holder,     \* the dispatcher that owns m_queueMutex, or NoThread
  cancel,     \* m_cancelationToken.m_cancel
  known,      \* keys of m_topics: AddSubscription adds them, nothing erases them
  pc,         \* where each dispatcher is in dispatcher_task
  sawCancel,  \* what the predicate's Token.IsCanceled() last returned to it
  held,       \* each dispatcher's local `message`
  toNotify,   \* publishers between queueLock.unlock() and notify_one()
  stage,      \* progress of ~Broker
  sent,       \* history: number of messages pushed
  promised,   \* history: ids of messages whose topic was known when pushed
  delivered,  \* history: ids handed over to their topic's subscribers
  dropped     \* history: ids discarded because the topic was unknown

brokerVars == <<cancel, known, stage>>
threadVars == <<pc, sawCancel, held>>
historyVars == <<sent, promised, delivered, dropped>>
vars == <<queue, holder, cancel, known, pc, sawCancel, held, toNotify, stage,
          sent, promised, delivered, dropped>>

Locations ==
  {"lock",    \* about to acquire m_queueMutex: at the loop head, or woken up
   "test",    \* in the predicate, between IsCanceled() and empty()
   "wait",    \* blocked in Condition.wait, m_queueMutex released
   "recheck", \* before `if (data.Token.IsCanceled() && ...) return`
   "front",   \* before MessageQueue.front()
   "pop",     \* before MessageQueue.pop()
   "find",    \* before Topics.find(message.first)
   "deliver", \* in the loop over the topic's subscribers
   "dead",    \* returned because the topic is unknown
   "exited"}  \* returned because of the cancellation

Init ==
  /\ queue = <<>>
  /\ holder = NoThread
  /\ cancel = FALSE
  /\ known = {}
  /\ pc = [d \in Dispatchers |-> "lock"]
  /\ sawCancel = [d \in Dispatchers |-> FALSE]
  /\ held = [d \in Dispatchers |-> NoMessage]
  /\ toNotify = {}
  /\ stage = "alive"
  /\ sent = 0
  /\ promised = {}
  /\ delivered = {}
  /\ dropped = {}

Goto(d, l) == pc' = [pc EXCEPT ![d] = l]

Sleeping == {d \in Dispatchers : pc[d] = "wait"}
Stopped == {d \in Dispatchers : pc[d] \in {"dead", "exited"}}

-----------------------------------------------------------------------------
(* EnqueueMessage and AddSubscription, called by the connection threads.   *)

\* queueLock, push, unlock.  MaxMessages is the model's bound.
Enqueue(t) ==
  /\ stage = "alive"
  /\ holder = NoThread
  /\ sent < MaxMessages
  /\ queue' = Append(queue, [id |-> sent + 1, topic |-> t])
  /\ sent' = sent + 1
  /\ promised' = IF t \in known THEN promised \cup {sent + 1} ELSE promised
  /\ UNCHANGED <<brokerVars, threadVars, holder, delivered, dropped>>

\* Fault: the notification is forgotten.
PushWithoutNotify(p, t) == p \notin toNotify /\ Enqueue(t) /\ UNCHANGED toNotify

\* The locked push; the notification is still to come.
Push(p, t) == p \notin toNotify /\ Enqueue(t) /\ toNotify' = toNotify \cup {p}

\* m_condition.notify_one(), after the unlock: any one sleeper wakes up.
Notify(p) ==
  /\ p \in toNotify
  /\ toNotify' = toNotify \ {p}
  /\ IF Sleeping = {}
     THEN UNCHANGED pc
     ELSE \E d \in Sleeping : Goto(d, "lock")
  /\ UNCHANGED <<brokerVars, historyVars, queue, holder, sawCancel, held>>

\* AddSubscription inserts a new key into m_topics.
AddTopic(t) ==
  /\ stage = "alive"
  /\ t \notin known
  /\ known' = known \cup {t}
  /\ UNCHANGED <<threadVars, historyVars, queue, holder, cancel, toNotify, stage>>

-----------------------------------------------------------------------------
(* dispatcher_task.                                                        *)

\* unique_lock at the loop head, or the re-acquisition inside wait(), and
\* Token.IsCanceled() in the predicate.
Lock(d) ==
  /\ pc[d] = "lock"
  /\ holder = NoThread
  /\ holder' = d
  /\ sawCancel' = [sawCancel EXCEPT ![d] = cancel]
  /\ Goto(d, "test")
  /\ UNCHANGED <<brokerVars, historyVars, queue, held, toNotify>>

\* wait() goes on with the mutex held, or releases it and blocks in one step.
WaitUnless(d, goOn) ==
  /\ pc[d] = "test"
  /\ Goto(d, IF goOn THEN "recheck" ELSE "wait")
  /\ holder' = IF goOn THEN holder ELSE NoThread
  /\ UNCHANGED <<brokerVars, historyVars, queue, sawCancel, held, toNotify>>

\* Fault: the predicate forgets the cancellation.
TestIgnoringCancel(d) == WaitUnless(d, queue # <<>>)

\* The rest of the predicate.
Test(d) == WaitUnless(d, sawCancel[d] \/ queue # <<>>)

\* A condition variable may wake up without a notification.
SpuriousWakeup(d) ==
  /\ pc[d] = "wait"
  /\ Goto(d, "lock")
  /\ UNCHANGED <<brokerVars, historyVars, queue, holder, sawCancel, held, toNotify>>

ReturnIf(d, finished) ==
  /\ pc[d] = "recheck"
  /\ Goto(d, IF finished THEN "exited" ELSE "front")
  /\ holder' = IF finished THEN NoThread ELSE holder
  /\ UNCHANGED <<brokerVars, historyVars, queue, sawCancel, held, toNotify>>

\* Fault: a cancelled dispatcher leaves without draining the queue.
RecheckWithoutDraining(d) == ReturnIf(d, cancel)

\* Fault: there must be a message, since wait() has returned.
RecheckNothing(d) == ReturnIf(d, FALSE)

\* `if (IsCanceled() && empty()) return;`
Recheck(d) == ReturnIf(d, cancel /\ queue = <<>>)

Copy(d, m) ==
  /\ held' = [held EXCEPT ![d] = m]
  /\ Goto(d, "pop")
  /\ UNCHANGED <<brokerVars, historyVars, queue, holder, sawCancel, toNotify>>

\* Fault: the youngest message is taken, as from a stack.
FrontTakesYoungest(d) == pc[d] = "front" /\ Copy(d, queue[Len(queue)])

\* message = MessageQueue.front().  On an empty queue this is undefined:
\* NoPopFromEmpty shows that it does not happen.
Front(d) == pc[d] = "front" /\ Copy(d, Head(queue))

\* MessageQueue.pop(), and the end of the lock's scope.
Pop(d) ==
  /\ pc[d] = "pop"
  /\ queue' = Tail(queue)
  /\ holder' = NoThread
  /\ Goto(d, "find")
  /\ UNCHANGED <<brokerVars, historyVars, sawCancel, held, toNotify>>

\* Discarding the message ends the whole thread, not just its handling.
Return(d) ==
  /\ Goto(d, "dead")
  /\ held' = [held EXCEPT ![d] = NoMessage]
  /\ dropped' = dropped \cup {held[d].id}

DeliverIf(d, found) ==
  /\ \/ found /\ Goto(d, "deliver") /\ UNCHANGED <<held, dropped>>
     \/ ~found /\ Return(d)
  /\ UNCHANGED <<brokerVars, queue, holder, sawCancel, toNotify, sent,
                 promised, delivered>>

\* Fault: the outcome of the lookup is tested the wrong way round.
FindInverted(d) == pc[d] = "find" /\ DeliverIf(d, held[d].topic \notin known)

\* The lookup under m_topicMutex, and `if (topic == end()) return;`.
Find(d) == pc[d] = "find" /\ DeliverIf(d, held[d].topic \in known)

HandOver(d) ==
  /\ pc[d] = "deliver"
  /\ delivered' = delivered \cup {held[d].id}
  /\ UNCHANGED <<brokerVars, queue, holder, sawCancel, toNotify, sent,
                 promised, dropped>>

\* Fault: the thread returns after each message, found or not.
FinishAndReturn(d) == HandOver(d) /\ Goto(d, "dead")

FinishDelivery(d) == HandOver(d) /\ Goto(d, "lock")

\* Fault: `message` outlives the iteration.
DeliverKeepsMessage(d) == FinishDelivery(d) /\ UNCHANGED held

\* The loop over the subscribers returns; back to the loop head.
Deliver(d) == FinishDelivery(d) /\ held' = [held EXCEPT ![d] = NoMessage]

-----------------------------------------------------------------------------
(* ~Broker.  Destroying an object that another thread is still calling is  *)
(* undefined, so no EnqueueMessage overlaps it.                            *)

Cancel ==
  /\ DestructorRuns
  /\ stage = "alive"
  /\ toNotify = {}
  /\ cancel' = TRUE
  /\ stage' = "cancelled"
  /\ UNCHANGED <<threadVars, historyVars, queue, holder, known, toNotify>>

NotifyAll ==
  /\ stage = "cancelled"
  /\ pc' = [d \in Dispatchers |-> IF pc[d] = "wait" THEN "lock" ELSE pc[d]]
  /\ stage' = "notified"
  /\ UNCHANGED <<historyVars, queue, holder, cancel, known, sawCancel, held, toNotify>>

\* The joins block one after the other and change nothing: together they
\* return once every dispatcher has returned.
Join ==
  /\ stage = "notified"
  /\ Stopped = Dispatchers
  /\ stage' = "joined"
  /\ UNCHANGED <<threadVars, historyVars, queue, holder, cancel, known, toNotify>>

-----------------------------------------------------------------------------

DispatcherStep(d) ==
  Lock(d) \/ Test(d) \/ Recheck(d) \/ Front(d) \/ Pop(d) \/ Find(d)

Next ==
  \/ \E p \in Publishers, t \in Topics : Push(p, t)
  \/ \E p \in Publishers : Notify(p)
  \/ \E t \in Topics : AddTopic(t)
  \/ \E d \in Dispatchers : DispatcherStep(d)
  \/ \E d \in Dispatchers : SpuriousWakeup(d)
  \/ \E d \in Dispatchers : Deliver(d)
  \/ Cancel \/ NotifyAll \/ Join

Spec == Init /\ [][Next]_vars

\* A thread that can run does run.  Nothing makes clients publish or
\* subscribe, nothing makes a wake-up spurious, and nothing makes Deliver
\* return: it calls a blocking send() on a client's socket.
Fairness ==
  /\ \A p \in Publishers : WF_vars(Notify(p))
  /\ \A d \in Dispatchers : WF_vars(DispatcherStep(d))
  /\ WF_vars(NotifyAll) /\ WF_vars(Join)

FairSpec == Spec /\ Fairness

-----------------------------------------------------------------------------

(* Types; `message` is set exactly from front() to the end of the iteration. *)
TypeOK ==
  /\ queue \in Seq(Message)
  /\ holder \in Dispatchers \cup {NoThread}
  /\ cancel \in BOOLEAN
  /\ known \subseteq Topics
  /\ pc \in [Dispatchers -> Locations]
  /\ sawCancel \in [Dispatchers -> BOOLEAN]
  /\ held \in [Dispatchers -> Message \cup {NoMessage}]
  /\ toNotify \subseteq Publishers
  /\ stage \in {"alive", "cancelled", "notified", "joined"}
  /\ sent \in 0..MaxMessages
  /\ promised \subseteq 1..MaxMessages
  /\ delivered \subseteq 1..MaxMessages
  /\ dropped \subseteq 1..MaxMessages
  /\ \A d \in Dispatchers : held[d] # NoMessage <=> pc[d] \in {"pop", "find", "deliver"}

\* Dispatchers that will look at the queue before they can block.
Checking ==
  {d \in Dispatchers : pc[d] \in {"lock", "test", "recheck", "front", "pop"}}

\* Dispatchers that own a message popped from the queue.
Taking == {d \in Dispatchers : pc[d] \in {"find", "deliver"}}

Settled == delivered \cup dropped
TakenCount == sent - Len(queue)

(* No lost wake-up.  notify_one() runs after the unlock and each push sends *)
(* one: while some dispatcher sleeps, every queued message has a dispatcher *)
(* of its own on the way to the queue, or a publisher about to notify one.  *)
WakeCoverage ==
  Sleeping # {} => Len(queue) <= Cardinality(Checking) + Cardinality(toNotify)

(* front() and pop() never run on an empty queue, although the emptiness    *)
(* test and the two calls are separate and the token, which ~Broker cancels *)
(* without the queue's mutex, is read once before the test (line 39) and    *)
(* once after it (line 42).                                                 *)
NoPopFromEmpty ==
  \A d \in Dispatchers : pc[d] \in {"front", "pop"} => queue # <<>>

(* Each pushed message is in exactly one place: still queued, owned by one  *)
(* dispatcher, or settled.  No two dispatchers process the same message and *)
(* none disappears between front() and pop().                               *)
ExactlyOnce ==
  /\ \A c, d \in Taking : held[c].id = held[d].id => c = d
  /\ \A d \in Taking : held[d].id \notin Settled
  /\ {held[d].id : d \in Taking} \cup Settled = 1..TakenCount
  /\ delivered \cap dropped = {}

(* Dispatchers work side by side and their handling of messages may finish  *)
(* in any order, but not by much: when a message is settled, fewer messages *)
(* before it than there are dispatchers are still to be settled.            *)
OvertakingBounded ==
  \A i \in Settled : Cardinality((1..i) \ Settled) < Cardinality(Dispatchers)

(* A dispatcher dies for each discarded message and for no other reason, so *)
(* as many publications on unknown topics as there are dispatchers stop the *)
(* whole broker.                                                            *)
DeathPerDrop ==
  Cardinality({d \in Dispatchers : pc[d] = "dead"}) = Cardinality(dropped)

(* A message published on a topic that had a subscription at the time is    *)
(* never discarded, however late its dispatcher looks the topic up.         *)
PromiseKept == promised \cap dropped = {}

(* Once ~Broker has joined the pool nothing is left in the queue, unless    *)
(* every dispatcher had died of an unknown topic.  (The shipped program     *)
(* never destroys its broker: this is the contract of the class.)           *)
DrainedAtJoin ==
  stage = "joined" =>
    \/ queue = <<>>
    \/ \A d \in Dispatchers : pc[d] = "dead"

(* A queued message is taken in the end, unless from some point on every    *)
(* dispatcher has returned or is stuck in a subscriber's OnReceive.         *)
EventuallyTaken ==
  \A i \in 1..MaxMessages :
    (i <= sent) ~>
      (i <= TakenCount \/ [](\A d \in Dispatchers : pc[d] \in {"dead", "exited", "deliver"}))

\* notify_all() has run and no dispatcher had read the token before Cancel()
\* and not yet blocked: Cancel() does not take m_queueMutex, so the code
\* does not exclude that window.
NotifiedInTime ==
  /\ stage = "notified"
  /\ \A d \in Dispatchers : pc[d] # "wait" /\ (pc[d] = "test" => sawCancel[d])

(* ~Broker returns when its notification missed nobody, unless a dispatcher *)
(* stays in a subscriber's OnReceive.  Of a dispatcher that blocks behind   *)
(* the notification this says nothing: join() would wait for it for ever.   *)
JoinReturns ==
  NotifiedInTime ~>
    (stage = "joined" \/ [](\E d \in Dispatchers : pc[d] = "deliver"))

-----------------------------------------------------------------------------
(* The queue and the pool as a client of the broker may think of them.     *)

Pool == INSTANCE WorkQueue WITH
  Workers <- Dispatchers,
  pending <- queue,
  taken <- [d \in Dispatchers |->
              IF pc[d] \in {"find", "deliver"} THEN held[d] ELSE NoMessage],
  settled <- Settled,
  retired <- Stopped,
  issued <- sent

(* The locks, the condition variable and the pool implement a FIFO work     *)
(* queue whose operations are atomic.                                       *)
PoolSpec == Pool!Spec
=============================================================================
