---------------------------- MODULE BrokerInstance ----------------------------
(***************************************************************************)
(* Which broker a call reaches: Broker::getInstance makes the broker on    *)
(* the first call, and each of AddSubscription, EnqueueMessage and         *)
(* Unsubscribe begins with it.  Connection handlers call it with no lock,  *)
(* so that several may find m_instance null and make a broker each, with a *)
(* queue, topics and dispatchers of its own.                               *)
(*                                                                         *)
(* The test, the assignment and the read for the return are three accesses *)
(* to m_instance.  Brokers are numbered in the order of the assignments.   *)
(* A handler makes one subscription at most, publishes at will and leaves. *)
(***************************************************************************)
EXTENDS Naturals, FiniteSets

CONSTANT Handlers  \* connection threads

ASSUME HandlersFinite == IsFiniteSet(Handlers)

VARIABLES
  instance,  \* m_instance
  made,      \* number of brokers made
  pc,        \* where each handler is
  op,        \* the broker call it is in
  got,       \* what getInstance last returned to it
  alive,     \* handlers whose subscriber exists
  listed,    \* <<b, h>>: broker b has h's subscriber in a list
  racers,    \* history: handlers that found m_instance null
  settled    \* history: those whose call began when no broker was being made

vars == <<instance, made, pc, op, got, alive, listed, racers, settled>>

nullptr == 0

Init ==
  /\ instance = nullptr
  /\ made = 0
  /\ pc = [h \in Handlers |-> "serve"]
  /\ op = [h \in Handlers |-> "EnqueueMessage"]
  /\ got = [h \in Handlers |-> nullptr]
  /\ alive = {}
  /\ listed = {}
  /\ racers = {}
  /\ settled = {}

Goto(h, l) == pc' = [pc EXCEPT ![h] = l]
Creating == {h \in Handlers : pc[h] = "create"}

-----------------------------------------------------------------------------

\* The handler has a message to publish, a subscription to make, or its
\* client has left.
Call(h, o) ==
  /\ pc[h] = "serve"
  /\ \/ o = "EnqueueMessage" /\ UNCHANGED alive
     \/ o = "AddSubscription" /\ h \notin alive /\ alive' = alive \cup {h}
     \/ o = "Unsubscribe" /\ h \in alive /\ UNCHANGED alive
  /\ op' = [op EXCEPT ![h] = o]
  /\ Goto(h, "check")
  /\ UNCHANGED <<instance, made, got, listed, racers, settled>>

\* The outcome of `if (!m_instance)`.
Decide(h, null) ==
  /\ pc[h] = "check"
  /\ Goto(h, IF null THEN "create" ELSE "return")
  /\ racers' = IF null THEN racers \cup {h} ELSE racers
  /\ settled' = IF instance # nullptr /\ Creating = {}
                THEN settled \cup {h} ELSE settled \ {h}
  /\ UNCHANGED <<instance, made, op, got, alive, listed>>

\* Faults: the test is forgotten, or the wrong way round.
CheckNothing(h) == Decide(h, TRUE)
CheckInverted(h) == Decide(h, instance # nullptr)

Check(h) == Decide(h, instance = nullptr)

\* m_instance = new Broker()
Create(h) ==
  /\ pc[h] = "create"
  /\ made' = made + 1
  /\ instance' = made + 1
  /\ Goto(h, "return")
  /\ UNCHANGED <<op, got, alive, listed, racers, settled>>

\* return m_instance
Return(h) ==
  /\ pc[h] = "return"
  /\ got' = [got EXCEPT ![h] = instance]
  /\ Goto(h, "act")
  /\ UNCHANGED <<instance, made, op, alive, listed, racers, settled>>

\* What the call does at the broker it got, with the list as given; the
\* handler deletes its subscriber after Unsubscribe and ends.
Finish(h, without) ==
  /\ pc[h] = "act"
  /\ listed' = CASE op[h] = "AddSubscription" -> listed \cup {<<got[h], h>>}
                 [] op[h] = "Unsubscribe"     -> without
                 [] OTHER                     -> listed
  /\ alive' = IF op[h] = "Unsubscribe" THEN alive \ {h} ELSE alive
  /\ Goto(h, IF op[h] = "Unsubscribe" THEN "gone" ELSE "serve")
  /\ UNCHANGED <<instance, made, op, got, racers, settled>>

\* Fault: the subscriber is deleted but not unsubscribed.
ActKeeping(h) == Finish(h, listed)

Act(h) == Finish(h, listed \ {<<got[h], h>>})

Next ==
  \E h \in Handlers :
    \/ \E o \in {"EnqueueMessage", "AddSubscription", "Unsubscribe"} : Call(h, o)
    \/ Check(h) \/ Create(h) \/ Return(h) \/ Act(h)

Spec == Init /\ [][Next]_vars

-----------------------------------------------------------------------------

(* Types.  getInstance never returns null.                                  *)
TypeOK ==
  /\ made \in Nat
  /\ instance \in 0..made
  /\ pc \in [Handlers -> {"serve", "check", "create", "return", "act", "gone"}]
  /\ op \in [Handlers -> {"EnqueueMessage", "AddSubscription", "Unsubscribe"}]
  /\ got \in [Handlers -> 0..made]
  /\ alive \subseteq Handlers
  /\ listed \subseteq (1..made) \X Handlers
  /\ racers \subseteq Handlers
  /\ settled \subseteq Handlers
  /\ \A h \in Handlers : pc[h] = "act" => got[h] # nullptr

(* One broker is made by each handler that found none, and by no other: a   *)
(* server whose first call is over before the second begins has one broker, *)
(* and there are never more, each with its pool of threads, than handlers.  *)
OneBrokerPerRacer ==
  /\ made + Cardinality(Creating) = Cardinality(racers)
  /\ instance = made

(* Once no broker is being made all calls that begin reach the same one,    *)
(* the last: only calls that began before can subscribe to, or publish at,  *)
(* a broker that nobody will use again.                                     *)
SettledCallsAgree ==
  \A h \in settled : pc[h] = "act" => got[h] = instance

(* A subscriber whose subscription went to a replaced broker is deleted     *)
(* without being taken out of its list.  The broker in use never lists a    *)
(* deleted subscriber.                                                      *)
CurrentListsLiving ==
  \A h \in Handlers : <<instance, h>> \in listed => h \in alive
=============================================================================
