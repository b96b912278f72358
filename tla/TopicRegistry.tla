---------------------------- MODULE TopicRegistry ----------------------------
(***************************************************************************)
(* The broker's map of topics (Broker::AddSubscription and Unsubscribe)    *)
(* under the connection handlers that fill and empty it                    *)
(* (SocketServer::handleConnection).                                       *)
(*                                                                         *)
(* AddSubscription looks the topic up under m_topicMutex, unlocks, and     *)
(* then either appends to the topic it found or locks again to insert a    *)
(* topic it has built aside: a check and an act in two critical sections.  *)
(* unordered_map::insert leaves an existing key alone.  Unsubscribe        *)
(* visits all topics under m_topicMutex, and the handler deletes its       *)
(* subscriber afterwards, without a lock.                                  *)
(*                                                                         *)
(* A step is one critical section with the local code around it.  The      *)
(* order within a topic's list is SubscriberList's matter.                 *)
(***************************************************************************)
EXTENDS Naturals, Sequences, FiniteSets

CONSTANTS
  Handlers,      \* connection threads
  Topics,        \* topic tags
  Subscribers,   \* the NetSubscriber objects that are ever created
  NoSubscriber,  \* a handler has no subscription under way
  NoTopic        \* a subscriber has not been used yet

ASSUME HandlersFinite == IsFiniteSet(Handlers)
ASSUME NoSubscriberNotSubscriber == NoSubscriber \notin Subscribers
ASSUME NoTopicNotTopic == NoTopic \notin Topics

VARIABLES
  known,       \* keys of m_topics
  list,        \* each topic's m_subscribers, as a set
  alive,       \* subscriber objects that exist
  pc,          \* where each handler is
  newSub,      \* the handler's local of that name
  clientSubs,  \* the handler's local of that name
  left,        \* how many of clientSubs the closing loop has yet to visit
  tag,         \* history: the topic a subscriber was created for
  lost         \* history: subscribers whose insert found the topic inserted

vars == <<known, list, alive, pc, newSub, clientSubs, left, tag, lost>>

Locations ==
  {"serve",        \* in the receive loop
   "append",       \* AddSubscription has found the topic and unlocked
   "insert",       \* AddSubscription has built a new topic
   "unsubscribe",  \* at the head of the closing loop
   "delete",       \* between Unsubscribe(clientSubs[i]) and delete
   "gone"}         \* the thread has returned

Init ==
  /\ known = {}
  /\ list = [t \in Topics |-> {}]
  /\ alive = {}
  /\ pc = [h \in Handlers |-> "serve"]
  /\ newSub = [h \in Handlers |-> NoSubscriber]
  /\ clientSubs = [h \in Handlers |-> <<>>]
  /\ left = [h \in Handlers |-> 0]
  /\ tag = [s \in Subscribers |-> NoTopic]
  /\ lost = {}

Goto(h, l) == pc' = [pc EXCEPT ![h] = l]

-----------------------------------------------------------------------------

Announce(h, t, s, l) ==
  /\ pc[h] = "serve"
  /\ tag[s] = NoTopic
  /\ tag' = [tag EXCEPT ![s] = t]
  /\ alive' = alive \cup {s}
  /\ newSub' = [newSub EXCEPT ![h] = s]
  /\ Goto(h, l)
  /\ UNCHANGED <<known, list, clientSubs, left, lost>>

\* Fault: the lookup is left to insert.
SubscribeWithoutLookup(h, t, s) == Announce(h, t, s, "insert")

\* A SUBSCRIBE message: new NetSubscriber, and the lookup of its topic.
Subscribe(h, t, s) == Announce(h, t, s, IF t \in known THEN "append" ELSE "insert")

\* AddSubscription returns: clientSubs.push_back(newSub).
Return(h) ==
  /\ clientSubs' = [clientSubs EXCEPT ![h] = Append(@, newSub[h])]
  /\ newSub' = [newSub EXCEPT ![h] = NoSubscriber]
  /\ Goto(h, "serve")
  /\ UNCHANGED <<alive, left, tag>>

\* topic->second.AddSubscriber(subscriber), under the topic's m_subs only.
AppendToFound(h) ==
  /\ pc[h] = "append"
  /\ list' = [list EXCEPT ![tag[newSub[h]]] = @ \cup {newSub[h]}]
  /\ UNCHANGED <<known, lost>>
  /\ Return(h)

\* Fault: m_topics[topicTag] = newTopic.
InsertOverwriting(h) ==
  /\ pc[h] = "insert"
  /\ known' = known \cup {tag[newSub[h]]}
  /\ list' = [list EXCEPT ![tag[newSub[h]]] = {newSub[h]}]
  /\ UNCHANGED lost
  /\ Return(h)

\* m_topics.insert(...): nothing happens when the key is there by now.
Insert(h) ==
  /\ pc[h] = "insert"
  /\ LET s == newSub[h]
         t == tag[s]
     IN  \/ /\ t \notin known
            /\ known' = known \cup {t}
            /\ list' = [list EXCEPT ![t] = {s}]
            /\ UNCHANGED lost
         \/ /\ t \in known
            /\ lost' = lost \cup {s}
            /\ UNCHANGED <<known, list>>
  /\ Return(h)

-----------------------------------------------------------------------------
(* The end of a connection: the client has left, or the server is stopping. *)

Leave(h, n) ==
  /\ pc[h] = "serve"
  /\ left' = [left EXCEPT ![h] = n]
  /\ Goto(h, "unsubscribe")
  /\ UNCHANGED <<known, list, alive, newSub, clientSubs, tag, lost>>

\* Fault: the oldest subscription is overlooked.
DisconnectShort(h) ==
  Leave(h, IF clientSubs[h] = <<>> THEN 0 ELSE Len(clientSubs[h]) - 1)

\* Fault: the closing loop starts one past the end.
DisconnectLong(h) == Leave(h, Len(clientSubs[h]) + 1)

\* The receive loop ends: `int i = clientSubs.size() - 1`.
Disconnect(h) == Leave(h, Len(clientSubs[h]))

TakeOut(h) ==
  /\ pc[h] = "unsubscribe"
  /\ left[h] > 0
  /\ Goto(h, "delete")
  /\ UNCHANGED <<alive, newSub, clientSubs, left, tag, lost>>

\* Fault: a topic that has lost its last subscriber is erased.
UnsubscribeErasing(h) ==
  /\ TakeOut(h)
  /\ list' = [t \in Topics |-> list[t] \ {clientSubs[h][left[h]]}]
  /\ known' = {t \in known : list'[t] # {}}

\* Unsubscribe(clientSubs[i]): from every topic, under m_topicMutex.
Unsubscribe(h) ==
  /\ TakeOut(h)
  /\ list' = [t \in Topics |-> list[t] \ {clientSubs[h][left[h]]}]
  /\ UNCHANGED known

\* delete clientSubs[i]; i--.
Delete(h) ==
  /\ pc[h] = "delete"
  /\ alive' = alive \ {clientSubs[h][left[h]]}
  /\ left' = [left EXCEPT ![h] = @ - 1]
  /\ Goto(h, "unsubscribe")
  /\ UNCHANGED <<known, list, newSub, clientSubs, tag, lost>>

Finish(h) ==
  /\ pc[h] = "unsubscribe"
  /\ left[h] = 0
  /\ Goto(h, "gone")
  /\ UNCHANGED <<known, list, alive, newSub, clientSubs, left, tag, lost>>

-----------------------------------------------------------------------------

Next ==
  \E h \in Handlers :
    \/ \E t \in Topics, s \in Subscribers : Subscribe(h, t, s)
    \/ AppendToFound(h) \/ Insert(h)
    \/ Disconnect(h) \/ Unsubscribe(h) \/ Delete(h) \/ Finish(h)

Spec == Init /\ [][Next]_vars

-----------------------------------------------------------------------------

Served(h) == {clientSubs[h][k] : k \in 1..Len(clientSubs[h])}

(* Types.  A handler has a subscription under way exactly while it is in    *)
(* AddSubscription, and the closing loop stays within clientSubs.           *)
TypeOK ==
  /\ known \subseteq Topics
  /\ list \in [Topics -> SUBSET Subscribers]
  /\ alive \subseteq Subscribers
  /\ pc \in [Handlers -> Locations]
  /\ newSub \in [Handlers -> Subscribers \cup {NoSubscriber}]
  /\ clientSubs \in [Handlers -> Seq(Subscribers)]
  /\ left \in [Handlers -> Nat]
  /\ tag \in [Subscribers -> Topics \cup {NoTopic}]
  /\ lost \subseteq Subscribers
  /\ \A h \in Handlers :
       /\ newSub[h] # NoSubscriber <=> pc[h] \in {"append", "insert"}
       /\ left[h] <= Len(clientSubs[h])
       /\ pc[h] = "delete" => left[h] > 0

(* A subscriber whose AddSubscription has returned is in its topic's list,  *)
(* and in no other, until its own handler unsubscribes it, whatever the     *)
(* other handlers do; the only exception is a subscription that lost the    *)
(* race of two inserts.  Its topic is in the map, although it may have been *)
(* found there before others left and appended to without m_topicMutex.     *)
SubscribedIsListed ==
  \A h \in Handlers : \A k \in 1..Len(clientSubs[h]) :
    LET s == clientSubs[h][k]
    IN  pc[h] \in {"serve", "append", "insert"} =>
          /\ tag[s] \in known
          /\ \A t \in Topics : s \in list[t] <=> t = tag[s] /\ s \notin lost

(* The insert race costs a handler at most one subscription for each topic, *)
(* and always spares one handler's: a topic enters the map with a           *)
(* subscriber, and every lookup from then on finds it.                      *)
LossBounded ==
  \A t \in Topics :
    LET lostOn == {s \in lost : tag[s] = t}
    IN  /\ \A h \in Handlers : Cardinality(lostOn \cap Served(h)) <= 1
        /\ lostOn # {} => Cardinality(lostOn) < Cardinality(Handlers)

(* No topic ever refers to a deleted subscriber, though deletions happen    *)
(* outside every lock and races decide which lists a subscriber is in; and  *)
(* a handler that has returned leaves none of its subscribers behind, in    *)
(* memory or in a list, lost ones included.                                 *)
NothingLeftBehind ==
  /\ \A t \in Topics : list[t] \subseteq alive
  /\ \A h \in Handlers : pc[h] = "gone" => Served(h) \cap alive = {}
=============================================================================
