----------------------------- MODULE PubSubSystem -----------------------------
(***************************************************************************)
(* The whole server: SocketServer's threads and sockets, TopicRegistry's   *)
(* topics, the broker's queue and pool as WorkQueue promises them (what    *)
(* DispatchQueue implements), and the walks over a topic's subscribers,    *)
(* which end in NetSubscriber::OnReceive and send.  An action of several   *)
(* components is the conjunction of theirs.                                *)
(*                                                                         *)
(* A handler's batch is one message here.  The dispatchers walk as FanOut  *)
(* promises (what SubscriberList implements), but lists do not move away   *)
(* under them: reads of freed buffers are left out.                        *)
(***************************************************************************)
EXTENDS Naturals, Sequences, FiniteSets

CONSTANTS Connections, Handles, Topics, Subscribers, Dispatchers, MaxMessages,
          NoConnection, NoHandle, NoSubscriber, NoTopic, NoMessage

ASSUME ConnectionsFinite == IsFiniteSet(Connections)
ASSUME MaxMessagesNat == MaxMessages \in Nat
ASSUME NoneOfThese ==
  /\ NoConnection \notin Connections /\ NoHandle \notin Handles
  /\ NoSubscriber \notin Subscribers /\ NoTopic \notin Topics

VARIABLES
  logger, main, round, winsock, cancel, threads, joinable, next,
  pc, handle, owner, closes, late, severed,               \* SocketServer
  known, list, alive, at, newSub, clientSubs, left, tag, lost,
                                                          \* TopicRegistry
  pending, taken, settled, retired, issued,               \* WorkQueue
  stage, called, pointer, recent, removals,               \* FanOut
  audience,  \* history: subscribers listed when each message was published
  older,     \* history: subscribers made before each message was published
  heirs,     \* history: subscribers made since each deleted one was deleted
  received   \* history: what was sent to whom on whose connection, and
             \* through whose pointer

Server == INSTANCE SocketServer
Registry == INSTANCE TopicRegistry WITH Handlers <- Connections, pc <- at
Queue == INSTANCE WorkQueue WITH Workers <- Dispatchers
Walks == INSTANCE FanOut WITH
  Walkers <- Dispatchers,
  topic <- [d \in Dispatchers |-> IF stage[d] = "idle" THEN NoTopic ELSE taken[d].topic],
  moved <- [d \in Dispatchers |-> FALSE],
  wild <- [d \in Dispatchers |-> FALSE]

serverVars == <<logger, main, round, winsock, cancel, threads, joinable, next,
                pc, handle, owner, closes, late, severed>>
registryVars == <<known, list, alive, at, newSub, clientSubs, left, tag, lost>>
queueVars == <<pending, taken, settled, retired, issued>>
walkVars == <<stage, called, pointer, recent, removals>>
historyVars == <<audience, older, heirs, received>>
brokerVars == <<queueVars, walkVars, historyVars>>
vars == <<serverVars, registryVars, brokerVars>>

Init ==
  /\ Server!Init /\ Registry!Init /\ Queue!Init
  /\ stage = [d \in Dispatchers |-> "idle"]
  /\ called = [d \in Dispatchers |-> {}]
  /\ pointer = [d \in Dispatchers |-> NoSubscriber]
  /\ recent = [d \in Dispatchers |-> {}]
  /\ removals = [d \in Dispatchers |-> 0]
  /\ audience = [i \in 1..MaxMessages |-> {}]
  /\ older = [i \in 1..MaxMessages |-> {}]
  /\ heirs = [s \in Subscribers |-> {}]
  /\ received = {}

-----------------------------------------------------------------------------
(* Handlers.                                                               *)

Made == {s \in Subscribers : tag[s] # NoTopic}

\* A SUBSCRIBE message: new NetSubscriber(data.Client), AddSubscription.  The
\* new subscriber may get the memory of any that has been deleted.
ReceiveSubscribe(c, t, s) ==
  /\ Server!Receive(c)
  /\ Registry!Subscribe(c, t, s)
  /\ heirs' = [p \in Subscribers |-> IF p \in Made \ alive THEN heirs[p] \cup {s} ELSE heirs[p]]
  /\ UNCHANGED <<queueVars, walkVars, audience, older, received>>

\* A PUBLISH message: EnqueueMessage.
ReceivePublish(c, t) ==
  /\ Server!Receive(c)
  /\ Queue!Issue(t)
  /\ audience' = [audience EXCEPT ![issued'] = list[t]]
  /\ older' = [older EXCEPT ![issued'] = Made]
  /\ UNCHANGED <<registryVars, walkVars, heirs, received>>

\* Anything else.
ReceiveOther(c) == Server!Receive(c) /\ UNCHANGED <<registryVars, brokerVars>>

\* A list may change: walks go on with the new one.
ListChanges ==
  /\ Server!Running
  /\ Walks!Observe
  /\ UNCHANGED <<serverVars, queueVars, stage, called, pointer, historyVars>>

\* The rest of AddSubscription.
Subscribe(c) == (Registry!AppendToFound(c) \/ Registry!Insert(c)) /\ ListChanges

EndRound(c) ==
  /\ at[c] = "serve"
  /\ Server!Check(c)
  /\ UNCHANGED brokerVars

\* Fault: a handler that is stopped skips the closing loop.
CheckOnly(c) == EndRound(c) /\ UNCHANGED registryVars

\* The end of the receive loop's round, or of the loop.
Check(c) ==
  /\ EndRound(c)
  /\ IF cancel THEN Registry!Disconnect(c) ELSE UNCHANGED registryVars

HangUp(c) ==
  /\ Server!HangUp(c)
  /\ Registry!Disconnect(c)
  /\ UNCHANGED brokerVars

Unsubscribe(c) == Registry!Unsubscribe(c) /\ ListChanges

Delete(c) ==
  /\ Server!Running
  /\ Registry!Delete(c)
  /\ UNCHANGED <<serverVars, brokerVars>>

Cleanup(c) ==
  /\ Server!Cleanup(c)
  /\ Registry!Finish(c)
  /\ UNCHANGED brokerVars

\* The main thread, new connections and the last closesocket.
ServerOnly ==
  /\ \/ Server!MainStep
     \/ Server!AcceptFails
     \/ Server!PressKey
     \/ \E c \in Connections :
          \/ Server!Close(c)
          \/ \E h \in Handles : Server!Accept(c, h) \/ Server!AcceptInVain(c, h)
  /\ UNCHANGED <<registryVars, brokerVars>>

-----------------------------------------------------------------------------
(* Dispatchers.                                                            *)

\* front() and pop().
Take(d) ==
  /\ Server!Running
  /\ Queue!Take(d)
  /\ UNCHANGED <<serverVars, registryVars, walkVars, historyVars>>

\* The lookup succeeds.
Find(d) ==
  /\ Server!Running
  /\ taken[d] # NoMessage
  /\ taken[d].topic \in known
  /\ UNCHANGED <<serverVars, registryVars, queueVars, historyVars>>
  /\ Walks!Start(d, taken[d].topic)

\* An unknown topic ends the thread.
Return(d) ==
  /\ Server!Running
  /\ taken[d] # NoMessage
  /\ taken[d].topic \notin known
  /\ retired' = retired \cup {d}
  /\ Queue!Settle(d)
  /\ UNCHANGED <<serverVars, registryVars, walkVars, historyVars>>

\* The loop up to the call.
Walk(d) ==
  /\ Server!Running
  /\ UNCHANGED <<serverVars, registryVars, queueVars, historyVars>>
  /\ Walks!Count(d) \/ \E s \in Subscribers : Walks!Pick(d, s)

\* The handler that made a subscriber.
Maker(s) == CHOOSE c \in Connections : s \in Registry!Served(c) \cup {newSub[c]}

\* Who a call through p gets to.  Behind the pointer of a deleted subscriber
\* there is still what it was, or one made since, by now.
Reached(p) == {p} \cup (IF p \in alive THEN {} ELSE heirs[p] \cap alive)

\* send on m_clientSocket.
Send(d) ==
  /\ Server!Running
  /\ stage[d] = "call"
  /\ \E s \in Reached(pointer[d]) :
       received' = received \cup
         {[id |-> taken[d].id, through |-> pointer[d], sub |-> s, on |-> owner[handle[Maker(s)]]]}
  /\ UNCHANGED <<serverVars, registryVars, queueVars, audience, older, heirs>>

\* Fault: the index stays where it is.
OnReceiveAgain(d) ==
  /\ Send(d)
  /\ stage' = [stage EXCEPT ![d] = "count"]
  /\ pointer' = [pointer EXCEPT ![d] = NoSubscriber]
  /\ UNCHANGED <<called, recent, removals>>

\* OnReceive, and `i++`.
OnReceive(d) == Send(d) /\ Walks!Call(d)

Settle(d) ==
  /\ Server!Running
  /\ retired' = retired
  /\ Queue!Settle(d)
  /\ UNCHANGED <<serverVars, registryVars, historyVars>>

\* Fault: the last subscriber is left out.
EndShort(d) ==
  /\ Settle(d)
  /\ stage[d] = "count" /\ Cardinality(list[taken[d].topic] \ called[d]) <= 1
  /\ stage' = [stage EXCEPT ![d] = "idle"]
  /\ called' = [called EXCEPT ![d] = {}]
  /\ removals' = [removals EXCEPT ![d] = 0]
  /\ UNCHANGED <<pointer, recent>>

\* The loop is over, and with it the message.
End(d) == Settle(d) /\ Walks!End(d)

-----------------------------------------------------------------------------

HandlerStep(c) == Subscribe(c) \/ Check(c) \/ Unsubscribe(c) \/ Delete(c) \/ Cleanup(c)
DispatcherStep(d) == Find(d) \/ Return(d) \/ Walk(d) \/ End(d)

Next ==
  \/ ServerOnly
  \/ \E c \in Connections :
       \/ \E t \in Topics : ReceivePublish(c, t)
       \/ ReceiveOther(c)
       \/ \E t \in Topics, s \in Subscribers : ReceiveSubscribe(c, t, s)
       \/ HandlerStep(c)
       \/ HangUp(c)
  \/ \E d \in Dispatchers : Take(d) \/ DispatcherStep(d) \/ OnReceive(d)

Spec == Init /\ [][Next]_vars

\* Threads run; nothing makes clients connect, send, leave or read, so that
\* nothing makes a blocking send in OnReceive return.  Which dispatcher takes
\* a message is left to the pool.
FairSpec ==
  /\ Spec
  /\ \A c \in Connections : WF_vars(HandlerStep(c))
  /\ \A d \in Dispatchers : WF_vars(DispatcherStep(d))
  /\ WF_vars(\E d \in Dispatchers : Take(d))

-----------------------------------------------------------------------------

(* Types.  Only a dispatcher in the loop over subscribers holds a pointer.  *)
TypeOK ==
  /\ Server!TypeOK /\ Registry!TypeOK
  /\ stage \in [Dispatchers -> {"idle", "count", "pick", "call"}]
  /\ called \in [Dispatchers -> SUBSET Subscribers]
  /\ recent \in [Dispatchers -> SUBSET Subscribers]
  /\ removals \in [Dispatchers -> Nat]
  /\ \A d \in Dispatchers :
       /\ taken[d] = NoMessage => stage[d] = "idle"
       /\ pointer[d] \in IF stage[d] = "call" THEN Subscribers ELSE {NoSubscriber}
  /\ \A c \in Connections :
       /\ pc[c] \in {"none", "recv"} => at[c] = "serve"
       /\ pc[c] = "cleanup" => at[c] \in {"unsubscribe", "delete"}
       /\ pc[c] \in {"close", "gone"} => at[c] = "gone"

Leaving == {c \in Connections : at[c] \in {"unsubscribe", "delete", "gone"}}

(* A subscriber whose handler serves its client, no handler having closed   *)
(* a handle twice yet, is sent messages of the topic the client asked for,  *)
(* and the client gets them, whoever else comes and goes and whatever       *)
(* handles are used again.  It is sent another topic's message only through *)
(* the pointer of a subscriber that a leaving handler has deleted and in    *)
(* whose memory it was made, and then one published before it was made.     *)
(* What is sent to a leaving handler's subscriber may reach the handle's    *)
(* next client.                                                             *)
ServedClientGetsItsOwn ==
  (\A c \in Connections : closes[c] <= 1) =>
    \A d \in Dispatchers : stage[d] = "call" =>
      LET p == pointer[d]
      IN  \A s \in Reached(p) : Maker(s) \notin Leaving =>
            /\ s \in alive /\ owner[handle[Maker(s)]] = Maker(s)
            /\ \/ tag[s] = taken[d].topic
               \/ p \notin alive /\ Maker(p) \in Leaving /\ s \notin older[taken[d].id]

(* No message is sent to a subscriber twice, by one dispatcher or by two,   *)
(* with one exception: a subscriber made after the publication, in the      *)
(* memory of a deleted one, may get it through the pointer to that one      *)
(* first, and then once more in its own right, if it is of the same topic.  *)
SentOnce ==
  \A d \in Dispatchers : stage[d] = "call" =>
    /\ \A s \in Reached(pointer[d]) :
         LET before == {r \in received : r.id = taken[d].id /\ r.sub = s}
         IN  before # {} =>
               /\ s = pointer[d] /\ s \notin older[taken[d].id]
               /\ \A r \in before : r.through # s
    /\ \A e \in Dispatchers \ {d} : taken[e] # taken[d]

\* Message i has been sent to the client that made subscriber s.
Got(i, s) ==
  \E c \in Connections, r \in received :
    /\ s \in Registry!Served(c) \cup {newSub[c]}
    /\ r.id = i /\ r.sub = s /\ r.on = c

(* As long as nobody has left, a message that has been dealt with has been  *)
(* sent to each client that was subscribed when it was published, whatever  *)
(* subscriptions are added during the walk.  Left out are lists that move   *)
(* to another buffer under a walk, and a second broker.                     *)
CompleteWhileNobodyLeaves ==
  Leaving = {} => \A i \in settled : \A s \in audience[i] : Got(i, s)

(* A published message gets to each client that was subscribed, unless some *)
(* client leaves, or stops reading and so holds a dispatcher for ever, or   *)
(* publications on unknown topics use up the dispatchers, or the process    *)
(* ends.  Left out are lists that move to another buffer under a walk, and  *)
(* a second broker: either can cost a message too.                          *)
Delivered ==
  \A i \in 1..MaxMessages : \A s \in Subscribers :
    (i <= issued /\ s \in audience[i]) ~>
      \/ Got(i, s)
      \/ Leaving # {} \/ ~Server!Running \/ retired = Dispatchers
      \/ \E d \in Dispatchers : [](stage[d] = "call")
=============================================================================
