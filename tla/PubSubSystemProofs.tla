-------------------------- MODULE PubSubSystemProofs --------------------------
(***************************************************************************)
(* Proofs about PubSubSystem, for any finite set of connections and any    *)
(* handles, topics, subscribers, dispatchers and number of messages.       *)
(***************************************************************************)
EXTENDS PubSubSystem, FiniteSetTheorems, SequenceTheorems, TLAPS

\* The components with what is proved about them.
Srv == INSTANCE SocketServerProofs
Reg == INSTANCE TopicRegistryProofs WITH Handlers <- Connections, pc <- at

LEMMA ConnectionsFiniteThere == Reg!IsFiniteSet(Connections)
  BY ConnectionsFinite DEF IsFiniteSet, Reg!IsFiniteSet

-----------------------------------------------------------------------------
(* Each step of the system is a step of each component, or none of its.     *)

LEMMA StepCases ==
  ASSUME [Next]_vars
  PROVE  \/ ServerOnly
         \/ \E c \in Connections : ReceiveOther(c) \/ Check(c) \/ HangUp(c) \/ Delete(c) \/ Cleanup(c)
         \/ \E c \in Connections, t \in Topics : ReceivePublish(c, t)
         \/ \E c \in Connections, t \in Topics, s \in Subscribers : ReceiveSubscribe(c, t, s)
         \/ \E c \in Connections : Subscribe(c)
         \/ \E c \in Connections : Unsubscribe(c)
         \/ \E d \in Dispatchers : Take(d)
         \/ \E d \in Dispatchers : Find(d)
         \/ \E d \in Dispatchers : Return(d)
         \/ \E d \in Dispatchers : Walk(d)
         \/ \E d \in Dispatchers : OnReceive(d)
         \/ \E d \in Dispatchers : End(d)
         \/ UNCHANGED vars
  BY DEF Next, HandlerStep, DispatcherStep

LEMMA RegistryActions ==
  ASSUME NEW c \in Connections
  PROVE  /\ \A t \in Topics, s \in Subscribers : Registry!Subscribe(c, t, s) => Reg!Subscribe(c, t, s)
         /\ Registry!AppendToFound(c) => Reg!AppendToFound(c)
         /\ Registry!Insert(c) => Reg!Insert(c)
         /\ Registry!Disconnect(c) => Reg!Disconnect(c)
         /\ Registry!Unsubscribe(c) => Reg!Unsubscribe(c)
         /\ Registry!Delete(c) => Reg!Delete(c)
         /\ Registry!Finish(c) => Reg!Finish(c)
<1>1. /\ \A t \in Topics, s \in Subscribers : Registry!Subscribe(c, t, s) => Reg!Subscribe(c, t, s)
      /\ Registry!Disconnect(c) => Reg!Disconnect(c)
  BY DEF Registry!Subscribe, Reg!Subscribe, Registry!Announce, Reg!Announce, Registry!Goto, Reg!Goto,
         Registry!Disconnect, Reg!Disconnect, Registry!Leave, Reg!Leave
<1>2. /\ Registry!AppendToFound(c) => Reg!AppendToFound(c)
      /\ Registry!Insert(c) => Reg!Insert(c)
  BY DEF Registry!AppendToFound, Reg!AppendToFound, Registry!Insert, Reg!Insert,
         Registry!Return, Reg!Return, Registry!Goto, Reg!Goto
<1>3. /\ Registry!Unsubscribe(c) => Reg!Unsubscribe(c)
      /\ Registry!Delete(c) => Reg!Delete(c)
      /\ Registry!Finish(c) => Reg!Finish(c)
  BY DEF Registry!Unsubscribe, Reg!Unsubscribe, Registry!TakeOut, Reg!TakeOut, Registry!Delete, Reg!Delete,
         Registry!Finish, Reg!Finish, Registry!Goto, Reg!Goto
<1>. QED
  BY <1>1, <1>2, <1>3

LEMMA RegistryStep == [Next]_vars => [Reg!Next]_(Reg!vars)
<1>. SUFFICES ASSUME [Next]_vars
              PROVE  Reg!Next \/ UNCHANGED registryVars
  BY DEF registryVars, Reg!vars
<1>1. ASSUME NEW c \in Connections, NEW t \in Topics, NEW s \in Subscribers, ReceiveSubscribe(c, t, s)
      PROVE  Reg!Next
  BY <1>1, RegistryActions DEF ReceiveSubscribe, Reg!Next
<1>2. ASSUME NEW c \in Connections, Subscribe(c) \/ Unsubscribe(c)
      PROVE  Reg!Next
  BY <1>2, RegistryActions DEF Subscribe, Unsubscribe, Reg!Next
<1>3. ASSUME NEW c \in Connections, ReceiveOther(c) \/ Check(c) \/ HangUp(c) \/ Delete(c) \/ Cleanup(c)
      PROVE  Reg!Next \/ UNCHANGED registryVars
  BY <1>3, RegistryActions DEF ReceiveOther, Check, HangUp, Delete, Cleanup, Reg!Next
<1>4. ASSUME NEW c \in Connections, NEW t \in Topics, ReceivePublish(c, t)
      PROVE  UNCHANGED registryVars
  BY <1>4 DEF ReceivePublish
<1>5. ASSUME NEW d \in Dispatchers, Take(d) \/ Find(d) \/ Return(d) \/ Walk(d) \/ OnReceive(d) \/ End(d)
      PROVE  UNCHANGED registryVars
  BY <1>5 DEF Take, Find, Return, Walk, OnReceive, Send, End, Settle
<1>6. CASE ServerOnly \/ UNCHANGED vars
  BY <1>6 DEF ServerOnly, vars
<1>. QED
  BY <1>1, <1>2, <1>3, <1>4, <1>5, <1>6, StepCases

LEMMA ServerActions ==
  /\ Server!MainStep => Srv!MainStep
  /\ Server!AcceptFails => Srv!AcceptFails
  /\ Server!PressKey => Srv!PressKey
  /\ \A c \in Connections, h \in Handles : Server!Accept(c, h) => Srv!Accept(c, h)
  /\ \A c \in Connections, h \in Handles : Server!AcceptInVain(c, h) => Srv!AcceptInVain(c, h)
  /\ \A c \in Connections :
       /\ Server!Receive(c) => Srv!Receive(c)
       /\ Server!HangUp(c) => Srv!HangUp(c)
       /\ Server!Check(c) => Srv!Check(c)
       /\ Server!Cleanup(c) => Srv!Cleanup(c)
       /\ Server!Close(c) => Srv!Close(c)
<1>. USE DEF Server!mainVars, Srv!mainVars, Server!handlerVars, Srv!handlerVars, Server!Running, Srv!Running,
             Server!Goto, Srv!Goto, Server!CloseSocket, Srv!CloseSocket
<1>1. Server!MainStep => Srv!MainStep
  BY DEF Server!MainStep, Srv!MainStep, Server!InitServer, Srv!InitServer, Server!ShutDown, Srv!ShutDown,
         Server!BeginShutDown, Srv!BeginShutDown, Server!Join, Srv!Join, Server!JoinsDone, Srv!JoinsDone, Server!JoinsDoneAt, Srv!JoinsDoneAt,
         Server!CloseListener, Srv!CloseListener
<1>2. /\ Server!AcceptFails => Srv!AcceptFails
      /\ Server!PressKey => Srv!PressKey
      /\ \A c \in Connections, h \in Handles : Server!Accept(c, h) => Srv!Accept(c, h)
      /\ \A c \in Connections, h \in Handles : Server!AcceptInVain(c, h) => Srv!AcceptInVain(c, h)
  BY DEF Server!AcceptFails, Srv!AcceptFails, Server!PressKey, Srv!PressKey,
         Server!Accept, Srv!Accept, Server!AcceptInVain, Srv!AcceptInVain,
         Server!Arrives, Srv!Arrives, Server!Start, Srv!Start, Server!Keep, Srv!Keep
<1>3. ASSUME NEW c \in Connections
      PROVE  /\ Server!Receive(c) => Srv!Receive(c)
             /\ Server!HangUp(c) => Srv!HangUp(c)
             /\ Server!Check(c) => Srv!Check(c)
             /\ Server!Cleanup(c) => Srv!Cleanup(c)
             /\ Server!Close(c) => Srv!Close(c)
  BY DEF Server!Receive, Srv!Receive, Server!HangUp, Srv!HangUp, Server!Check, Srv!Check,
         Server!CheckToken, Srv!CheckToken, Server!Cleanup, Srv!Cleanup, Server!Close, Srv!Close
<1>. QED
  BY <1>1, <1>2, <1>3

LEMMA ServerStep == [Next]_vars => [Srv!Next]_(Srv!vars)
<1>. SUFFICES ASSUME [Next]_vars
              PROVE  Srv!Next \/ UNCHANGED serverVars
  BY DEF serverVars, Srv!vars
<1>1. ASSUME NEW c \in Connections, \/ Server!Receive(c) \/ Server!HangUp(c) \/ Server!Check(c)
                                    \/ Server!Cleanup(c)
      PROVE  Srv!Next
  BY <1>1, ServerActions DEF Srv!Next, Srv!HandlerStep
<1>2. CASE ServerOnly
  BY <1>2, ServerActions DEF ServerOnly, Srv!Next, Srv!HandlerStep
<1>3. ASSUME NEW c \in Connections, ReceiveOther(c) \/ Check(c) \/ HangUp(c) \/ Delete(c) \/ Cleanup(c)
      PROVE  Srv!Next \/ UNCHANGED serverVars
  BY <1>1, <1>3 DEF ReceiveOther, Check, EndRound, HangUp, Delete, Cleanup
<1>4. ASSUME NEW c \in Connections, NEW t \in Topics,
             ReceivePublish(c, t) \/ \E s \in Subscribers : ReceiveSubscribe(c, t, s)
      PROVE  Srv!Next
  BY <1>1, <1>4 DEF ReceivePublish, ReceiveSubscribe
<1>5. ASSUME NEW c \in Connections, Subscribe(c) \/ Unsubscribe(c)
      PROVE  UNCHANGED serverVars
  BY <1>5 DEF Subscribe, Unsubscribe, ListChanges
<1>6. ASSUME NEW d \in Dispatchers, Take(d) \/ Find(d) \/ Return(d) \/ Walk(d) \/ OnReceive(d) \/ End(d)
      PROVE  UNCHANGED serverVars
  BY <1>6 DEF Take, Find, Return, Walk, OnReceive, Send, End, Settle
<1>7. CASE UNCHANGED vars
  BY <1>7 DEF vars
<1>. QED
  BY <1>2, <1>3, <1>4, <1>5, <1>6, <1>7, StepCases

\* So what is proved of the components holds in the system.
ServerInv == Srv!TypeInv /\ Srv!OwnHandle
RegistryInv == Reg!TypeInv /\ Reg!LeftInv /\ Reg!RaceInv /\ Reg!ListInv

LEMMA ComponentInit == Init => ServerInv /\ RegistryInv
<1>. SUFFICES ASSUME Init PROVE ServerInv /\ RegistryInv
  OBVIOUS
<1>1. Srv!Init /\ Reg!Init
  BY DEF Init, Server!Init, Srv!Init, Registry!Init, Reg!Init
<1>2. Srv!TypeInv
  BY <1>1, NoneOfThese, Srv!InitType
<1>3. Srv!OwnHandle
  BY <1>1 DEF Srv!Init, Srv!OwnHandle
<1>4. Reg!TypeInv /\ Reg!LeftInv /\ Reg!RaceInv /\ Reg!ListInv
  BY <1>1, NoneOfThese, ConnectionsFiniteThere, Reg!InitType, Reg!InitLeft, Reg!InitRace, Reg!InitLists
<1>. QED
  BY <1>2, <1>3, <1>4 DEF ServerInv, RegistryInv

LEMMA ComponentNext == ServerInv /\ RegistryInv /\ [Next]_vars => ServerInv' /\ RegistryInv'
<1>. SUFFICES ASSUME ServerInv, RegistryInv, [Next]_vars
              PROVE  ServerInv' /\ RegistryInv'
  OBVIOUS
<1>1. [Srv!Next]_(Srv!vars) /\ [Reg!Next]_(Reg!vars)
  BY ServerStep, RegistryStep
<1>2. Srv!TypeInv' /\ Srv!OwnHandle'
  BY <1>1, NoneOfThese, Srv!NextType, Srv!NextOwn DEF ServerInv
<1>3. Reg!TypeInv' /\ Reg!LeftInv' /\ Reg!RaceInv' /\ Reg!ListInv'
  BY <1>1, NoneOfThese, ConnectionsFiniteThere, Reg!NextType, Reg!NextLeft, Reg!NextRace, Reg!NextLists
  DEF RegistryInv
<1>. QED
  BY <1>2, <1>3 DEF ServerInv, RegistryInv

-----------------------------------------------------------------------------
(* The queue.                                                               *)

Message == [id : Nat, topic : Topics]

Busy(d) == taken[d] # NoMessage

\* Ids up to here have been taken.
Begun == issued - Len(pending)

QueueTypes ==
  /\ issued \in 0..MaxMessages
  /\ pending \in Seq(Message) /\ Len(pending) <= issued
  /\ taken \in [Dispatchers -> Message \cup {NoMessage}]

\* The ids that wait follow each other up to the last one issued.
PendingInOrder == \A k \in 1..Len(pending) : pending[k].id = Begun + k

TakenBegun == \A d \in Dispatchers : Busy(d) => taken[d].id \in (1..Begun) \ settled

TakenOnce ==
  \A d, e \in Dispatchers : Busy(d) /\ Busy(e) /\ taken[d].id = taken[e].id => d = e

SettledBegun == settled \subseteq 1..Begun

QueueInv == QueueTypes /\ PendingInOrder /\ TakenBegun /\ TakenOnce /\ SettledBegun

\* What a walk may call is of the message's topic.
RecentTagged ==
  \A d \in Dispatchers : stage[d] = "pick" => \A s \in recent[d] : tag[s] = taken[d].topic

PointerTagged == \A d \in Dispatchers : stage[d] = "call" => tag[pointer[d]] = taken[d].topic

PointerFresh == \A d \in Dispatchers : stage[d] = "call" => pointer[d] \notin called[d]

\* What has been sent for a message that is in work is behind its walk.
SentIsCalled ==
  \A r \in received :
    /\ r.id \in 1..Begun
    /\ \A d \in Dispatchers : Busy(d) /\ taken[d].id = r.id => r.through \in called[d]

\* A walk begins with nobody called.
IdleCalledNone == \A d \in Dispatchers : stage[d] = "idle" => called[d] = {}

WalkInv == RecentTagged /\ PointerTagged /\ PointerFresh /\ SentIsCalled /\ IdleCalledNone

\* Nobody subscribes before connecting.
NoneYet == \A c \in Connections : pc[c] = "none" => clientSubs[c] = <<>>

\* While nobody leaves, lists grow: nobody is shifted below an index, those
\* who were listed still are, and those called have got the message.
NothingRemoved == \A d \in Dispatchers : removals[d] = 0

AudienceListed ==
  /\ \A k \in 1..Len(pending) : audience[pending[k].id] \subseteq list[pending[k].topic]
  /\ \A d \in Dispatchers : Busy(d) => audience[taken[d].id] \subseteq list[taken[d].topic]

CalledGot == \A d \in Dispatchers : Busy(d) => \A s \in called[d] : Got(taken[d].id, s)

SettledGot == \A i \in settled : \A s \in audience[i] : Got(i, s)

AudienceType == audience \in [1..MaxMessages -> SUBSET Subscribers]

CompleteInv ==
  /\ AudienceType
  /\ Leaving = {} => NothingRemoved /\ AudienceListed /\ CalledGot /\ SettledGot

LEMMA QueueStep ==
  ASSUME [Next]_vars
  PROVE  \/ \E t \in Topics : Queue!Issue(t)
         \/ \E d \in Dispatchers : Queue!Take(d)
         \/ \E d \in Dispatchers : Queue!Settle(d)
         \/ UNCHANGED queueVars
<1>1. ASSUME NEW c \in Connections, NEW t \in Topics, ReceivePublish(c, t)
      PROVE  Queue!Issue(t)
  BY <1>1 DEF ReceivePublish
<1>2. ASSUME NEW d \in Dispatchers, Take(d)
      PROVE  Queue!Take(d)
  BY <1>2 DEF Take
<1>3. ASSUME NEW d \in Dispatchers, Return(d) \/ End(d)
      PROVE  Queue!Settle(d)
  BY <1>3 DEF Return, End, Settle
<1>4. ASSUME NEW d \in Dispatchers, Find(d) \/ Walk(d) \/ OnReceive(d)
      PROVE  UNCHANGED queueVars
  BY <1>4 DEF Find, Walk, OnReceive, Send
<1>5. ASSUME NEW c \in Connections,
             \/ ReceiveOther(c) \/ Check(c) \/ HangUp(c) \/ Delete(c) \/ Cleanup(c)
             \/ Subscribe(c) \/ Unsubscribe(c)
             \/ \E t \in Topics, s \in Subscribers : ReceiveSubscribe(c, t, s)
      PROVE  UNCHANGED queueVars
  BY <1>5 DEF ReceiveOther, Check, EndRound, HangUp, Delete, Cleanup, Subscribe, Unsubscribe,
              ReceiveSubscribe, ListChanges, brokerVars
<1>6. CASE ServerOnly \/ UNCHANGED vars
  BY <1>6 DEF ServerOnly, vars, brokerVars
<1>. QED
  BY <1>1, <1>2, <1>3, <1>4, <1>5, <1>6, StepCases

LEMMA InitQueue == Init => QueueInv
<1>. SUFFICES ASSUME Init PROVE QueueInv
  OBVIOUS
<1>1. /\ pending = <<>> /\ taken = [d \in Dispatchers |-> NoMessage]
      /\ settled = {} /\ issued = 0
  BY DEF Init, Queue!Init
<1>2. pending \in Seq(Message) /\ Len(pending) = 0
  BY <1>1
<1>. QED
  BY <1>1, <1>2, MaxMessagesNat
  DEF QueueInv, QueueTypes, PendingInOrder, TakenBegun, TakenOnce, SettledBegun, Busy, Begun

\* What the three steps of the queue do.
LEMMA IssueMoves ==
  ASSUME QueueInv, NEW t \in Topics, Queue!Issue(t)
  PROVE  /\ issued \in Nat /\ issued + 1 \in 1..MaxMessages /\ issued' = issued + 1
         /\ Len(pending) \in Nat /\ Len(pending') = Len(pending) + 1
         /\ pending' \in Seq(Message)
         /\ Begun' = Begun /\ Begun \in Nat /\ Begun <= issued
         /\ pending'[Len(pending) + 1] = [id |-> issued + 1, topic |-> t]
         /\ \A k \in 1..Len(pending) : pending'[k] = pending[k]
         /\ UNCHANGED <<taken, settled>>
<1>. DEFINE m == [id |-> issued + 1, topic |-> t]
<1>1. /\ issued \in 0..MaxMessages /\ pending \in Seq(Message) /\ Len(pending) <= issued
      /\ Len(pending) \in Nat
  BY LenProperties DEF QueueInv, QueueTypes
<1>2. issued < MaxMessages /\ issued' = issued + 1 /\ pending' = Append(pending, m)
      /\ UNCHANGED <<taken, settled>>
  BY DEF Queue!Issue
<1>3. m \in Message
  BY <1>1, MaxMessagesNat DEF Message
<1>. HIDE DEF m
<1>4. /\ pending' \in Seq(Message) /\ Len(pending') = Len(pending) + 1
      /\ pending'[Len(pending) + 1] = m
      /\ \A k \in 1..Len(pending) : pending'[k] = pending[k]
  BY <1>1, <1>2, <1>3, AppendProperties
<1>. QED
  BY <1>1, <1>2, <1>4, MaxMessagesNat DEF Begun, m

LEMMA TakeMoves ==
  ASSUME QueueInv, NEW d \in Dispatchers, Queue!Take(d)
  PROVE  /\ issued \in Nat /\ issued' = issued /\ 1 \in 1..Len(pending)
         /\ Len(pending) \in Nat /\ Len(pending') = Len(pending) - 1 /\ Len(pending) <= issued
         /\ pending' \in Seq(Message) /\ pending[1] \in Message
         /\ Begun' = Begun + 1 /\ Begun \in Nat /\ pending[1].id = Begun + 1
         /\ \A k \in 1..Len(pending') : k + 1 \in 1..Len(pending) /\ pending'[k] = pending[k + 1]
         /\ taken[d] = NoMessage /\ taken' = [taken EXCEPT ![d] = pending[1]]
         /\ UNCHANGED settled
<1>1. /\ issued \in 0..MaxMessages /\ pending \in Seq(Message) /\ Len(pending) <= issued
      /\ Len(pending) \in Nat
  BY LenProperties DEF QueueInv, QueueTypes
<1>2. /\ pending # <<>> /\ pending' = Tail(pending) /\ UNCHANGED <<issued, settled>>
      /\ taken[d] = NoMessage /\ taken' = [taken EXCEPT ![d] = Head(pending)]
  BY DEF Queue!Take
<1>3. /\ Head(pending) = pending[1] /\ Tail(pending) \in Seq(Message)
      /\ Len(Tail(pending)) = Len(pending) - 1
      /\ \A k \in 1..Len(Tail(pending)) : Tail(pending)[k] = pending[k + 1]
  BY <1>1, <1>2, HeadTailProperties
<1>4. Len(pending) # 0
  BY <1>1, <1>2, EmptySeq
<1>5. 1 \in 1..Len(pending) /\ pending[1] \in Message
  BY <1>1, <1>4, ElementOfSeq
<1>6. pending[1].id = Begun + 1
  BY <1>5 DEF QueueInv, PendingInOrder
<1>. QED
  BY <1>1, <1>2, <1>3, <1>5, <1>6, MaxMessagesNat DEF Begun

LEMMA SettleMoves ==
  ASSUME QueueInv, NEW d \in Dispatchers, Queue!Settle(d)
  PROVE  /\ Busy(d) /\ settled' = settled \cup {taken[d].id}
         /\ taken' = [taken EXCEPT ![d] = NoMessage]
         /\ UNCHANGED <<pending, issued>> /\ Begun' = Begun
  BY DEF Queue!Settle, Busy, Begun

LEMMA NextQueue == QueueInv /\ [Next]_vars => QueueInv'
<1>. SUFFICES ASSUME QueueInv, [Next]_vars
              PROVE  QueueInv'
  OBVIOUS
<1>1. ASSUME NEW t \in Topics, Queue!Issue(t)
      PROVE  QueueInv'
  <2>1. /\ issued \in Nat /\ issued + 1 \in 1..MaxMessages /\ issued' = issued + 1
        /\ Len(pending) \in Nat /\ Len(pending') = Len(pending) + 1 /\ pending' \in Seq(Message)
        /\ Begun' = Begun /\ Begun \in Nat /\ Begun <= issued
        /\ pending'[Len(pending) + 1] = [id |-> issued + 1, topic |-> t]
        /\ \A k \in 1..Len(pending) : pending'[k] = pending[k]
        /\ UNCHANGED <<taken, settled>>
    BY <1>1, IssueMoves
  <2>2. QueueTypes'
    BY <2>1, MaxMessagesNat DEF QueueInv, QueueTypes
  <2>3. PendingInOrder'
    <3>1. \A k \in 1..Len(pending') : k \in 1..Len(pending) \/ k = Len(pending) + 1
      BY <2>1
    <3>2. issued + 1 = Begun + (Len(pending) + 1)
      BY <2>1 DEF Begun
    <3>3. pending'[Len(pending) + 1].id = Begun + (Len(pending) + 1)
      BY <2>1, <3>2
    <3>. QED
      BY <2>1, <3>1, <3>3 DEF QueueInv, PendingInOrder
  <2>4. TakenBegun' /\ TakenOnce' /\ SettledBegun'
    BY <2>1 DEF QueueInv, TakenBegun, TakenOnce, SettledBegun, Busy
  <2>. QED
    BY <2>2, <2>3, <2>4 DEF QueueInv
<1>2. ASSUME NEW d \in Dispatchers, Queue!Take(d)
      PROVE  QueueInv'
  <2>1. /\ issued \in Nat /\ issued' = issued
        /\ Len(pending) \in Nat /\ Len(pending') = Len(pending) - 1 /\ Len(pending) <= issued
        /\ pending' \in Seq(Message) /\ pending[1] \in Message
        /\ Begun' = Begun + 1 /\ Begun \in Nat /\ pending[1].id = Begun + 1
        /\ \A k \in 1..Len(pending') : k + 1 \in 1..Len(pending) /\ pending'[k] = pending[k + 1]
        /\ taken[d] = NoMessage /\ taken' = [taken EXCEPT ![d] = pending[1]]
        /\ UNCHANGED settled
    BY <1>2, TakeMoves
  <2>2. taken'[d] = pending[1] /\ \A e \in Dispatchers \ {d} : taken'[e] = taken[e]
    BY <2>1 DEF QueueInv, QueueTypes
  <2>3. QueueTypes'
    BY <2>1 DEF QueueInv, QueueTypes
  <2>4. PendingInOrder'
    <3>1. ASSUME NEW k \in 1..Len(pending')
          PROVE  pending'[k].id = Begun' + k
      <4>1. pending'[k].id = Begun + (k + 1)
        BY <2>1 DEF QueueInv, PendingInOrder
      <4>. QED
        BY <2>1, <4>1
    <3>. QED
      BY <3>1 DEF PendingInOrder
  <2>5. 1..Begun \subseteq 1..Begun' /\ Begun + 1 \in 1..Begun' /\ Begun + 1 \notin 1..Begun
    BY <2>1
  <2>6. SettledBegun' /\ TakenBegun'
    BY <2>1, <2>2, <2>5 DEF QueueInv, TakenBegun, SettledBegun, Busy
  <2>7. TakenOnce'
    BY <2>1, <2>2, <2>5 DEF QueueInv, TakenBegun, TakenOnce, Busy
  <2>. QED
    BY <2>3, <2>4, <2>6, <2>7 DEF QueueInv
<1>3. ASSUME NEW d \in Dispatchers, Queue!Settle(d)
      PROVE  QueueInv'
  <2>1. /\ Busy(d) /\ settled' = settled \cup {taken[d].id}
        /\ taken' = [taken EXCEPT ![d] = NoMessage]
        /\ UNCHANGED <<pending, issued>> /\ Begun' = Begun
    BY <1>3, SettleMoves
  <2>2. taken'[d] = NoMessage /\ \A e \in Dispatchers \ {d} : taken'[e] = taken[e]
    BY <2>1 DEF QueueInv, QueueTypes
  <2>3. QueueTypes' /\ PendingInOrder'
    BY <2>1 DEF QueueInv, QueueTypes, PendingInOrder
  <2>4. SettledBegun' /\ TakenOnce'
    BY <2>1, <2>2 DEF QueueInv, SettledBegun, TakenBegun, TakenOnce, Busy
  <2>5. TakenBegun'
    BY <2>1, <2>2 DEF QueueInv, TakenBegun, TakenOnce, Busy
  <2>. QED
    BY <2>3, <2>4, <2>5 DEF QueueInv
<1>4. CASE UNCHANGED queueVars
  BY <1>4 DEF queueVars, QueueInv, QueueTypes, PendingInOrder, TakenBegun, TakenOnce, SettledBegun,
              Busy, Begun
<1>. QED
  BY <1>1, <1>2, <1>3, <1>4, QueueStep

-----------------------------------------------------------------------------
(* What the dispatchers' steps do to the walks.                             *)

LEMMA SameCardinality == \A S : Walks!Cardinality(S) = Cardinality(S)
  BY DEF Walks!Cardinality, Cardinality, Walks!IsFiniteSet, IsFiniteSet

\* Walks carry on with the new lists.
LEMMA ListChangesMoves ==
  ASSUME ListChanges
  PROVE  /\ recent' = [d \in Dispatchers |->
                         IF stage[d] = "pick" THEN recent[d] \cup list'[taken[d].topic] ELSE recent[d]]
         /\ removals' = [d \in Dispatchers |->
                           IF stage[d] = "idle" THEN 0
                           ELSE removals[d] + Cardinality(list[taken[d].topic] \ list'[taken[d].topic])]
         /\ UNCHANGED <<pending, taken, settled, issued, stage, called, pointer, historyVars>>
         /\ UNCHANGED serverVars
<1>. DEFINE at0 == [d \in Dispatchers |-> IF stage[d] = "idle" THEN NoTopic ELSE taken[d].topic]
<1>1. /\ recent' = [d \in Dispatchers |->
                      IF stage[d] = "pick" THEN recent[d] \cup list'[at0[d]] ELSE recent[d]]
      /\ removals' = [d \in Dispatchers |->
                        IF stage[d] = "idle" THEN 0
                        ELSE removals[d] + Cardinality(list[at0[d]] \ list'[at0[d]])]
  BY SameCardinality DEF ListChanges, Walks!Observe
<1>2. \A d \in Dispatchers : stage[d] # "idle" => at0[d] = taken[d].topic
  OBVIOUS
<1>. HIDE DEF at0
<1>3. recent' = [d \in Dispatchers |->
                   IF stage[d] = "pick" THEN recent[d] \cup list'[taken[d].topic] ELSE recent[d]]
  BY <1>1, <1>2
<1>4. removals' = [d \in Dispatchers |->
                     IF stage[d] = "idle" THEN 0
                     ELSE removals[d] + Cardinality(list[taken[d].topic] \ list'[taken[d].topic])]
  BY <1>1, <1>2
<1>. QED
  BY <1>3, <1>4 DEF ListChanges, queueVars

LEMMA FindMoves ==
  ASSUME NEW d \in Dispatchers, Find(d)
  PROVE  /\ Busy(d) /\ stage[d] = "idle" /\ stage' = [stage EXCEPT ![d] = "count"]
         /\ UNCHANGED <<called, pointer, recent, removals>>
         /\ UNCHANGED <<serverVars, registryVars, queueVars, historyVars>>
  BY DEF Find, Walks!Start, Busy

LEMMA WalkMoves ==
  ASSUME NEW d \in Dispatchers, Walk(d)
  PROVE  /\ \/ /\ stage[d] = "count" /\ stage' = [stage EXCEPT ![d] = "pick"]
               /\ recent' = [recent EXCEPT ![d] = list[taken[d].topic]]
               /\ UNCHANGED pointer
            \/ \E s \in Subscribers :
                 /\ stage[d] = "pick" /\ stage' = [stage EXCEPT ![d] = "call"]
                 /\ s \in recent[d] \ called[d]
                 /\ recent' = [recent EXCEPT ![d] = {}]
                 /\ pointer' = [pointer EXCEPT ![d] = s]
         /\ UNCHANGED <<called, removals>>
         /\ UNCHANGED <<serverVars, registryVars, queueVars, historyVars>>
<1>0. UNCHANGED <<serverVars, registryVars, queueVars, historyVars>>
  BY DEF Walk
<1>1. CASE Walks!Count(d)
  <2>1. [e \in Dispatchers |-> IF stage[e] = "idle" THEN NoTopic ELSE taken[e].topic][d] = taken[d].topic
    BY <1>1 DEF Walks!Count
  <2>. QED
    BY <1>0, <1>1, <2>1 DEF Walks!Count
<1>2. ASSUME NEW s \in Subscribers, Walks!Pick(d, s)
      PROVE  /\ stage[d] = "pick" /\ stage' = [stage EXCEPT ![d] = "call"]
             /\ s \in recent[d] \ called[d]
             /\ recent' = [recent EXCEPT ![d] = {}]
             /\ pointer' = [pointer EXCEPT ![d] = s]
             /\ UNCHANGED <<called, removals>>
  BY <1>2 DEF Walks!Pick
<1>. QED
  BY <1>0, <1>1, <1>2 DEF Walk

LEMMA CallMoves ==
  ASSUME NEW d \in Dispatchers, OnReceive(d)
  PROVE  /\ stage[d] = "call" /\ stage' = [stage EXCEPT ![d] = "count"]
         /\ called' = [called EXCEPT ![d] = called[d] \cup ({pointer[d]} \ {NoSubscriber})]
         /\ pointer' = [pointer EXCEPT ![d] = NoSubscriber]
         /\ \E s \in Reached(pointer[d]) :
              received' = received \cup {[id |-> taken[d].id, through |-> pointer[d], sub |-> s,
                                          on |-> owner[handle[Maker(s)]]]}
         /\ UNCHANGED <<recent, removals, audience, older, heirs>>
         /\ UNCHANGED <<serverVars, registryVars, queueVars>>
  BY DEF OnReceive, Send, Walks!Call

LEMMA EndMoves ==
  ASSUME NEW d \in Dispatchers, End(d)
  PROVE  /\ stage[d] = "count" /\ stage' = [stage EXCEPT ![d] = "idle"]
         /\ Cardinality(list[taken[d].topic] \ called[d]) <= removals[d]
         /\ called' = [called EXCEPT ![d] = {}]
         /\ removals' = [removals EXCEPT ![d] = 0]
         /\ Queue!Settle(d)
         /\ UNCHANGED <<recent, pointer>>
         /\ UNCHANGED <<serverVars, registryVars, historyVars>>
<1>1. Walks!End(d) /\ Settle(d)
  BY DEF End
<1>2. [e \in Dispatchers |-> IF stage[e] = "idle" THEN NoTopic ELSE taken[e].topic][d] = taken[d].topic
  BY <1>1 DEF Walks!End
<1>. QED
  BY <1>1, <1>2, SameCardinality DEF Walks!End, Settle

-----------------------------------------------------------------------------
(* Types.                                                                   *)

WalkTypes ==
  /\ stage \in [Dispatchers -> {"idle", "count", "pick", "call"}]
  /\ called \in [Dispatchers -> SUBSET Subscribers]
  /\ recent \in [Dispatchers -> SUBSET Subscribers]
  /\ removals \in [Dispatchers -> Nat]
  /\ pointer \in [Dispatchers -> Subscribers \cup {NoSubscriber}]
  /\ \A d \in Dispatchers : stage[d] # "idle" => Busy(d)
  /\ \A d \in Dispatchers : pointer[d] # NoSubscriber <=> stage[d] = "call"

Coupled ==
  \A c \in Connections :
    /\ pc[c] \in {"none", "recv"} => at[c] = "serve"
    /\ pc[c] = "cleanup" => at[c] \in {"unsubscribe", "delete"}
    /\ pc[c] \in {"close", "gone"} => at[c] = "gone"

\* A walk's topic has been found.
WalkedKnown == \A d \in Dispatchers : stage[d] # "idle" => taken[d].topic \in known

TypeInv == ServerInv /\ RegistryInv /\ QueueInv /\ WalkTypes /\ WalkedKnown /\ Coupled

LEMMA RegistryTypes ==
  ASSUME RegistryInv
  PROVE  /\ known \subseteq Topics
         /\ list \in [Topics -> SUBSET Subscribers]
         /\ alive \subseteq Subscribers
         /\ at \in [Connections -> Reg!Locations]
         /\ newSub \in [Connections -> Subscribers \cup {NoSubscriber}]
         /\ clientSubs \in [Connections -> Seq(Subscribers)]
         /\ tag \in [Subscribers -> Topics \cup {NoTopic}]
         /\ \A c \in Connections : newSub[c] # NoSubscriber <=> at[c] \in {"append", "insert"}
         /\ \A t \in Topics : IsFiniteSet(list[t])
<1>1. \A S : Reg!IsFiniteSet(S) <=> IsFiniteSet(S)
  BY DEF IsFiniteSet, Reg!IsFiniteSet
<1>2. \A t \in Topics : IsFiniteSet(list[t])
  BY <1>1 DEF RegistryInv, Reg!ListInv, Reg!ListsFinite
<1>. QED
  BY <1>2 DEF RegistryInv, Reg!TypeInv, Reg!TypeOK

LEMMA InitTypes == Init => TypeInv
<1>. SUFFICES ASSUME Init PROVE TypeInv
  OBVIOUS
<1>1. WalkTypes
  BY DEF Init, WalkTypes
<1>2. Coupled
  BY DEF Init, Coupled, Server!Init, Registry!Init
<1>3. WalkedKnown
  BY DEF Init, WalkedKnown
<1>. QED
  BY <1>1, <1>2, <1>3, ComponentInit, InitQueue DEF TypeInv

LEMMA NextCoupled == TypeInv /\ [Next]_vars => Coupled'
<1>. SUFFICES ASSUME TypeInv, [Next]_vars
              PROVE  Coupled'
  OBVIOUS
<1>. DEFINE Location == {"none", "recv", "check", "cleanup", "close", "gone"}
<1>0. /\ pc \in [Connections -> Location] /\ at \in [Connections -> Reg!Locations]
      /\ Coupled
  BY RegistryTypes DEF TypeInv, ServerInv, Srv!TypeInv, Srv!TypeOK, Srv!HandlerLocations
<1>1. ASSUME NEW c \in Connections, NEW p, NEW a,
             pc' = [pc EXCEPT ![c] = p], at' = [at EXCEPT ![c] = a],
             p \in {"none", "recv"} => a = "serve",
             p = "cleanup" => a \in {"unsubscribe", "delete"},
             p \in {"close", "gone"} => a = "gone"
      PROVE  Coupled'
  BY <1>0, <1>1 DEF Coupled
<1>2. ASSUME UNCHANGED <<pc, at>>
      PROVE  Coupled'
  BY <1>0, <1>2 DEF Coupled
<1>3. ASSUME NEW c \in Connections, NEW p, pc' = [pc EXCEPT ![c] = p], UNCHANGED at,
             p \in {"none", "recv"} => at[c] = "serve",
             p = "cleanup" => at[c] \in {"unsubscribe", "delete"},
             p \in {"close", "gone"} => at[c] = "gone"
      PROVE  Coupled'
  BY <1>0, <1>3 DEF Coupled
<1>4. ASSUME NEW c \in Connections, NEW a, at' = [at EXCEPT ![c] = a], UNCHANGED pc,
             pc[c] \in {"none", "recv"} => a = "serve",
             pc[c] = "cleanup" => a \in {"unsubscribe", "delete"},
             pc[c] \in {"close", "gone"} => a = "gone"
      PROVE  Coupled'
  BY <1>0, <1>4 DEF Coupled
<1>5. CASE ServerOnly
  <2>1. UNCHANGED at
    BY <1>5 DEF ServerOnly, registryVars
  <2>2. CASE Server!MainStep \/ Server!AcceptFails \/ Server!PressKey
    BY <1>2, <2>1, <2>2 DEF Server!MainStep, Server!InitServer, Server!ShutDown, Server!BeginShutDown, Server!Join,
       Server!JoinsDone, Server!JoinsDoneAt, Server!CloseListener, Server!AcceptFails, Server!PressKey, Server!handlerVars
  <2>3. ASSUME NEW c \in Connections, NEW h \in Handles, Server!Accept(c, h)
        PROVE  Coupled'
    <3>1. pc[c] = "none" /\ pc' = [pc EXCEPT ![c] = "recv"]
      BY <2>3 DEF Server!Accept, Server!Start, Server!Arrives
    <3>. QED
      BY <1>0, <1>3, <2>1, <3>1 DEF Coupled
  <2>4. ASSUME NEW c \in Connections, NEW h \in Handles, Server!AcceptInVain(c, h)
        PROVE  Coupled'
    BY <1>2, <2>1, <2>4 DEF Server!AcceptInVain, Server!handlerVars
  <2>5. ASSUME NEW c \in Connections, Server!Close(c)
        PROVE  Coupled'
    <3>1. pc[c] = "close" /\ pc' = [pc EXCEPT ![c] = "gone"]
      BY <2>5 DEF Server!Close, Server!Goto
    <3>. QED
      BY <1>0, <1>3, <2>1, <3>1 DEF Coupled
  <2>. QED
    BY <1>5, <2>2, <2>3, <2>4, <2>5 DEF ServerOnly
<1>6. ASSUME NEW c \in Connections, Server!Receive(c)
      PROVE  pc[c] = "recv" /\ pc' = [pc EXCEPT ![c] = "check"]
  BY <1>6 DEF Server!Receive, Server!Goto
<1>7. ASSUME NEW c \in Connections, ReceiveOther(c) \/ \E t \in Topics : ReceivePublish(c, t)
      PROVE  Coupled'
  BY <1>3, <1>6, <1>7 DEF ReceiveOther, ReceivePublish, registryVars
<1>8. ASSUME NEW c \in Connections, NEW t \in Topics, NEW s \in Subscribers, ReceiveSubscribe(c, t, s)
      PROVE  Coupled'
  <2>1. \E a : at' = [at EXCEPT ![c] = a]
    BY <1>8 DEF ReceiveSubscribe, Registry!Subscribe, Registry!Announce, Registry!Goto
  <2>. QED
    BY <1>1, <1>6, <1>8, <2>1 DEF ReceiveSubscribe
<1>9. ASSUME NEW c \in Connections, Subscribe(c)
      PROVE  Coupled'
  <2>1. at[c] \in {"append", "insert"} /\ at' = [at EXCEPT ![c] = "serve"] /\ UNCHANGED pc
    BY <1>9 DEF Subscribe, ListChanges, serverVars, Registry!AppendToFound, Registry!Insert, Registry!Return,
       Registry!Goto
  <2>. QED
    BY <1>0, <1>4, <2>1 DEF Coupled
<1>10. ASSUME NEW c \in Connections, Check(c)
       PROVE  Coupled'
  <2>1. at[c] = "serve" /\ pc' = [pc EXCEPT ![c] = IF cancel THEN "cleanup" ELSE "recv"]
    BY <1>10 DEF Check, EndRound, Server!Check, Server!CheckToken, Server!Goto
  <2>2. CASE cancel
    <3>1. at' = [at EXCEPT ![c] = "unsubscribe"]
      BY <1>10, <2>2 DEF Check, Registry!Disconnect, Registry!Leave, Registry!Goto
    <3>. QED
      BY <1>1, <2>1, <2>2, <3>1
  <2>3. CASE ~cancel
    BY <1>3, <1>10, <2>1, <2>3 DEF Check, registryVars
  <2>. QED
    BY <2>2, <2>3
<1>11. ASSUME NEW c \in Connections, HangUp(c)
       PROVE  Coupled'
  <2>1. /\ pc' = [pc EXCEPT ![c] = "cleanup"] /\ at' = [at EXCEPT ![c] = "unsubscribe"]
    BY <1>11 DEF HangUp, Server!HangUp, Server!Goto, Registry!Disconnect, Registry!Leave, Registry!Goto
  <2>. QED
    BY <1>1, <2>1
<1>12. ASSUME NEW c \in Connections, Unsubscribe(c) \/ Delete(c)
       PROVE  Coupled'
  <2>1. /\ at[c] \in {"unsubscribe", "delete"} /\ UNCHANGED pc
        /\ \E a \in {"unsubscribe", "delete"} : at' = [at EXCEPT ![c] = a]
    BY <1>12 DEF Unsubscribe, Delete, ListChanges, serverVars, Registry!Unsubscribe, Registry!TakeOut,
       Registry!Delete, Registry!Goto
  <2>. QED
    BY <1>0, <1>4, <2>1 DEF Coupled
<1>13. ASSUME NEW c \in Connections, Cleanup(c)
       PROVE  Coupled'
  <2>1. /\ pc' = [pc EXCEPT ![c] = "close"] /\ at' = [at EXCEPT ![c] = "gone"]
    BY <1>13 DEF Cleanup, Server!Cleanup, Server!Goto, Registry!Finish, Registry!Goto
  <2>. QED
    BY <1>1, <2>1
<1>14. ASSUME NEW d \in Dispatchers, Take(d) \/ Find(d) \/ Return(d) \/ Walk(d) \/ OnReceive(d) \/ End(d)
       PROVE  UNCHANGED <<pc, at>>
  BY <1>14 DEF Take, Find, Return, Walk, OnReceive, Send, End, Settle, serverVars, registryVars
<1>15. CASE UNCHANGED vars
  BY <1>2, <1>15 DEF vars, serverVars, registryVars
<1>. QED
  BY <1>2, <1>5, <1>7, <1>8, <1>9, <1>10, <1>11, <1>12, <1>13, <1>14, <1>15, StepCases

\* The steps as the walks see them.
LEMMA WalkCases ==
  ASSUME [Next]_vars
  PROVE  \/ /\ UNCHANGED <<taken, walkVars, received, list>>
            /\ UNCHANGED tag \/ \E s \in Subscribers, t \in Topics :
                                  tag[s] = NoTopic /\ tag' = [tag EXCEPT ![s] = t]
         \/ \E c \in Connections : Subscribe(c) \/ Unsubscribe(c)
         \/ \E d \in Dispatchers : Take(d)
         \/ \E d \in Dispatchers : Find(d)
         \/ \E d \in Dispatchers : Return(d)
         \/ \E d \in Dispatchers : Walk(d)
         \/ \E d \in Dispatchers : OnReceive(d)
         \/ \E d \in Dispatchers : End(d)
<1>. DEFINE Quiet ==
       /\ UNCHANGED <<taken, walkVars, received, list>>
       /\ UNCHANGED tag \/ \E s \in Subscribers, t \in Topics :
                             tag[s] = NoTopic /\ tag' = [tag EXCEPT ![s] = t]
<1>1. ASSUME NEW c \in Connections, ReceiveOther(c) \/ Check(c) \/ HangUp(c) \/ Delete(c) \/ Cleanup(c)
      PROVE  Quiet
  <2>1. UNCHANGED <<list, tag>>
    BY <1>1 DEF ReceiveOther, Check, HangUp, Delete, Cleanup, registryVars, Registry!Disconnect, Registry!Leave,
       Registry!Delete, Registry!Finish
  <2>2. UNCHANGED <<taken, walkVars, received>>
    BY <1>1 DEF ReceiveOther, Check, EndRound, HangUp, Delete, Cleanup, brokerVars, queueVars, historyVars
  <2>. QED
    BY <2>1, <2>2
<1>2. ASSUME NEW c \in Connections, NEW t \in Topics, ReceivePublish(c, t)
      PROVE  Quiet
  BY <1>2 DEF ReceivePublish, Queue!Issue, registryVars
<1>3. ASSUME NEW c \in Connections, NEW t \in Topics, NEW s \in Subscribers, ReceiveSubscribe(c, t, s)
      PROVE  Quiet
  <2>1. UNCHANGED list /\ tag[s] = NoTopic /\ tag' = [tag EXCEPT ![s] = t]
    BY <1>3 DEF ReceiveSubscribe, Registry!Subscribe, Registry!Announce
  <2>2. UNCHANGED <<taken, walkVars, received>>
    BY <1>3 DEF ReceiveSubscribe, brokerVars, queueVars, historyVars
  <2>. QED
    BY <2>1, <2>2
<1>4. CASE ServerOnly \/ UNCHANGED vars
  BY <1>4 DEF ServerOnly, vars, brokerVars, registryVars, queueVars, historyVars
<1>. QED
  BY <1>1, <1>2, <1>3, <1>4, StepCases

\* What a walk refers to is there.
LEMMA BusyTypes ==
  ASSUME TypeInv, NEW d \in Dispatchers, Busy(d)
  PROVE  taken[d] \in Message /\ taken[d].id \in Nat /\ taken[d].topic \in Topics
<1>1. taken[d] \in Message
  BY DEF TypeInv, QueueInv, QueueTypes, Busy
<1>. QED
  BY <1>1 DEF Message

\* Topics are never erased.
LEMMA KnownGrows == [Next]_vars => known \subseteq known'
<1>. SUFFICES ASSUME [Next]_vars PROVE known \subseteq known'
  OBVIOUS
<1>1. [Reg!Next]_(Reg!vars)
  BY RegistryStep
<1>2. ASSUME NEW c \in Connections, Reg!Insert(c)
      PROVE  known \subseteq known'
  BY <1>2 DEF Reg!Insert
<1>. QED
  BY <1>1, <1>2 DEF Reg!Next, Reg!vars, Reg!Subscribe, Reg!Announce, Reg!AppendToFound, Reg!Disconnect,
     Reg!Leave, Reg!Unsubscribe, Reg!Delete, Reg!Finish

LEMMA NextWalkTypes == TypeInv /\ RegistryInv' /\ [Next]_vars => WalkTypes'
<1>. SUFFICES ASSUME TypeInv, RegistryInv', [Next]_vars
              PROVE  WalkTypes'
  OBVIOUS
<1>0. WalkTypes /\ list \in [Topics -> SUBSET Subscribers]
      /\ list' \in [Topics -> SUBSET Subscribers] /\ \A t \in Topics : IsFiniteSet(list[t])
  <2>1. RegistryInv
    BY DEF TypeInv
  <2>2. list' \in [Topics -> SUBSET Subscribers]
    BY DEF RegistryInv, Reg!TypeInv, Reg!TypeOK
  <2>. QED
    BY <2>1, <2>2, RegistryTypes DEF TypeInv
<1>1. CASE UNCHANGED <<taken, walkVars>>
  BY <1>0, <1>1 DEF walkVars, WalkTypes, Busy
<1>2. ASSUME NEW c \in Connections, Subscribe(c) \/ Unsubscribe(c)
      PROVE  WalkTypes'
  <2>1. /\ recent' = [d \in Dispatchers |->
                        IF stage[d] = "pick" THEN recent[d] \cup list'[taken[d].topic] ELSE recent[d]]
        /\ removals' = [d \in Dispatchers |->
                          IF stage[d] = "idle" THEN 0
                          ELSE removals[d] + Cardinality(list[taken[d].topic] \ list'[taken[d].topic])]
        /\ UNCHANGED <<taken, stage, called, pointer>>
    BY <1>2, ListChangesMoves DEF Subscribe, Unsubscribe
  <2>2. \A d \in Dispatchers : stage[d] # "idle" => taken[d].topic \in Topics
    BY <1>0, BusyTypes DEF WalkTypes
  <2>3. recent' \in [Dispatchers -> SUBSET Subscribers]
    <3>1. ASSUME NEW d \in Dispatchers
          PROVE  (IF stage[d] = "pick" THEN recent[d] \cup list'[taken[d].topic] ELSE recent[d]) \in SUBSET Subscribers
      <4>1. recent[d] \subseteq Subscribers
        BY <1>0 DEF WalkTypes
      <4>2. stage[d] = "pick" => list'[taken[d].topic] \subseteq Subscribers
        BY <1>0, <2>2
      <4>. QED
        BY <4>1, <4>2
    <3>. QED
      BY <2>1, <3>1
  <2>4. removals' \in [Dispatchers -> Nat]
    <3>1. ASSUME NEW d \in Dispatchers, stage[d] # "idle"
          PROVE  removals[d] + Cardinality(list[taken[d].topic] \ list'[taken[d].topic]) \in Nat
      <4>1. Cardinality(list[taken[d].topic] \ list'[taken[d].topic]) \in Nat
        BY <1>0, <2>2, <3>1, FS_Difference, FS_CardinalityType
      <4>2. removals[d] \in Nat
        BY <1>0 DEF WalkTypes
      <4>. QED
        BY <4>1, <4>2
    <3>. QED
      BY <2>1, <3>1
  <2>. QED
    BY <1>0, <2>1, <2>3, <2>4 DEF WalkTypes, Busy
<1>3. ASSUME NEW d \in Dispatchers, Take(d)
      PROVE  WalkTypes'
  <2>1. /\ taken[d] = NoMessage /\ \E m : taken' = [taken EXCEPT ![d] = m]
        /\ UNCHANGED walkVars
    BY <1>3 DEF Take, Queue!Take
  <2>2. \A e \in Dispatchers : e # d => taken'[e] = taken[e]
    BY <2>1 DEF TypeInv, QueueInv, QueueTypes
  <2>. QED
    BY <1>0, <2>1, <2>2 DEF walkVars, WalkTypes, Busy
<1>4. ASSUME NEW d \in Dispatchers, Find(d)
      PROVE  WalkTypes'
  <2>1. /\ Busy(d) /\ stage[d] = "idle" /\ stage' = [stage EXCEPT ![d] = "count"]
        /\ UNCHANGED <<called, pointer, recent, removals, taken>>
    BY <1>4, FindMoves DEF queueVars
  <2>. QED
    BY <1>0, <2>1 DEF WalkTypes, Busy
<1>5. ASSUME NEW d \in Dispatchers, Return(d)
      PROVE  WalkTypes'
  <2>1. /\ taken' = [taken EXCEPT ![d] = NoMessage] /\ UNCHANGED walkVars
    BY <1>5 DEF Return, Queue!Settle
  <2>2. stage[d] = "idle"
    BY <1>5 DEF TypeInv, WalkedKnown, Return
  <2>3. \A e \in Dispatchers : e # d => taken'[e] = taken[e]
    BY <2>1 DEF TypeInv, QueueInv, QueueTypes
  <2>. QED
    BY <1>0, <2>1, <2>2, <2>3 DEF walkVars, WalkTypes, Busy
<1>6. ASSUME NEW d \in Dispatchers, Walk(d)
      PROVE  WalkTypes'
  <2>1. UNCHANGED <<called, removals, taken>>
    BY <1>6, WalkMoves DEF queueVars
  <2>2. CASE /\ stage[d] = "count" /\ stage' = [stage EXCEPT ![d] = "pick"]
             /\ recent' = [recent EXCEPT ![d] = list[taken[d].topic]]
             /\ UNCHANGED pointer
    <3>1. list[taken[d].topic] \in SUBSET Subscribers
      BY <1>0, <2>2, BusyTypes DEF WalkTypes
    <3>. QED
      BY <1>0, <2>1, <2>2, <3>1 DEF WalkTypes, Busy
  <2>3. ASSUME NEW s \in Subscribers,
               stage[d] = "pick", stage' = [stage EXCEPT ![d] = "call"],
               recent' = [recent EXCEPT ![d] = {}],
               pointer' = [pointer EXCEPT ![d] = s]
        PROVE  WalkTypes'
    BY <1>0, <2>1, <2>3, NoneOfThese DEF WalkTypes, Busy
  <2>. QED
    BY <1>6, <2>2, <2>3, WalkMoves
<1>7. ASSUME NEW d \in Dispatchers, OnReceive(d)
      PROVE  WalkTypes'
  <2>1. /\ stage[d] = "call" /\ stage' = [stage EXCEPT ![d] = "count"]
        /\ called' = [called EXCEPT ![d] = called[d] \cup ({pointer[d]} \ {NoSubscriber})]
        /\ pointer' = [pointer EXCEPT ![d] = NoSubscriber]
        /\ UNCHANGED <<recent, removals, taken>>
    BY <1>7, CallMoves DEF queueVars
  <2>2. called[d] \cup ({pointer[d]} \ {NoSubscriber}) \in SUBSET Subscribers
    BY <1>0 DEF WalkTypes
  <2>. QED
    BY <1>0, <2>1, <2>2 DEF WalkTypes, Busy
<1>8. ASSUME NEW d \in Dispatchers, End(d)
      PROVE  WalkTypes'
  <2>1. /\ stage[d] = "count" /\ stage' = [stage EXCEPT ![d] = "idle"]
        /\ called' = [called EXCEPT ![d] = {}]
        /\ removals' = [removals EXCEPT ![d] = 0]
        /\ taken' = [taken EXCEPT ![d] = NoMessage]
        /\ UNCHANGED <<recent, pointer>>
    BY <1>8, EndMoves DEF Queue!Settle
  <2>2. \A e \in Dispatchers : e # d => taken'[e] = taken[e]
    BY <2>1 DEF TypeInv, QueueInv, QueueTypes
  <2>. QED
    BY <1>0, <2>1, <2>2 DEF WalkTypes, Busy
<1>. QED
  BY <1>1, <1>2, <1>3, <1>4, <1>5, <1>6, <1>7, <1>8, WalkCases

LEMMA NextWalkedKnown == TypeInv /\ [Next]_vars => WalkedKnown'
<1>. SUFFICES ASSUME TypeInv, [Next]_vars, NEW d \in Dispatchers, stage'[d] # "idle"
              PROVE  taken'[d].topic \in known'
  BY DEF WalkedKnown
<1>0. /\ known \subseteq known'
      /\ stage[d] # "idle" => taken[d].topic \in known
      /\ stage[d] # "idle" => taken[d] # NoMessage
      /\ stage \in [Dispatchers -> {"idle", "count", "pick", "call"}]
      /\ taken \in [Dispatchers -> Message \cup {NoMessage}]
  BY KnownGrows DEF TypeInv, WalkedKnown, WalkTypes, QueueInv, QueueTypes, Busy
<1>1. CASE stage[d] # "idle" /\ taken'[d] = taken[d]
  BY <1>0, <1>1
<1>2. CASE UNCHANGED <<taken, walkVars>>
  BY <1>1, <1>2 DEF walkVars
<1>3. ASSUME NEW c \in Connections, Subscribe(c) \/ Unsubscribe(c)
      PROVE  stage[d] # "idle" /\ taken'[d] = taken[d]
  BY <1>3, ListChangesMoves DEF Subscribe, Unsubscribe
<1>4. ASSUME NEW e \in Dispatchers, Take(e)
      PROVE  stage[d] # "idle" /\ taken'[d] = taken[d]
  <2>1. taken[e] = NoMessage /\ UNCHANGED walkVars /\ \E m : taken' = [taken EXCEPT ![e] = m]
    BY <1>4 DEF Take, Queue!Take
  <2>. QED
    BY <1>0, <2>1 DEF walkVars
<1>5. ASSUME NEW e \in Dispatchers, Find(e)
      PROVE  taken'[d].topic \in known'
  <2>0. taken[e].topic \in known
    BY <1>5 DEF Find
  <2>1. stage' = [stage EXCEPT ![e] = "count"] /\ UNCHANGED taken
    BY <1>5, FindMoves DEF queueVars
  <2>2. CASE d = e
    BY <1>0, <2>0, <2>1, <2>2
  <2>3. CASE d # e
    BY <1>0, <1>1, <2>1, <2>3
  <2>. QED
    BY <2>2, <2>3
<1>6. ASSUME NEW e \in Dispatchers, Return(e)
      PROVE  stage[d] # "idle" /\ taken'[d] = taken[d]
  <2>0. taken[e].topic \notin known
    BY <1>6 DEF Return
  <2>1. taken' = [taken EXCEPT ![e] = NoMessage] /\ UNCHANGED walkVars
    BY <1>6 DEF Return, Queue!Settle
  <2>2. stage[e] = "idle"
    BY <2>0 DEF TypeInv, WalkedKnown
  <2>. QED
    BY <1>0, <2>1, <2>2 DEF walkVars
<1>7. ASSUME NEW e \in Dispatchers, Walk(e) \/ OnReceive(e)
      PROVE  stage[d] # "idle" /\ taken'[d] = taken[d]
  <2>1. /\ stage[e] # "idle" /\ \E p : stage' = [stage EXCEPT ![e] = p]
        /\ UNCHANGED taken
    BY <1>7, WalkMoves, CallMoves DEF queueVars
  <2>. QED
    BY <1>0, <2>1
<1>8. ASSUME NEW e \in Dispatchers, End(e)
      PROVE  stage[d] # "idle" /\ taken'[d] = taken[d]
  <2>1. stage' = [stage EXCEPT ![e] = "idle"] /\ taken' = [taken EXCEPT ![e] = NoMessage]
    BY <1>8, EndMoves DEF Queue!Settle
  <2>. QED
    BY <1>0, <2>1
<1>. QED
  BY <1>1, <1>2, <1>3, <1>4, <1>5, <1>6, <1>7, <1>8, WalkCases

LEMMA NextTypes == TypeInv /\ [Next]_vars => TypeInv'
  BY ComponentNext, NextQueue, NextCoupled, NextWalkTypes, NextWalkedKnown DEF TypeInv

\* Every value in the system is what it ought to be, in every component.
THEOREM TypeCorrect == Spec => []TypeOK
<1>1. TypeInv => TypeOK
  <2>. SUFFICES ASSUME TypeInv PROVE TypeOK
    OBVIOUS
  <2>1. Server!TypeOK
    BY DEF TypeInv, ServerInv, Srv!TypeInv, Server!TypeOK, Srv!TypeOK, Server!MainLocations, Srv!MainLocations,
       Server!HandlerLocations, Srv!HandlerLocations, Server!Accepted, Srv!Accepted
  <2>2. Registry!TypeOK
    BY DEF TypeInv, RegistryInv, Reg!TypeInv, Registry!TypeOK, Reg!TypeOK, Registry!Locations, Reg!Locations
  <2>. QED
    BY <2>1, <2>2 DEF TypeInv, WalkTypes, Coupled, TypeOK, Busy
<1>. QED
  BY <1>1, InitTypes, NextTypes, PTL DEF Spec

-----------------------------------------------------------------------------
(* Each subscriber is sent a message once.                                  *)

LEMMA TagKept ==
  ASSUME TypeInv, [Next]_vars, NEW s \in Subscribers, tag[s] \in Topics
  PROVE  tag'[s] = tag[s]
<1>0. tag \in [Subscribers -> Topics \cup {NoTopic}]
  BY RegistryTypes DEF TypeInv
<1>1. [Reg!Next]_(Reg!vars)
  BY RegistryStep
<1>2. ASSUME NEW c \in Connections, NEW t \in Topics, NEW x \in Subscribers, Reg!Subscribe(c, t, x)
      PROVE  tag'[s] = tag[s]
  BY <1>0, <1>2, NoneOfThese DEF Reg!Subscribe, Reg!Announce
<1>3. ASSUME NEW c \in Connections,
             \/ Reg!AppendToFound(c) \/ Reg!Insert(c) \/ Reg!Disconnect(c) \/ Reg!Unsubscribe(c)
             \/ Reg!Delete(c) \/ Reg!Finish(c)
      PROVE  UNCHANGED tag
  BY <1>3 DEF Reg!AppendToFound, Reg!Insert, Reg!Return, Reg!Disconnect, Reg!Leave, Reg!Unsubscribe,
     Reg!TakeOut, Reg!Delete, Reg!Finish
<1>. QED
  BY <1>1, <1>2, <1>3 DEF Reg!Next, Reg!vars

\* Who is after the list, or a subscriber, was or is at a look at the list.
LEMMA WalksOn ==
  ASSUME TypeInv, [Next]_vars, NEW d \in Dispatchers, stage'[d] \in {"pick", "call"}
  PROVE  /\ Busy(d) /\ taken'[d] = taken[d] /\ called'[d] = called[d]
         /\ \/ stage'[d] = stage[d] /\ recent'[d] = recent[d] /\ pointer'[d] = pointer[d]
            \/ stage'[d] = stage[d] /\ recent'[d] = recent[d] \cup list'[taken[d].topic]
                 /\ pointer'[d] = pointer[d] /\ stage[d] = "pick"
            \/ stage'[d] = "pick" /\ recent'[d] = list[taken[d].topic] /\ list' = list
            \/ stage'[d] = "call" /\ stage[d] = "pick" /\ pointer'[d] \in recent[d] \ called[d]
<1>. DEFINE Same == /\ taken'[d] = taken[d] /\ called'[d] = called[d]
                    /\ stage'[d] = stage[d] /\ recent'[d] = recent[d] /\ pointer'[d] = pointer[d]
            Goal == /\ taken'[d] = taken[d] /\ called'[d] = called[d] /\ stage[d] # "idle"
                    /\ \/ stage'[d] = stage[d] /\ recent'[d] = recent[d] /\ pointer'[d] = pointer[d]
                       \/ stage'[d] = stage[d] /\ recent'[d] = recent[d] \cup list'[taken[d].topic]
                            /\ pointer'[d] = pointer[d] /\ stage[d] = "pick"
                       \/ stage'[d] = "pick" /\ recent'[d] = list[taken[d].topic] /\ list' = list
                       \/ stage'[d] = "call" /\ stage[d] = "pick" /\ pointer'[d] \in recent[d] \ called[d]
<1>0. /\ stage \in [Dispatchers -> {"idle", "count", "pick", "call"}]
      /\ called \in [Dispatchers -> SUBSET Subscribers]
      /\ recent \in [Dispatchers -> SUBSET Subscribers]
      /\ pointer \in [Dispatchers -> Subscribers \cup {NoSubscriber}]
      /\ taken \in [Dispatchers -> Message \cup {NoMessage}]
      /\ stage[d] # "idle" => Busy(d)
  BY DEF TypeInv, WalkTypes, QueueInv, QueueTypes
<1>1. Same => Goal
  OBVIOUS
<1>2. ASSUME UNCHANGED <<taken, walkVars>>
      PROVE  Same
  BY <1>2 DEF walkVars
<1>3. ASSUME NEW c \in Connections, Subscribe(c) \/ Unsubscribe(c)
      PROVE  Goal
  <2>1. recent' = [e \in Dispatchers |->
                     IF stage[e] = "pick" THEN recent[e] \cup list'[taken[e].topic] ELSE recent[e]]
        /\ UNCHANGED <<taken, stage, called, pointer>>
    BY <1>3, ListChangesMoves DEF Subscribe, Unsubscribe
  <2>2. recent'[d] = IF stage[d] = "pick" THEN recent[d] \cup list'[taken[d].topic] ELSE recent[d]
    BY <2>1
  <2>3. UNCHANGED <<taken, stage, called, pointer>>
    BY <2>1
  <2>4. CASE stage[d] = "pick"
    BY <2>2, <2>3, <2>4
  <2>5. CASE stage[d] # "pick"
    BY <2>2, <2>3, <2>5
  <2>. QED
    BY <2>4, <2>5
<1>4. ASSUME NEW e \in Dispatchers, Take(e)
      PROVE  Same
  <2>1. taken[e] = NoMessage /\ UNCHANGED walkVars /\ \E m : taken' = [taken EXCEPT ![e] = m]
    BY <1>4 DEF Take, Queue!Take
  <2>. QED
    BY <1>0, <2>1 DEF walkVars, Busy
<1>5. ASSUME NEW e \in Dispatchers, Find(e)
      PROVE  Same
  <2>1. stage' = [stage EXCEPT ![e] = "count"] /\ UNCHANGED <<called, pointer, recent, taken>>
    BY <1>5, FindMoves DEF queueVars
  <2>. QED
    BY <1>0, <2>1
<1>6. ASSUME NEW e \in Dispatchers, Return(e)
      PROVE  Same
  <2>1. taken' = [taken EXCEPT ![e] = NoMessage] /\ UNCHANGED walkVars
    BY <1>6 DEF Return, Queue!Settle
  <2>2. stage[e] = "idle"
    BY <1>6 DEF TypeInv, WalkedKnown, Return
  <2>. QED
    BY <1>0, <2>1, <2>2 DEF walkVars
<1>7. ASSUME NEW e \in Dispatchers, Walk(e)
      PROVE  Goal
  <2>1. UNCHANGED <<called, taken, list>>
    BY <1>7, WalkMoves DEF queueVars, registryVars
  <2>2. CASE /\ stage[e] = "count" /\ stage' = [stage EXCEPT ![e] = "pick"]
             /\ recent' = [recent EXCEPT ![e] = list[taken[e].topic]]
             /\ UNCHANGED pointer
    <3>1. CASE d = e
      BY <1>0, <2>1, <2>2, <3>1
    <3>2. CASE d # e
      BY <1>0, <1>1, <2>1, <2>2, <3>2
    <3>. QED
      BY <3>1, <3>2
  <2>3. ASSUME NEW s \in Subscribers,
               stage[e] = "pick", stage' = [stage EXCEPT ![e] = "call"],
               s \in recent[e] \ called[e],
               recent' = [recent EXCEPT ![e] = {}],
               pointer' = [pointer EXCEPT ![e] = s]
        PROVE  Goal
    <3>1. CASE d = e
      BY <1>0, <2>1, <2>3, <3>1
    <3>2. CASE d # e
      BY <1>0, <1>1, <2>1, <2>3, <3>2
    <3>. QED
      BY <3>1, <3>2
  <2>. QED
    BY <1>7, <2>2, <2>3, WalkMoves
<1>8. ASSUME NEW e \in Dispatchers, OnReceive(e)
      PROVE  Same
  <2>1. /\ stage' = [stage EXCEPT ![e] = "count"]
        /\ called' = [called EXCEPT ![e] = called[e] \cup ({pointer[e]} \ {NoSubscriber})]
        /\ pointer' = [pointer EXCEPT ![e] = NoSubscriber]
        /\ UNCHANGED <<recent, taken>>
    BY <1>8, CallMoves DEF queueVars
  <2>. QED
    BY <1>0, <2>1
<1>9. ASSUME NEW e \in Dispatchers, End(e)
      PROVE  Same
  <2>1. /\ stage' = [stage EXCEPT ![e] = "idle"] /\ called' = [called EXCEPT ![e] = {}]
        /\ taken' = [taken EXCEPT ![e] = NoMessage] /\ UNCHANGED <<recent, pointer>>
    BY <1>9, EndMoves DEF Queue!Settle
  <2>. QED
    BY <1>0, <2>1
<1>. HIDE DEF Same, Goal
<1>10. Goal
  BY <1>1, <1>2, <1>3, <1>4, <1>5, <1>6, <1>7, <1>8, <1>9, WalkCases
<1>. QED
  BY <1>0, <1>10 DEF Goal

LEMMA NextPointers ==
  ASSUME TypeInv, RegistryInv', WalkInv, [Next]_vars
  PROVE  RecentTagged' /\ PointerTagged' /\ PointerFresh'
<1>1. SUFFICES ASSUME NEW d \in Dispatchers, stage'[d] \in {"pick", "call"}
               PROVE  /\ stage'[d] = "pick" => \A s \in recent'[d] : tag'[s] = taken'[d].topic
                      /\ stage'[d] = "call" => tag'[pointer'[d]] = taken'[d].topic /\ pointer'[d] \notin called'[d]
  BY DEF RecentTagged, PointerTagged, PointerFresh
<1>2. /\ Busy(d) /\ taken'[d] = taken[d] /\ called'[d] = called[d]
      /\ \/ stage'[d] = stage[d] /\ recent'[d] = recent[d] /\ pointer'[d] = pointer[d]
         \/ stage'[d] = stage[d] /\ recent'[d] = recent[d] \cup list'[taken[d].topic]
              /\ pointer'[d] = pointer[d] /\ stage[d] = "pick"
         \/ stage'[d] = "pick" /\ recent'[d] = list[taken[d].topic] /\ list' = list
         \/ stage'[d] = "call" /\ stage[d] = "pick" /\ pointer'[d] \in recent[d] \ called[d]
  BY <1>1, WalksOn
<1>3. PICK t \in Topics : t = taken[d].topic
  BY <1>2, BusyTypes
<1>4. \A s \in Subscribers : tag[s] = t => tag'[s] = t
  BY <1>3, TagKept
<1>5. /\ recent[d] \subseteq Subscribers
      /\ stage[d] = "call" => pointer[d] \in Subscribers
      /\ list[t] \subseteq Subscribers
  <2>1. list \in [Topics -> SUBSET Subscribers]
    BY RegistryTypes DEF TypeInv
  <2>. QED
    BY <1>3, <2>1 DEF TypeInv, WalkTypes
<1>6. /\ \A s \in list[t] : tag[s] = t
      /\ \A s \in list'[t] : tag'[s] = t
  BY <1>3 DEF TypeInv, RegistryInv, Reg!ListInv, Reg!ListTagged
<1>7. /\ stage[d] = "pick" => \A s \in recent[d] : tag[s] = t
      /\ stage[d] = "call" => tag[pointer[d]] = t /\ pointer[d] \notin called[d]
  BY <1>3 DEF WalkInv, RecentTagged, PointerTagged, PointerFresh
<1>8. ASSUME stage'[d] = "pick", NEW s \in recent'[d]
      PROVE  tag'[s] = t
  <2>1. CASE stage[d] = "pick" /\ s \in recent[d]
    BY <1>4, <1>5, <1>7, <2>1
  <2>2. CASE s \in list'[t]
    BY <1>6, <2>2
  <2>. QED
    BY <1>2, <1>3, <1>8, <2>1, <2>2
<1>9. ASSUME stage'[d] = "call"
      PROVE  tag'[pointer'[d]] = t /\ pointer'[d] \notin called'[d]
  <2>1. CASE stage[d] = "call" /\ pointer'[d] = pointer[d]
    BY <1>2, <1>4, <1>5, <1>7, <2>1
  <2>2. CASE stage[d] = "pick" /\ pointer'[d] \in recent[d] \ called[d]
    BY <1>2, <1>4, <1>5, <1>7, <2>2
  <2>. QED
    BY <1>2, <1>9, <2>1, <2>2
<1>. QED
  BY <1>2, <1>3, <1>8, <1>9

\* The queue takes ids on from the front, one by one.
LEMMA BegunGrows ==
  ASSUME QueueInv, [Next]_vars
  PROVE  1..Begun \subseteq 1..Begun'
<1>1. Begun \in Nat
  <2>1. issued \in 0..MaxMessages /\ Len(pending) \in Nat /\ Len(pending) <= issued
    BY LenProperties DEF QueueInv, QueueTypes
  <2>. QED
    BY <2>1, MaxMessagesNat DEF Begun
<1>2. ASSUME NEW t \in Topics, Queue!Issue(t)
      PROVE  Begun' = Begun
  BY <1>2, IssueMoves
<1>3. ASSUME NEW d \in Dispatchers, Queue!Take(d)
      PROVE  Begun' = Begun + 1
  BY <1>3, TakeMoves
<1>4. ASSUME NEW d \in Dispatchers, Queue!Settle(d)
      PROVE  Begun' = Begun
  BY <1>4, SettleMoves
<1>5. ASSUME UNCHANGED queueVars
      PROVE  Begun' = Begun
  BY <1>5 DEF queueVars, Begun
<1>6. Begun' = Begun \/ Begun' = Begun + 1
  BY <1>2, <1>3, <1>4, <1>5, QueueStep
<1>. QED
  BY <1>1, <1>6

LEMMA NextSent ==
  ASSUME TypeInv, WalkInv, [Next]_vars
  PROVE  SentIsCalled'
<1>0. /\ called \in [Dispatchers -> SUBSET Subscribers]
      /\ pointer \in [Dispatchers -> Subscribers \cup {NoSubscriber}]
      /\ taken \in [Dispatchers -> Message \cup {NoMessage}]
      /\ SentIsCalled /\ TakenBegun /\ TakenOnce
      /\ 1..Begun \subseteq 1..Begun'
  BY BegunGrows DEF TypeInv, WalkTypes, QueueInv, QueueTypes, WalkInv
<1>1. ASSUME UNCHANGED received,
             \A d \in Dispatchers : Busy(d)' => Busy(d) /\ taken'[d] = taken[d] /\ called[d] \subseteq called'[d]
      PROVE  SentIsCalled'
  BY <1>0, <1>1 DEF SentIsCalled
<1>2. CASE UNCHANGED <<taken, walkVars, received>>
  BY <1>1, <1>2 DEF walkVars, Busy
<1>3. ASSUME NEW c \in Connections, Subscribe(c) \/ Unsubscribe(c)
      PROVE  UNCHANGED <<taken, called, received>>
  BY <1>3, ListChangesMoves DEF Subscribe, Unsubscribe, historyVars
<1>4. ASSUME NEW d \in Dispatchers, Take(d)
      PROVE  SentIsCalled'
  <2>1. taken' = [taken EXCEPT ![d] = pending[1]] /\ pending[1].id = Begun + 1 /\ Begun \in Nat
    BY <1>4, TakeMoves DEF Take, TypeInv
  <2>2. UNCHANGED <<called, received>>
    BY <1>4 DEF Take, walkVars, historyVars
  <2>3. taken'[d].id \notin 1..Begun
    BY <1>0, <2>1
  <2>4. \A e \in Dispatchers : e # d => taken'[e] = taken[e]
    BY <1>0, <2>1
  <2>5. ASSUME NEW r \in received
        PROVE  /\ r.id \in 1..Begun'
               /\ \A e \in Dispatchers : Busy(e)' /\ taken'[e].id = r.id => r.through \in called[e]
    <3>1. r.id \in 1..Begun /\ \A e \in Dispatchers : Busy(e) /\ taken[e].id = r.id => r.through \in called[e]
      BY <1>0, <2>5 DEF SentIsCalled
    <3>. QED
      BY <1>0, <2>3, <2>4, <3>1 DEF Busy
  <2>. QED
    BY <2>2, <2>5 DEF SentIsCalled
<1>5. ASSUME NEW d \in Dispatchers, Return(d) \/ End(d)
      PROVE  SentIsCalled'
  <2>1. taken' = [taken EXCEPT ![d] = NoMessage] /\ UNCHANGED received
    BY <1>5 DEF Return, End, Settle, Queue!Settle, historyVars
  <2>2. UNCHANGED called \/ called' = [called EXCEPT ![d] = {}]
    BY <1>5, EndMoves DEF Return, walkVars
  <2>. QED
    BY <1>0, <1>1, <2>1, <2>2 DEF Busy
<1>6. ASSUME NEW d \in Dispatchers, Find(d) \/ Walk(d)
      PROVE  UNCHANGED <<taken, called, received>>
  BY <1>6, FindMoves, WalkMoves DEF queueVars, historyVars
<1>7. ASSUME NEW d \in Dispatchers, OnReceive(d)
      PROVE  SentIsCalled'
  <2>1. /\ called' = [called EXCEPT ![d] = called[d] \cup ({pointer[d]} \ {NoSubscriber})]
        /\ stage[d] = "call" /\ UNCHANGED <<taken, pending, issued>>
        /\ \E x \in Reached(pointer[d]) :
             received' = received \cup {[id |-> taken[d].id, through |-> pointer[d], sub |-> x,
                                         on |-> owner[handle[Maker(x)]]]}
    BY <1>7, CallMoves DEF queueVars
  <2>2. PICK x, on : received' = received \cup {[id |-> taken[d].id, through |-> pointer[d], sub |-> x, on |-> on]}
    BY <2>1
  <2>3. Busy(d) /\ pointer[d] # NoSubscriber
    BY <2>1 DEF TypeInv, WalkTypes
  <2>4. /\ pointer[d] \in called'[d] /\ \A e \in Dispatchers : called[e] \subseteq called'[e]
        /\ UNCHANGED taken /\ Begun' = Begun
    BY <1>0, <2>1, <2>3 DEF Begun
  <2>5. ASSUME NEW r \in received'
        PROVE  /\ r.id \in 1..Begun
               /\ \A e \in Dispatchers : Busy(e) /\ taken[e].id = r.id => r.through \in called'[e]
    <3>1. CASE r \in received
      BY <1>0, <2>4, <3>1 DEF SentIsCalled
    <3>2. CASE r.id = taken[d].id /\ r.through = pointer[d]
      BY <1>0, <2>3, <2>4, <3>2 DEF TakenBegun, TakenOnce
    <3>. QED
      BY <2>2, <2>5, <3>1, <3>2
  <2>. QED
    BY <2>4, <2>5 DEF SentIsCalled, Busy
<1>. QED
  BY <1>1, <1>2, <1>3, <1>4, <1>5, <1>6, <1>7, WalkCases DEF Busy

LEMMA NextIdle ==
  ASSUME TypeInv, WalkInv, [Next]_vars
  PROVE  IdleCalledNone'
<1>. SUFFICES ASSUME NEW d \in Dispatchers, stage'[d] = "idle"
              PROVE  called'[d] = {}
  BY DEF IdleCalledNone
<1>0. /\ stage \in [Dispatchers -> {"idle", "count", "pick", "call"}]
      /\ called \in [Dispatchers -> SUBSET Subscribers]
      /\ stage[d] = "idle" => called[d] = {}
  BY DEF TypeInv, WalkTypes, WalkInv, IdleCalledNone
<1>1. ASSUME UNCHANGED <<stage, called>>
      PROVE  called'[d] = {}
  BY <1>0, <1>1
<1>2. ASSUME NEW c \in Connections, Subscribe(c) \/ Unsubscribe(c)
      PROVE  UNCHANGED <<stage, called>>
  BY <1>2, ListChangesMoves DEF Subscribe, Unsubscribe
<1>3. ASSUME NEW e \in Dispatchers, Take(e) \/ Return(e)
      PROVE  UNCHANGED <<stage, called>>
  BY <1>3 DEF Take, Return, walkVars
<1>4. ASSUME NEW e \in Dispatchers, Find(e) \/ Walk(e)
      PROVE  called'[d] = {}
  <2>1. UNCHANGED called /\ \E p \in {"count", "pick", "call"} : stage' = [stage EXCEPT ![e] = p]
    BY <1>4, FindMoves, WalkMoves
  <2>. QED
    BY <1>0, <2>1
<1>5. ASSUME NEW e \in Dispatchers, OnReceive(e)
      PROVE  called'[d] = {}
  <2>1. stage' = [stage EXCEPT ![e] = "count"] /\ \E S : called' = [called EXCEPT ![e] = S]
    BY <1>5, CallMoves
  <2>. QED
    BY <1>0, <2>1
<1>6. ASSUME NEW e \in Dispatchers, End(e)
      PROVE  called'[d] = {}
  <2>1. stage' = [stage EXCEPT ![e] = "idle"] /\ called' = [called EXCEPT ![e] = {}]
    BY <1>6, EndMoves
  <2>. QED
    BY <1>0, <2>1
<1>7. CASE UNCHANGED walkVars
  BY <1>1, <1>7 DEF walkVars
<1>. QED
  BY <1>1, <1>2, <1>3, <1>4, <1>5, <1>6, <1>7, WalkCases

LEMMA InitWalks == Init => WalkInv
  BY DEF Init, WalkInv, RecentTagged, PointerTagged, PointerFresh, SentIsCalled, IdleCalledNone

LEMMA NextWalks == TypeInv /\ WalkInv /\ [Next]_vars => WalkInv'
<1>. SUFFICES ASSUME TypeInv, WalkInv, [Next]_vars
              PROVE  WalkInv'
  OBVIOUS
<1>1. RegistryInv'
  BY NextTypes DEF TypeInv
<1>. QED
  BY <1>1, NextPointers, NextSent, NextIdle DEF WalkInv

-----------------------------------------------------------------------------
(* Memory that is used again.                                               *)

\* What the histories are about has been made.
HistoryTypes ==
  /\ heirs \in [Subscribers -> SUBSET Made]
  /\ older \in [1..MaxMessages -> SUBSET Made]
  /\ \A r \in received : r.sub \in Made

\* There is nothing else yet where a subscriber is or may be made.
AliveNoHeirs == \A p \in Subscribers : p \in alive \/ p \notin Made => heirs[p] = {}

\* Whom a walk may call or is about to call.
Aimed(d) == {p \in Subscribers : \/ stage[d] = "pick" /\ p \in recent[d]
                                 \/ stage[d] = "call" /\ p = pointer[d]}

\* It was there when the walk looked, so that what has its memory by now is
\* younger than the message, and has not been sent it.
HeirsYoung ==
  \A d \in Dispatchers : \A p \in Aimed(d) :
    /\ heirs[p] \cap older[taken[d].id] = {}
    /\ \A r \in received : r.id = taken[d].id => r.sub \notin heirs[p]

SentAstray == \A r \in received : r.through = r.sub \/ r.sub \notin older[r.id]

HistoryInv == HistoryTypes /\ AliveNoHeirs /\ HeirsYoung /\ SentAstray

\* The steps as the histories see them.
LEMMA HistoryCases ==
  ASSUME [Next]_vars
  PROVE  \/ \E c \in Connections, t \in Topics, s \in Subscribers : ReceiveSubscribe(c, t, s)
         \/ \E c \in Connections, t \in Topics : ReceivePublish(c, t)
         \/ \E d \in Dispatchers : OnReceive(d)
         \/ UNCHANGED <<heirs, older, received, tag>> /\ alive' \subseteq alive
<1>. DEFINE Quiet == UNCHANGED <<heirs, older, received, tag>> /\ alive' \subseteq alive
<1>1. ASSUME NEW c \in Connections, ReceiveOther(c) \/ Check(c) \/ HangUp(c) \/ Delete(c) \/ Cleanup(c)
      PROVE  Quiet
  <2>1. UNCHANGED tag /\ alive' \subseteq alive
    BY <1>1 DEF ReceiveOther, Check, HangUp, Delete, Cleanup, registryVars, Registry!Disconnect, Registry!Leave,
       Registry!Delete, Registry!Finish
  <2>2. UNCHANGED <<heirs, older, received>>
    BY <1>1 DEF ReceiveOther, Check, EndRound, HangUp, Delete, Cleanup, brokerVars, historyVars
  <2>. QED
    BY <2>1, <2>2
<1>2. ASSUME NEW c \in Connections, Subscribe(c) \/ Unsubscribe(c)
      PROVE  Quiet
  <2>1. UNCHANGED <<tag, alive>>
    BY <1>2 DEF Subscribe, Unsubscribe, Registry!AppendToFound, Registry!Insert, Registry!Return,
       Registry!Unsubscribe, Registry!TakeOut
  <2>2. UNCHANGED <<heirs, older, received>>
    BY <1>2 DEF Subscribe, Unsubscribe, ListChanges, historyVars
  <2>. QED
    BY <2>1, <2>2
<1>3. ASSUME NEW d \in Dispatchers, Take(d) \/ Find(d) \/ Return(d) \/ Walk(d) \/ End(d)
      PROVE  Quiet
  BY <1>3 DEF Take, Find, Return, Walk, End, Settle, registryVars, historyVars
<1>4. CASE ServerOnly \/ UNCHANGED vars
  BY <1>4 DEF ServerOnly, vars, brokerVars, registryVars, historyVars
<1>. QED
  BY <1>1, <1>2, <1>3, <1>4, StepCases

LEMMA SubscribeMoves ==
  ASSUME TypeInv, NEW c \in Connections, NEW t \in Topics, NEW s \in Subscribers, ReceiveSubscribe(c, t, s)
  PROVE  /\ s \notin Made /\ Made' = Made \cup {s} /\ alive' = alive \cup {s}
         /\ heirs' = [p \in Subscribers |-> IF p \in Made \ alive THEN heirs[p] \cup {s} ELSE heirs[p]]
         /\ UNCHANGED <<older, received>>
<1>1. tag[s] = NoTopic /\ tag' = [tag EXCEPT ![s] = t] /\ alive' = alive \cup {s}
  BY DEF ReceiveSubscribe, Registry!Subscribe, Registry!Announce
<1>2. tag \in [Subscribers -> Topics \cup {NoTopic}]
  BY RegistryTypes DEF TypeInv
<1>3. s \notin Made /\ Made' = Made \cup {s}
  BY <1>1, <1>2, NoneOfThese DEF Made
<1>. QED
  BY <1>1, <1>3 DEF ReceiveSubscribe

LEMMA PublishMoves ==
  ASSUME TypeInv, NEW c \in Connections, NEW t \in Topics, ReceivePublish(c, t)
  PROVE  /\ issued + 1 \in 1..MaxMessages /\ older' = [older EXCEPT ![issued + 1] = Made]
         /\ UNCHANGED <<heirs, received, alive, tag>>
         /\ Begun <= issued /\ issued \in Nat /\ Begun \in Nat
<1>1. Queue!Issue(t) /\ older' = [older EXCEPT ![issued'] = Made] /\ UNCHANGED <<heirs, received, alive, tag>>
  BY DEF ReceivePublish, registryVars
<1>2. /\ issued' = issued + 1 /\ issued + 1 \in 1..MaxMessages
      /\ Begun <= issued /\ issued \in Nat /\ Begun \in Nat
  BY <1>1, IssueMoves DEF TypeInv
<1>. QED
  BY <1>1, <1>2

\* A message that has been taken keeps its history.
LEMMA OlderFixed ==
  ASSUME TypeInv, HistoryTypes, [Next]_vars, NEW i \in 1..Begun
  PROVE  i \in 1..MaxMessages /\ older'[i] = older[i]
<1>1. i \in 1..MaxMessages
  <2>1. issued \in 0..MaxMessages /\ Len(pending) \in Nat /\ Len(pending) <= issued
    BY LenProperties DEF TypeInv, QueueInv, QueueTypes
  <2>. QED
    BY <2>1, MaxMessagesNat DEF Begun
<1>2. ASSUME NEW c \in Connections, NEW t \in Topics, ReceivePublish(c, t)
      PROVE  older'[i] = older[i]
  <2>1. older' = [older EXCEPT ![issued + 1] = Made] /\ i # issued + 1
    BY <1>2, PublishMoves
  <2>. QED
    BY <1>1, <2>1 DEF HistoryTypes
<1>3. ASSUME UNCHANGED older
      PROVE  older'[i] = older[i]
  BY <1>3
<1>4. ASSUME NEW d \in Dispatchers, OnReceive(d)
      PROVE  UNCHANGED older
  BY <1>4, CallMoves
<1>5. ASSUME NEW c \in Connections, NEW t \in Topics, NEW s \in Subscribers, ReceiveSubscribe(c, t, s)
      PROVE  UNCHANGED older
  BY <1>5, SubscribeMoves
<1>. QED
  BY <1>1, <1>2, <1>3, <1>4, <1>5, HistoryCases

\* Who is called is one that has been made, and so is who is reached.
LEMMA ReachedMade ==
  ASSUME TypeInv, WalkInv, HistoryTypes, NEW d \in Dispatchers, stage[d] = "call", NEW s \in Reached(pointer[d])
  PROVE  /\ pointer[d] \in Made /\ s \in Made
         /\ s = pointer[d] \/ (pointer[d] \notin alive /\ s \in heirs[pointer[d]])
<1>1. Busy(d) /\ pointer[d] \in Subscribers
  BY DEF TypeInv, WalkTypes
<1>2. tag[pointer[d]] \in Topics
  BY <1>1, BusyTypes DEF WalkInv, PointerTagged
<1>3. pointer[d] \in Made
  BY <1>1, <1>2, NoneOfThese DEF Made
<1>. QED
  BY <1>1, <1>3 DEF Reached, HistoryTypes

LEMMA NextHistoryTypes ==
  ASSUME TypeInv, WalkInv, HistoryTypes, AliveNoHeirs, [Next]_vars
  PROVE  HistoryTypes' /\ AliveNoHeirs'
<1>. USE DEF HistoryTypes, AliveNoHeirs
<1>1. ASSUME NEW c \in Connections, NEW t \in Topics, NEW s \in Subscribers, ReceiveSubscribe(c, t, s)
      PROVE  HistoryTypes' /\ AliveNoHeirs'
  <2>1. /\ s \notin Made /\ Made' = Made \cup {s} /\ alive' = alive \cup {s}
        /\ heirs' = [p \in Subscribers |-> IF p \in Made \ alive THEN heirs[p] \cup {s} ELSE heirs[p]]
        /\ UNCHANGED <<older, received>>
    BY <1>1, SubscribeMoves
  <2>2. AliveNoHeirs'
    BY <2>1
  <2>3. heirs' \in [Subscribers -> SUBSET Made']
    BY <2>1
  <2>. QED
    BY <2>1, <2>2, <2>3
<1>2. ASSUME NEW c \in Connections, NEW t \in Topics, ReceivePublish(c, t)
      PROVE  HistoryTypes' /\ AliveNoHeirs'
  <2>1. /\ older' = [older EXCEPT ![issued + 1] = Made]
        /\ UNCHANGED <<heirs, received, alive, tag>>
    BY <1>2, PublishMoves
  <2>. QED
    BY <2>1 DEF Made
<1>3. ASSUME NEW d \in Dispatchers, OnReceive(d)
      PROVE  HistoryTypes' /\ AliveNoHeirs'
  <2>1. PICK s \in Reached(pointer[d]) : \E on :
          received' = received \cup {[id |-> taken[d].id, through |-> pointer[d], sub |-> s, on |-> on]}
    BY <1>3, CallMoves
  <2>2. stage[d] = "call" /\ UNCHANGED <<heirs, older, alive, tag>>
    BY <1>3, CallMoves DEF registryVars
  <2>3. s \in Made
    BY <2>2, ReachedMade
  <2>4. \A r \in received' : r.sub \in Made
    BY <2>1, <2>3
  <2>. QED
    BY <2>2, <2>4 DEF Made
<1>4. CASE UNCHANGED <<heirs, older, received, tag>> /\ alive' \subseteq alive
  BY <1>4 DEF Made
<1>. QED
  BY <1>1, <1>2, <1>3, <1>4, HistoryCases

LEMMA NextHeirsYoung ==
  ASSUME TypeInv, RegistryInv', WalkInv, HistoryInv, AliveNoHeirs', [Next]_vars
  PROVE  HeirsYoung'
<1>. SUFFICES ASSUME NEW d \in Dispatchers, NEW p \in Aimed(d)'
              PROVE  /\ heirs'[p] \cap older'[taken'[d].id] = {}
                     /\ \A r \in received' : r.id = taken'[d].id => r.sub \notin heirs'[p]
  BY DEF HeirsYoung
<1>0. /\ p \in Subscribers /\ stage'[d] \in {"pick", "call"}
      /\ \/ stage'[d] = "pick" /\ p \in recent'[d]
         \/ stage'[d] = "call" /\ p = pointer'[d]
  BY DEF Aimed
<1>1. /\ Busy(d) /\ taken'[d] = taken[d]
      /\ \/ stage'[d] = stage[d] /\ recent'[d] = recent[d] /\ pointer'[d] = pointer[d]
         \/ stage'[d] = stage[d] /\ recent'[d] = recent[d] \cup list'[taken[d].topic]
              /\ pointer'[d] = pointer[d] /\ stage[d] = "pick"
         \/ stage'[d] = "pick" /\ recent'[d] = list[taken[d].topic] /\ list' = list
         \/ stage'[d] = "call" /\ stage[d] = "pick" /\ pointer'[d] \in recent[d] \ called[d]
  BY <1>0, WalksOn
<1>2. PICK i \in 1..Begun : i = taken[d].id
  BY <1>1 DEF TypeInv, QueueInv, TakenBegun
<1>3. PICK t \in Topics : t = taken[d].topic
  BY <1>1, BusyTypes
<1>4. CASE p \in list'[t]
  <2>1. p \in alive'
    BY <1>3, <1>4 DEF RegistryInv, Reg!LeftInv, Reg!ListedAlive
  <2>2. heirs'[p] = {}
    BY <1>0, <2>1 DEF AliveNoHeirs
  <2>. QED
    BY <2>2
<1>5. CASE p \in Aimed(d)
  <2>1. /\ heirs[p] \cap older[i] = {} /\ \A r \in received : r.id = i => r.sub \notin heirs[p]
        /\ heirs[p] \subseteq Made /\ older[i] \subseteq Made /\ \A r \in received : r.sub \in Made
        /\ older'[i] = older[i]
    BY <1>0, <1>2, <1>5, OlderFixed DEF HistoryInv, HeirsYoung, HistoryTypes
  <2>2. ASSUME NEW c \in Connections, NEW u \in Topics, NEW s \in Subscribers, ReceiveSubscribe(c, u, s)
        PROVE  /\ heirs'[p] \cap older[i] = {} /\ \A r \in received' : r.id = i => r.sub \notin heirs'[p]
    <3>1. /\ s \notin Made /\ UNCHANGED received
          /\ heirs' = [q \in Subscribers |-> IF q \in Made \ alive THEN heirs[q] \cup {s} ELSE heirs[q]]
      BY <2>2, SubscribeMoves
    <3>2. heirs'[p] \subseteq heirs[p] \cup {s}
      BY <1>0, <3>1
    <3>. QED
      BY <2>1, <3>1, <3>2
  <2>3. ASSUME NEW c \in Connections, NEW u \in Topics, ReceivePublish(c, u)
        PROVE  UNCHANGED <<heirs, received>>
    BY <2>3, PublishMoves
  <2>4. ASSUME NEW e \in Dispatchers, OnReceive(e)
        PROVE  UNCHANGED heirs /\ \A r \in received' : r.id = i => r \in received
    <3>1. /\ stage[e] = "call" /\ stage' = [stage EXCEPT ![e] = "count"] /\ UNCHANGED heirs
          /\ \E s, on : received' = received \cup
               {[id |-> taken[e].id, through |-> pointer[e], sub |-> s, on |-> on]}
      BY <2>4, CallMoves
    <3>2. stage'[e] = "count" /\ Busy(e)
      BY <3>1 DEF TypeInv, WalkTypes
    <3>3. taken[e].id # i
      BY <1>0, <1>1, <1>2, <3>2 DEF TypeInv, QueueInv, TakenOnce
    <3>. QED
      BY <3>1, <3>3
  <2>5. /\ heirs'[p] \cap older[i] = {} /\ \A r \in received' : r.id = i => r.sub \notin heirs'[p]
    BY <2>1, <2>2, <2>3, <2>4, HistoryCases
  <2>. QED
    BY <1>1, <1>2, <2>1, <2>5
<1>6. p \in list'[t] \/ p \in Aimed(d)
  BY <1>0, <1>1, <1>3 DEF Aimed
<1>. QED
  BY <1>4, <1>5, <1>6

LEMMA NextSentAstray ==
  ASSUME TypeInv, WalkInv, HistoryInv, [Next]_vars
  PROVE  SentAstray'
<1>. SUFFICES ASSUME NEW r \in received'
              PROVE  r.through = r.sub \/ r.sub \notin older'[r.id]
  BY DEF SentAstray
<1>1. CASE r \in received
  <2>1. PICK i \in 1..Begun : i = r.id
    BY <1>1 DEF WalkInv, SentIsCalled
  <2>2. older'[i] = older[i]
    BY OlderFixed DEF HistoryInv
  <2>. QED
    BY <1>1, <2>1, <2>2 DEF HistoryInv, SentAstray
<1>2. ASSUME NEW d \in Dispatchers, OnReceive(d), r \notin received
      PROVE  r.through = r.sub \/ r.sub \notin older'[r.id]
  <2>1. PICK s \in Reached(pointer[d]) : r.id = taken[d].id /\ r.through = pointer[d] /\ r.sub = s
    BY <1>2, CallMoves
  <2>2. stage[d] = "call" /\ UNCHANGED older
    BY <1>2, CallMoves
  <2>3. pointer[d] \in Aimed(d)
    BY <2>2 DEF Aimed, TypeInv, WalkTypes
  <2>4. s = pointer[d] \/ s \in heirs[pointer[d]]
    BY <2>2, ReachedMade DEF HistoryInv
  <2>5. heirs[pointer[d]] \cap older[taken[d].id] = {}
    BY <2>3 DEF HistoryInv, HeirsYoung
  <2>. QED
    BY <2>1, <2>2, <2>4, <2>5
<1>3. ASSUME NEW c \in Connections, NEW t \in Topics,
             ReceivePublish(c, t) \/ \E s \in Subscribers : ReceiveSubscribe(c, t, s)
      PROVE  UNCHANGED received
  BY <1>3, PublishMoves, SubscribeMoves
<1>. QED
  BY <1>1, <1>2, <1>3, HistoryCases

LEMMA InitHistory == Init => HistoryInv
  BY NoneOfThese DEF Init, HistoryInv, HistoryTypes, AliveNoHeirs, HeirsYoung, SentAstray, Aimed

LEMMA NextHistory == TypeInv /\ WalkInv /\ HistoryInv /\ [Next]_vars => HistoryInv'
<1>. SUFFICES ASSUME TypeInv, WalkInv, HistoryInv, [Next]_vars
              PROVE  HistoryInv'
  OBVIOUS
<1>1. RegistryInv'
  BY NextTypes DEF TypeInv
<1>2. HistoryTypes' /\ AliveNoHeirs'
  BY NextHistoryTypes DEF HistoryInv
<1>. QED
  BY <1>1, <1>2, NextHeirsYoung, NextSentAstray DEF HistoryInv

\* No message is sent to a subscriber twice, whoever takes it and however the
\* list changes during the walk, but to one made after the publication in a
\* deleted one's memory: once in its name and once in its own.
THEOREM NeverSentTwice == Spec => []SentOnce
<1>1. TypeInv /\ WalkInv /\ HistoryInv => SentOnce
  <2>. SUFFICES ASSUME TypeInv, WalkInv, HistoryInv, NEW d \in Dispatchers, stage[d] = "call"
                PROVE  /\ \A s \in Reached(pointer[d]), q \in received :
                            q.id = taken[d].id /\ q.sub = s =>
                              /\ s = pointer[d] /\ s \notin older[taken[d].id]
                              /\ \A r \in received : r.id = taken[d].id /\ r.sub = s => r.through # s
                       /\ \A e \in Dispatchers \ {d} : taken[e] # taken[d]
    BY DEF SentOnce
  <2>1. Busy(d) /\ pointer[d] \notin called[d] /\ pointer[d] \in Aimed(d)
    BY DEF TypeInv, WalkTypes, WalkInv, PointerFresh, Aimed
  <2>2. ASSUME NEW r \in received, r.id = taken[d].id
        PROVE  r.through # pointer[d]
    BY <2>1, <2>2 DEF WalkInv, SentIsCalled
  <2>3. ASSUME NEW s \in Reached(pointer[d]), NEW q \in received, q.id = taken[d].id, q.sub = s
        PROVE  /\ s = pointer[d] /\ s \notin older[taken[d].id]
               /\ \A r \in received : r.id = taken[d].id /\ r.sub = s => r.through # s
    <3>1. s = pointer[d] \/ s \in heirs[pointer[d]]
      BY ReachedMade DEF HistoryInv
    <3>2. s \notin heirs[pointer[d]]
      BY <2>1, <2>3 DEF HistoryInv, HeirsYoung
    <3>3. s = pointer[d] /\ q.through # s
      BY <2>2, <2>3, <3>1, <3>2
    <3>4. s \notin older[taken[d].id]
      BY <2>3, <3>3 DEF HistoryInv, SentAstray
    <3>. QED
      BY <2>2, <3>3, <3>4
  <2>4. \A e \in Dispatchers \ {d} : taken[e] # taken[d]
    BY <2>1 DEF TypeInv, QueueInv, TakenOnce, Busy
  <2>. QED
    BY <2>3, <2>4
<1>. QED
  BY <1>1, InitTypes, NextTypes, InitWalks, NextWalks, InitHistory, NextHistory, PTL DEF Spec

-----------------------------------------------------------------------------
(* A served client gets what it asked for.                                  *)

LEMMA InitNone == Init => NoneYet
  BY DEF Init, NoneYet, Registry!Init

\* A handler's locals are its own.
LEMMA OwnLocals ==
  ASSUME [Next]_vars, NEW c \in Connections, clientSubs'[c] # clientSubs[c],
         clientSubs \in [Connections -> Seq(Subscribers)]
  PROVE  at[c] \in {"append", "insert"}
<1>1. [Reg!Next]_(Reg!vars)
  BY RegistryStep
<1>2. ASSUME NEW h \in Connections, Reg!AppendToFound(h) \/ Reg!Insert(h)
      PROVE  at[c] \in {"append", "insert"}
  <2>1. at[h] \in {"append", "insert"} /\ \E x : clientSubs' = [clientSubs EXCEPT ![h] = x]
    BY <1>2 DEF Reg!AppendToFound, Reg!Insert, Reg!Return
  <2>. QED
    BY <2>1
<1>3. ASSUME NEW h \in Connections,
             \/ \E t \in Topics, s \in Subscribers : Reg!Subscribe(h, t, s)
             \/ Reg!Disconnect(h) \/ Reg!Unsubscribe(h) \/ Reg!Delete(h) \/ Reg!Finish(h)
      PROVE  UNCHANGED clientSubs
  BY <1>3 DEF Reg!Subscribe, Reg!Announce, Reg!Disconnect, Reg!Leave, Reg!Unsubscribe,
     Reg!TakeOut, Reg!Delete, Reg!Finish
<1>. QED
  BY <1>1, <1>2, <1>3 DEF Reg!Next, Reg!vars

LEMMA NoneStays ==
  ASSUME ServerInv, [Next]_vars, NEW c \in Connections, pc'[c] = "none"
  PROVE  pc[c] = "none"
<1>0. pc \in [Connections -> Srv!HandlerLocations]
  BY DEF ServerInv, Srv!TypeInv, Srv!TypeOK
<1>1. [Srv!Next]_(Srv!vars)
  BY ServerStep
<1>2. ASSUME NEW x \in Connections, NEW p, p # "none", pc' = [pc EXCEPT ![x] = p]
      PROVE  pc[c] = "none"
  BY <1>0, <1>2
<1>3. ASSUME UNCHANGED pc
      PROVE  pc[c] = "none"
  BY <1>3
<1>4. CASE Srv!MainStep \/ Srv!AcceptFails \/ Srv!PressKey \/ \E x \in Connections, h \in Handles : Srv!AcceptInVain(x, h)
  BY <1>3, <1>4 DEF Srv!MainStep, Srv!InitServer, Srv!ShutDown, Srv!BeginShutDown, Srv!Join, Srv!JoinsDone, Srv!JoinsDoneAt,
     Srv!CloseListener, Srv!AcceptFails, Srv!PressKey, Srv!AcceptInVain, Srv!handlerVars
<1>5. ASSUME NEW x \in Connections, NEW h \in Handles, Srv!Accept(x, h)
      PROVE  pc[c] = "none"
  BY <1>2, <1>5 DEF Srv!Accept, Srv!Start
<1>6. ASSUME NEW x \in Connections, Srv!HandlerStep(x) \/ Srv!Receive(x) \/ Srv!HangUp(x)
      PROVE  pc[c] = "none"
  <2>1. \E p \in {"check", "recv", "cleanup", "close", "gone"} : pc' = [pc EXCEPT ![x] = p]
    BY <1>6 DEF Srv!HandlerStep, Srv!Check, Srv!CheckToken, Srv!Cleanup, Srv!Close, Srv!Receive, Srv!HangUp, Srv!Goto
  <2>. QED
    BY <1>2, <2>1
<1>. QED
  BY <1>1, <1>3, <1>4, <1>5, <1>6 DEF Srv!Next, Srv!vars

LEMMA NextNone == TypeInv /\ NoneYet /\ [Next]_vars => NoneYet'
<1>. SUFFICES ASSUME TypeInv, NoneYet, [Next]_vars, NEW c \in Connections, pc'[c] = "none"
              PROVE  clientSubs'[c] = <<>>
  BY DEF NoneYet
<1>1. pc[c] = "none"
  BY NoneStays DEF TypeInv
<1>2. clientSubs[c] = <<>> /\ at[c] = "serve"
  BY <1>1 DEF NoneYet, TypeInv, Coupled
<1>3. clientSubs \in [Connections -> Seq(Subscribers)]
  BY RegistryTypes DEF TypeInv
<1>. QED
  BY <1>2, <1>3, OwnLocals

Holds(c, s) == s \in Registry!Served(c) \cup {newSub[c]}

\* Whoever has been made is some handler's.
LEMMA MakerHolds ==
  ASSUME TypeInv, NEW s \in Subscribers, tag[s] \in Topics
  PROVE  Maker(s) \in Connections /\ Holds(Maker(s), s)
<1>1. \E c \in Connections : newSub[c] = s \/ \E k \in 1..Len(clientSubs[c]) : clientSubs[c][k] = s
  BY DEF TypeInv, RegistryInv, Reg!ListInv, Reg!MadeBySomeone, Reg!Indices, Reg!Nth
<1>2. \E c \in Connections : s \in Registry!Served(c) \cup {newSub[c]}
  BY <1>1 DEF Registry!Served
<1>. QED
  BY <1>2 DEF Maker, Holds

\* A handler that has not left keeps what it holds alive, and its client.
LEMMA HoldsAlive ==
  ASSUME TypeInv, NoneYet, NEW c \in Connections, NEW s \in Subscribers, Holds(c, s), c \notin Leaving
  PROVE  /\ s \in alive
         /\ pc[c] \in {"recv", "check"}
         /\ (\A x \in Connections : closes[x] <= 1) => owner[handle[c]] = c
<1>0. at[c] \in {"serve", "append", "insert"}
  <2>1. at \in [Connections -> {"serve", "append", "insert", "unsubscribe", "delete", "gone"}]
    BY RegistryTypes DEF TypeInv, Reg!Locations
  <2>. QED
    BY <2>1 DEF Leaving
<1>1. newSub[c] = s => at[c] \in {"append", "insert"}
  BY RegistryTypes, NoneOfThese DEF TypeInv
<1>2. newSub[c] = s \/ \E k \in 1..Len(clientSubs[c]) : clientSubs[c][k] = s
  BY DEF Holds, Registry!Served
<1>3. s \in alive
  BY <1>0, <1>1, <1>2 DEF TypeInv, RegistryInv, Reg!LeftInv, Reg!AliveUnderWay, Reg!ListInv, Reg!ServedAlive,
     Reg!Adding, Reg!Serving, Reg!Indices, Reg!Nth
<1>4. pc[c] \in {"none", "recv", "check", "cleanup", "close", "gone"}
  BY DEF TypeInv, ServerInv, Srv!TypeInv, Srv!TypeOK, Srv!HandlerLocations
<1>5. pc[c] \notin {"cleanup", "close", "gone"}
  BY <1>0 DEF TypeInv, Coupled
<1>6. pc[c] # "none"
  <2>1. SUFFICES ASSUME pc[c] = "none" PROVE FALSE
    OBVIOUS
  <2>2. at[c] = "serve" /\ clientSubs[c] = <<>>
    BY <2>1 DEF TypeInv, Coupled, NoneYet
  <2>3. 1..Len(clientSubs[c]) = {}
    BY <2>2
  <2>. QED
    BY <1>1, <1>2, <2>2, <2>3
<1>7. closes[c] = 0
  BY <1>4, <1>5 DEF TypeInv, ServerInv, Srv!TypeInv, Srv!Progress
<1>. QED
  BY <1>3, <1>4, <1>5, <1>6, <1>7 DEF TypeInv, ServerInv, Srv!OwnHandle

LEMMA ServedGetsIts ==
  ASSUME TypeInv, WalkInv, HistoryInv, NoneYet
  PROVE  ServedClientGetsItsOwn
<1>. SUFFICES ASSUME \A c \in Connections : closes[c] <= 1,
                     NEW d \in Dispatchers, stage[d] = "call",
                     NEW s \in Reached(pointer[d]), Maker(s) \notin Leaving
              PROVE  /\ s \in alive /\ owner[handle[Maker(s)]] = Maker(s)
                     /\ \/ tag[s] = taken[d].topic
                        \/ /\ pointer[d] \notin alive /\ Maker(pointer[d]) \in Leaving
                           /\ s \notin older[taken[d].id]
  BY DEF ServedClientGetsItsOwn
<1>1. /\ Busy(d) /\ pointer[d] \in Subscribers /\ pointer[d] \in Made /\ s \in Made
      /\ s = pointer[d] \/ (pointer[d] \notin alive /\ s \in heirs[pointer[d]])
  BY ReachedMade DEF TypeInv, WalkTypes, HistoryInv
<1>2. ASSUME NEW x \in Made
      PROVE  x \in Subscribers /\ Maker(x) \in Connections /\ Holds(Maker(x), x)
  <2>1. x \in Subscribers /\ tag[x] \in Topics
    BY RegistryTypes DEF Made, TypeInv
  <2>. QED
    BY <2>1, MakerHolds
<1>3. s \in alive /\ owner[handle[Maker(s)]] = Maker(s)
  BY <1>1, <1>2, HoldsAlive
<1>4. CASE s = pointer[d]
  BY <1>3, <1>4 DEF WalkInv, PointerTagged
<1>5. CASE pointer[d] \notin alive /\ s \in heirs[pointer[d]]
  <2>1. Maker(pointer[d]) \in Leaving
    BY <1>1, <1>2, <1>5, HoldsAlive
  <2>2. pointer[d] \in Aimed(d)
    BY <1>1 DEF Aimed
  <2>3. s \notin older[taken[d].id]
    BY <1>5, <2>2 DEF HistoryInv, HeirsYoung
  <2>. QED
    BY <1>3, <1>5, <2>1, <2>3
<1>. QED
  BY <1>1, <1>4, <1>5

\* Until handlers begin to close handles twice, what a served client's
\* subscriber is sent goes out on that client's connection, and is what the
\* client asked for unless it comes through a deleted subscriber's pointer.
THEOREM ServedGetsItsOwn == Spec => []ServedClientGetsItsOwn
  BY ServedGetsIts, InitTypes, NextTypes, InitWalks, NextWalks, InitHistory, NextHistory, InitNone, NextNone, PTL
  DEF Spec

-----------------------------------------------------------------------------
(* As long as nobody leaves, nothing is missed.                             *)

\* What the end of AddSubscription does to the handler.
LEMMA ReturnMovesHere ==
  ASSUME RegistryInv, NEW h \in Connections, Reg!AppendToFound(h) \/ Reg!Insert(h)
  PROVE  /\ at[h] \in {"append", "insert"}
         /\ newSub[h] \in Subscribers /\ tag[newSub[h]] \in Topics
         /\ \A s \in Subscribers : Holds(h, s) => Holds(h, s)'
         /\ \A c \in Connections \ {h} : clientSubs'[c] = clientSubs[c] /\ newSub'[c] = newSub[c]
         /\ at' = [at EXCEPT ![h] = "serve"]
<1>1. /\ at[h] \in {"append", "insert"}
      /\ newSub[h] \in Subscribers /\ tag[newSub[h]] \in Topics
      /\ Len(clientSubs[h]) \in Nat /\ Len(clientSubs'[h]) = Len(clientSubs[h]) + 1
      /\ clientSubs'[h][Len(clientSubs[h]) + 1] = newSub[h]
      /\ \A k \in 1..Len(clientSubs[h]) : clientSubs'[h][k] = clientSubs[h][k]
      /\ \A c \in Connections \ {h} : clientSubs'[c] = clientSubs[c]
      /\ newSub' = [newSub EXCEPT ![h] = NoSubscriber]
      /\ at' = [at EXCEPT ![h] = "serve"]
  BY Reg!ReturnMoves, NoneOfThese, ConnectionsFiniteThere DEF RegistryInv, Reg!Adding, Reg!Indices, Reg!Nth
<1>2. newSub \in [Connections -> Subscribers \cup {NoSubscriber}]
  BY RegistryTypes
<1>3. ASSUME NEW s \in Subscribers, Holds(h, s)
      PROVE  Holds(h, s)'
  <2>1. CASE s = newSub[h]
    <3>1. Len(clientSubs[h]) + 1 \in 1..Len(clientSubs'[h])
      BY <1>1
    <3>. QED
      BY <1>1, <2>1, <3>1 DEF Holds, Registry!Served
  <2>2. ASSUME NEW k \in 1..Len(clientSubs[h]), clientSubs[h][k] = s
        PROVE  Holds(h, s)'
    <3>1. k \in 1..Len(clientSubs'[h]) /\ clientSubs'[h][k] = s
      BY <1>1, <2>2
    <3>. QED
      BY <3>1 DEF Holds, Registry!Served
  <2>. QED
    BY <1>3, <2>1, <2>2 DEF Holds, Registry!Served
<1>. QED
  BY <1>1, <1>2, <1>3

\* A step after which nobody has left takes nobody from a list.
LEMMA NobodyLeaves ==
  ASSUME TypeInv, [Next]_vars, Leaving' = {}
  PROVE  /\ Leaving = {}
         /\ \A t \in Topics : list[t] \subseteq list'[t]
         /\ \A c \in Connections, s \in Subscribers : Holds(c, s) => Holds(c, s)'
<1>. DEFINE Goal == /\ Leaving = {}
                    /\ \A t \in Topics : list[t] \subseteq list'[t]
                    /\ \A c \in Connections, s \in Subscribers : Holds(c, s) => Holds(c, s)'
<1>0. /\ [Reg!Next]_(Reg!vars) /\ RegistryInv
      /\ at \in [Connections -> Reg!Locations]
      /\ list \in [Topics -> SUBSET Subscribers]
      /\ newSub \in [Connections -> Subscribers \cup {NoSubscriber}]
  BY RegistryStep, RegistryTypes DEF TypeInv
<1>1. ASSUME UNCHANGED Reg!vars
      PROVE  Goal
  BY <1>1 DEF Reg!vars, Leaving, Holds, Registry!Served
<1>2. ASSUME NEW h \in Connections, NEW a, at' = [at EXCEPT ![h] = a],
             at[h] \notin {"unsubscribe", "delete", "gone"}
      PROVE  Leaving = {}
  <2>1. SUFFICES ASSUME NEW c \in Leaving PROVE FALSE
    OBVIOUS
  <2>2. c \in Connections /\ c # h /\ at'[c] = at[c]
    BY <1>0, <1>2, <2>1 DEF Leaving
  <2>. QED
    BY <2>1, <2>2 DEF Leaving
<1>3. ASSUME NEW h \in Connections, NEW t \in Topics, NEW s \in Subscribers, Reg!Subscribe(h, t, s)
      PROVE  Goal
  <2>1. /\ at[h] = "serve" /\ \E a : at' = [at EXCEPT ![h] = a]
        /\ newSub' = [newSub EXCEPT ![h] = s] /\ UNCHANGED <<list, clientSubs>>
    BY <1>3 DEF Reg!Subscribe, Reg!Announce, Reg!Goto
  <2>2. newSub[h] = NoSubscriber
    BY <1>0, <2>1, RegistryTypes
  <2>3. \A c \in Connections : c # h => newSub'[c] = newSub[c]
    BY <1>0, <2>1
  <2>4. \A c \in Connections, x \in Subscribers : Holds(c, x) => Holds(c, x)'
    BY <2>1, <2>2, <2>3, NoneOfThese DEF Holds, Registry!Served
  <2>. QED
    BY <1>2, <2>1, <2>4
<1>4. ASSUME NEW h \in Connections, Reg!AppendToFound(h) \/ Reg!Insert(h)
      PROVE  Goal
  <2>1. /\ at[h] \in {"append", "insert"}
        /\ newSub[h] \in Subscribers /\ tag[newSub[h]] \in Topics
        /\ \A s \in Subscribers : Holds(h, s) => Holds(h, s)'
        /\ \A c \in Connections \ {h} : clientSubs'[c] = clientSubs[c] /\ newSub'[c] = newSub[c]
        /\ at' = [at EXCEPT ![h] = "serve"]
    BY <1>0, <1>4, ReturnMovesHere
  <2>2. \A c \in Connections, s \in Subscribers : Holds(c, s) => Holds(c, s)'
    BY <2>1 DEF Holds, Registry!Served
  <2>3. \A t \in Topics : list[t] \subseteq list'[t]
    <3>1. CASE Reg!AppendToFound(h)
      BY <1>0, <2>1, <3>1 DEF Reg!AppendToFound
    <3>2. CASE Reg!Insert(h)
      <4>1. CASE tag[newSub[h]] \notin known /\ list' = [list EXCEPT ![tag[newSub[h]]] = {newSub[h]}]
        <5>1. list[tag[newSub[h]]] = {}
          BY <1>0, <2>1, <4>1 DEF RegistryInv, Reg!ListInv, Reg!UnknownEmpty
        <5>. QED
          BY <1>0, <2>1, <4>1, <5>1
      <4>2. CASE UNCHANGED list
        BY <4>2
      <4>. QED
        BY <3>2, <4>1, <4>2 DEF Reg!Insert
    <3>. QED
      BY <1>4, <3>1, <3>2
  <2>4. Leaving = {}
    BY <1>2, <2>1
  <2>. QED
    BY <2>2, <2>3, <2>4
<1>5. ASSUME NEW h \in Connections, Reg!Disconnect(h) \/ Reg!Unsubscribe(h) \/ Reg!Delete(h) \/ Reg!Finish(h)
      PROVE  FALSE
  <2>1. \E a \in {"unsubscribe", "delete", "gone"} : at' = [at EXCEPT ![h] = a]
    BY <1>5 DEF Reg!Disconnect, Reg!Leave, Reg!Unsubscribe, Reg!TakeOut, Reg!Delete, Reg!Finish, Reg!Goto
  <2>2. h \in Leaving'
    BY <1>0, <2>1 DEF Leaving
  <2>. QED
    BY <2>2
<1>. HIDE DEF Goal
<1>6. Goal
  BY <1>0, <1>1, <1>3, <1>4, <1>5 DEF Reg!Next
<1>. QED
  BY <1>6 DEF Goal

LEMMA SentGrows == [Next]_vars => received \subseteq received'
<1>. SUFFICES ASSUME [Next]_vars PROVE received \subseteq received'
  OBVIOUS
<1>1. ASSUME NEW c \in Connections, Subscribe(c) \/ Unsubscribe(c)
      PROVE  UNCHANGED received
  BY <1>1, ListChangesMoves DEF Subscribe, Unsubscribe, historyVars
<1>2. ASSUME NEW d \in Dispatchers, Take(d) \/ Return(d) \/ Find(d) \/ Walk(d) \/ End(d)
      PROVE  UNCHANGED received
  BY <1>2 DEF Take, Return, Find, Walk, End, Settle, historyVars
<1>3. ASSUME NEW d \in Dispatchers, OnReceive(d)
      PROVE  received \subseteq received'
  BY <1>3 DEF OnReceive, Send
<1>. QED
  BY <1>1, <1>2, <1>3, WalkCases

LEMMA GotStays ==
  ASSUME TypeInv, [Next]_vars, Leaving' = {}, NEW i, NEW s \in Subscribers, Got(i, s)
  PROVE  Got(i, s)'
<1>1. PICK c \in Connections, r \in received : Holds(c, s) /\ r.id = i /\ r.sub = s /\ r.on = c
  BY DEF Got, Holds
<1>2. Holds(c, s)' /\ r \in received'
  BY <1>1, NobodyLeaves, SentGrows
<1>. QED
  BY <1>1, <1>2 DEF Got, Holds

\* As long as nobody has left, no handle has been closed twice.
LEMMA ClosesOnce ==
  ASSUME TypeInv, Leaving = {}, NEW c \in Connections
  PROVE  closes[c] <= 1
<1>1. at[c] \notin {"unsubscribe", "delete", "gone"}
  BY DEF Leaving
<1>2. pc[c] \in {"none", "recv", "check", "cleanup", "close", "gone"}
  BY DEF TypeInv, ServerInv, Srv!TypeInv, Srv!TypeOK, Srv!HandlerLocations
<1>3. pc[c] \in {"none", "recv", "check"}
  BY <1>1, <1>2 DEF TypeInv, Coupled
<1>. QED
  BY <1>3 DEF TypeInv, ServerInv, Srv!TypeInv, Srv!Progress

\* What a publication, and what the queue, does to the audiences.
LEMMA AudienceMoves ==
  ASSUME [Next]_vars
  PROVE  \/ \E t \in Topics : Queue!Issue(t) /\ audience' = [audience EXCEPT ![issued'] = list[t]] /\ UNCHANGED list
         \/ \E d \in Dispatchers : Queue!Take(d) /\ UNCHANGED <<audience, list>>
         \/ \E d \in Dispatchers : Return(d) /\ Queue!Settle(d) /\ UNCHANGED <<audience, list>>
         \/ \E d \in Dispatchers : End(d) /\ Queue!Settle(d) /\ UNCHANGED <<audience, list>>
         \/ UNCHANGED <<queueVars, audience>>
<1>1. ASSUME NEW c \in Connections, NEW t \in Topics, ReceivePublish(c, t)
      PROVE  Queue!Issue(t) /\ audience' = [audience EXCEPT ![issued'] = list[t]] /\ UNCHANGED list
  BY <1>1 DEF ReceivePublish, registryVars
<1>2. ASSUME NEW d \in Dispatchers, Take(d)
      PROVE  Queue!Take(d) /\ UNCHANGED <<audience, list>>
  BY <1>2 DEF Take, registryVars, historyVars
<1>3. ASSUME NEW d \in Dispatchers, Return(d)
      PROVE  Queue!Settle(d) /\ UNCHANGED <<audience, list>>
  BY <1>3 DEF Return, registryVars, historyVars
<1>4. ASSUME NEW d \in Dispatchers, End(d)
      PROVE  Queue!Settle(d) /\ UNCHANGED <<audience, list>>
  BY <1>4 DEF End, Settle, registryVars, historyVars
<1>5. ASSUME NEW d \in Dispatchers, Find(d) \/ Walk(d) \/ OnReceive(d)
      PROVE  UNCHANGED <<queueVars, audience>>
  BY <1>5 DEF Find, Walk, OnReceive, Send, historyVars
<1>6. ASSUME NEW c \in Connections,
             \/ ReceiveOther(c) \/ Check(c) \/ HangUp(c) \/ Delete(c) \/ Cleanup(c)
             \/ Subscribe(c) \/ Unsubscribe(c)
             \/ \E t \in Topics, s \in Subscribers : ReceiveSubscribe(c, t, s)
      PROVE  UNCHANGED <<queueVars, audience>>
  BY <1>6 DEF ReceiveOther, Check, EndRound, HangUp, Delete, Cleanup, Subscribe, Unsubscribe,
              ReceiveSubscribe, ListChanges, brokerVars, historyVars
<1>7. CASE ServerOnly \/ UNCHANGED vars
  BY <1>7 DEF ServerOnly, vars, brokerVars, historyVars
<1>. QED
  BY <1>1, <1>2, <1>3, <1>4, <1>5, <1>6, <1>7, StepCases

LEMMA NextAudienceType == TypeInv /\ AudienceType /\ [Next]_vars => AudienceType'
<1>. SUFFICES ASSUME TypeInv, AudienceType, [Next]_vars
              PROVE  AudienceType'
  OBVIOUS
<1>0. list \in [Topics -> SUBSET Subscribers]
  BY RegistryTypes DEF TypeInv
<1>1. ASSUME NEW t \in Topics, audience' = [audience EXCEPT ![issued'] = list[t]]
      PROVE  AudienceType'
  BY <1>0, <1>1 DEF AudienceType
<1>2. ASSUME UNCHANGED audience
      PROVE  AudienceType'
  BY <1>2 DEF AudienceType
<1>. QED
  BY <1>1, <1>2, AudienceMoves

LEMMA NextNothingRemoved ==
  ASSUME TypeInv, CompleteInv, [Next]_vars, Leaving' = {}
  PROVE  NothingRemoved'
<1>0. /\ NothingRemoved /\ WalkTypes
      /\ \A t \in Topics : list[t] \subseteq list'[t]
  BY NobodyLeaves DEF TypeInv, CompleteInv
<1>1. ASSUME NEW c \in Connections, Subscribe(c) \/ Unsubscribe(c)
      PROVE  NothingRemoved'
  <2>1. removals' = [d \in Dispatchers |->
                       IF stage[d] = "idle" THEN 0
                       ELSE removals[d] + Cardinality(list[taken[d].topic] \ list'[taken[d].topic])]
    BY <1>1, ListChangesMoves DEF Subscribe, Unsubscribe
  <2>2. ASSUME NEW d \in Dispatchers, stage[d] # "idle"
        PROVE  removals[d] + Cardinality(list[taken[d].topic] \ list'[taken[d].topic]) = 0
    <3>1. taken[d].topic \in Topics
      BY <1>0, <2>2, BusyTypes DEF WalkTypes
    <3>2. list[taken[d].topic] \ list'[taken[d].topic] = {}
      BY <1>0, <3>1
    <3>. QED
      BY <1>0, <3>2, FS_EmptySet DEF NothingRemoved
  <2>. QED
    BY <2>1, <2>2 DEF NothingRemoved
<1>2. ASSUME NEW d \in Dispatchers, Take(d) \/ Return(d) \/ Find(d) \/ Walk(d) \/ OnReceive(d)
      PROVE  UNCHANGED removals
  BY <1>2, FindMoves, WalkMoves, CallMoves DEF Take, Return, walkVars
<1>3. ASSUME NEW d \in Dispatchers, End(d)
      PROVE  NothingRemoved'
  <2>1. removals' = [removals EXCEPT ![d] = 0]
    BY <1>3, EndMoves
  <2>. QED
    BY <1>0, <2>1 DEF NothingRemoved, WalkTypes
<1>4. ASSUME UNCHANGED removals
      PROVE  NothingRemoved'
  BY <1>0, <1>4 DEF NothingRemoved
<1>5. CASE UNCHANGED walkVars
  BY <1>4, <1>5 DEF walkVars
<1>. QED
  BY <1>1, <1>2, <1>3, <1>4, <1>5, WalkCases

LEMMA NextAudienceListed ==
  ASSUME TypeInv, CompleteInv, [Next]_vars, Leaving' = {}
  PROVE  AudienceListed'
<1>0. /\ AudienceListed /\ AudienceType /\ QueueInv
      /\ \A t \in Topics : list[t] \subseteq list'[t]
  BY NobodyLeaves DEF TypeInv, CompleteInv
<1>1. /\ \A k \in 1..Len(pending) : pending[k] \in Message /\ pending[k].topic \in Topics
      /\ \A d \in Dispatchers : Busy(d) => taken[d].topic \in Topics
      /\ taken \in [Dispatchers -> Message \cup {NoMessage}]
  <2>1. \A k \in 1..Len(pending) : pending[k] \in Message
    BY <1>0, ElementOfSeq DEF QueueInv, QueueTypes
  <2>. QED
    BY <1>0, <2>1, BusyTypes DEF Message, QueueInv, QueueTypes
<1>2. ASSUME NEW t \in Topics, Queue!Issue(t), audience' = [audience EXCEPT ![issued'] = list[t]], UNCHANGED list
      PROVE  AudienceListed'
  <2>1. /\ issued \in Nat /\ issued + 1 \in 1..MaxMessages /\ issued' = issued + 1
        /\ Len(pending) \in Nat /\ Len(pending') = Len(pending) + 1
        /\ Begun \in Nat /\ Begun <= issued
        /\ pending'[Len(pending) + 1] = [id |-> issued + 1, topic |-> t]
        /\ \A k \in 1..Len(pending) : pending'[k] = pending[k]
        /\ UNCHANGED <<taken, settled>>
    BY <1>0, <1>2, IssueMoves
  <2>2. /\ audience'[issued + 1] = list[t]
        /\ \A i \in 1..MaxMessages : i # issued + 1 => audience'[i] = audience[i]
    BY <1>0, <1>2, <2>1 DEF AudienceType
  <2>3. ASSUME NEW k \in 1..Len(pending')
        PROVE  audience'[pending'[k].id] \subseteq list'[pending'[k].topic]
    <3>1. CASE k \in 1..Len(pending)
      <4>1. pending[k].id = Begun + k
        BY <1>0, <3>1 DEF QueueInv, PendingInOrder
      <4>2. pending[k].id \in 1..MaxMessages /\ pending[k].id # issued + 1
        BY <2>1, <3>1, <4>1, MaxMessagesNat DEF Begun
      <4>. QED
        BY <1>0, <1>2, <2>1, <2>2, <3>1, <4>2 DEF AudienceListed
    <3>2. CASE k = Len(pending) + 1
      BY <1>2, <2>1, <2>2, <3>2
    <3>. QED
      BY <2>1, <3>1, <3>2
  <2>4. ASSUME NEW d \in Dispatchers, Busy(d)'
        PROVE  audience'[taken'[d].id] \subseteq list'[taken'[d].topic]
    <3>1. Busy(d) /\ taken'[d] = taken[d]
      BY <2>1, <2>4 DEF Busy
    <3>2. taken[d].id \in 1..Begun
      BY <1>0, <3>1 DEF QueueInv, TakenBegun
    <3>3. taken[d].id \in 1..MaxMessages /\ taken[d].id # issued + 1
      BY <2>1, <3>2, MaxMessagesNat
    <3>. QED
      BY <1>0, <1>2, <2>2, <3>1, <3>3 DEF AudienceListed
  <2>. QED
    BY <2>3, <2>4 DEF AudienceListed
<1>3. ASSUME NEW d \in Dispatchers, Queue!Take(d), UNCHANGED <<audience, list>>
      PROVE  AudienceListed'
  <2>1. /\ 1 \in 1..Len(pending) /\ taken' = [taken EXCEPT ![d] = pending[1]]
        /\ \A k \in 1..Len(pending') : k + 1 \in 1..Len(pending) /\ pending'[k] = pending[k + 1]
    BY <1>0, <1>3, TakeMoves
  <2>2. \A k \in 1..Len(pending') : audience'[pending'[k].id] \subseteq list'[pending'[k].topic]
    BY <1>0, <1>3, <2>1 DEF AudienceListed
  <2>3. ASSUME NEW e \in Dispatchers, Busy(e)'
        PROVE  audience'[taken'[e].id] \subseteq list'[taken'[e].topic]
    <3>1. CASE e = d
      BY <1>0, <1>1, <1>3, <2>1, <3>1 DEF AudienceListed
    <3>2. CASE e # d
      <4>1. Busy(e) /\ taken'[e] = taken[e]
        BY <1>1, <2>1, <2>3, <3>2 DEF Busy
      <4>. QED
        BY <1>0, <1>3, <4>1 DEF AudienceListed
    <3>. QED
      BY <3>1, <3>2
  <2>. QED
    BY <2>2, <2>3 DEF AudienceListed
<1>4. ASSUME NEW d \in Dispatchers, Queue!Settle(d), UNCHANGED <<audience, list>>
      PROVE  AudienceListed'
  <2>1. taken' = [taken EXCEPT ![d] = NoMessage] /\ UNCHANGED pending
    BY <1>4 DEF Queue!Settle
  <2>2. \A e \in Dispatchers : Busy(e)' => Busy(e) /\ taken'[e] = taken[e]
    BY <1>1, <2>1 DEF Busy
  <2>. QED
    BY <1>0, <1>4, <2>1, <2>2 DEF AudienceListed
<1>5. ASSUME UNCHANGED <<queueVars, audience>>
      PROVE  AudienceListed'
  <2>1. UNCHANGED <<pending, taken, audience>>
    BY <1>5 DEF queueVars
  <2>2. \A k \in 1..Len(pending) : audience[pending[k].id] \subseteq list'[pending[k].topic]
    BY <1>0, <1>1 DEF AudienceListed
  <2>3. \A d \in Dispatchers : Busy(d) => audience[taken[d].id] \subseteq list'[taken[d].topic]
    BY <1>0, <1>1 DEF AudienceListed
  <2>. QED
    BY <2>1, <2>2, <2>3 DEF AudienceListed, Busy
<1>. QED
  BY <1>2, <1>3, <1>4, <1>5, AudienceMoves

\* A call while nobody leaves is a delivery.
LEMMA CallIsGot ==
  ASSUME TypeInv, WalkInv, NoneYet, Leaving = {}, NEW d \in Dispatchers, OnReceive(d),
         NEW i, i = taken[d].id, NEW s, s = pointer[d]
  PROVE  Got(i, s)'
<1>1. stage[d] = "call"
  BY CallMoves
<1>2. Busy(d) /\ pointer[d] \in Subscribers
  BY <1>1 DEF TypeInv, WalkTypes
<1>3. tag[pointer[d]] \in Topics
  BY <1>1, <1>2, BusyTypes DEF WalkInv, PointerTagged
<1>4. PICK m \in Connections : m = Maker(pointer[d]) /\ Holds(m, pointer[d])
  BY <1>2, <1>3, MakerHolds
<1>5. pointer[d] \in alive /\ owner[handle[m]] = m
  BY <1>2, <1>4, HoldsAlive, ClosesOnce
<1>6. \E r \in received' : r.id = i /\ r.sub = s /\ r.on = m
  <2>1. \E x \in Reached(pointer[d]) :
          received' = received \cup {[id |-> taken[d].id, through |-> pointer[d], sub |-> x,
                                      on |-> owner[handle[Maker(x)]]]}
    BY CallMoves
  <2>2. Reached(pointer[d]) = {pointer[d]}
    BY <1>5 DEF Reached
  <2>3. [id |-> i, through |-> s, sub |-> s, on |-> m] \in received'
    BY <1>4, <1>5, <2>1, <2>2
  <2>. QED
    BY <2>3
<1>7. UNCHANGED <<clientSubs, newSub>>
  BY CallMoves DEF registryVars
<1>8. Holds(m, s)'
  BY <1>4, <1>7 DEF Holds, Registry!Served
<1>. QED
  BY <1>6, <1>8 DEF Got, Holds

LEMMA NextCalledGot ==
  ASSUME TypeInv, WalkInv, NoneYet, CompleteInv, [Next]_vars, Leaving' = {}
  PROVE  CalledGot'
<1>0. /\ Leaving = {} /\ CalledGot
      /\ called \in [Dispatchers -> SUBSET Subscribers]
      /\ taken \in [Dispatchers -> Message \cup {NoMessage}]
  BY NobodyLeaves DEF TypeInv, CompleteInv, WalkTypes, QueueInv, QueueTypes
<1>1. ASSUME NEW d \in Dispatchers, NEW s \in called[d], Busy(d), NEW i, i = taken[d].id
      PROVE  Got(i, s)'
  <2>1. s \in Subscribers /\ Got(i, s)
    BY <1>0, <1>1 DEF CalledGot
  <2>. QED
    BY <2>1, GotStays
<1>2. ASSUME \A d \in Dispatchers : Busy(d)' => Busy(d) /\ taken'[d] = taken[d] /\ called'[d] \subseteq called[d]
      PROVE  CalledGot'
  <2>. SUFFICES ASSUME NEW d \in Dispatchers, Busy(d)', NEW s \in called'[d], NEW i, i = taken'[d].id
                PROVE  Got(i, s)'
    BY DEF CalledGot
  <2>1. Busy(d) /\ taken'[d] = taken[d] /\ s \in called[d]
    BY <1>2
  <2>. QED
    BY <1>1, <2>1
<1>3. ASSUME UNCHANGED <<taken, called>>
      PROVE  CalledGot'
  BY <1>2, <1>3 DEF Busy
<1>4. ASSUME NEW c \in Connections, Subscribe(c) \/ Unsubscribe(c)
      PROVE  UNCHANGED <<taken, called>>
  BY <1>4, ListChangesMoves DEF Subscribe, Unsubscribe
<1>5. ASSUME NEW e \in Dispatchers, Find(e) \/ Walk(e)
      PROVE  UNCHANGED <<taken, called>>
  BY <1>5, FindMoves, WalkMoves DEF queueVars
<1>6. ASSUME NEW e \in Dispatchers, Take(e)
      PROVE  CalledGot'
  <2>1. /\ taken[e] = NoMessage /\ \E m : taken' = [taken EXCEPT ![e] = m]
        /\ UNCHANGED called
    BY <1>6 DEF Take, Queue!Take, walkVars
  <2>2. called'[e] = {}
    BY <2>1 DEF TypeInv, WalkTypes, Busy, WalkInv, IdleCalledNone
  <2>3. \A d \in Dispatchers : d # e => taken'[d] = taken[d] /\ called'[d] = called[d]
    BY <1>0, <2>1
  <2>. SUFFICES ASSUME NEW d \in Dispatchers, Busy(d)', NEW s \in called'[d], NEW i, i = taken'[d].id
                PROVE  Got(i, s)'
    BY DEF CalledGot
  <2>4. d # e
    BY <2>2
  <2>. QED
    BY <1>1, <2>3, <2>4 DEF Busy
<1>7. ASSUME NEW e \in Dispatchers, Return(e) \/ End(e)
      PROVE  CalledGot'
  <2>1. /\ taken' = [taken EXCEPT ![e] = NoMessage]
        /\ UNCHANGED called \/ called' = [called EXCEPT ![e] = {}]
    BY <1>7, EndMoves DEF Return, Queue!Settle, walkVars
  <2>2. \A d \in Dispatchers : Busy(d)' => Busy(d) /\ taken'[d] = taken[d] /\ called'[d] \subseteq called[d]
    BY <1>0, <2>1 DEF Busy
  <2>. QED
    BY <1>2, <2>2
<1>8. ASSUME NEW e \in Dispatchers, OnReceive(e)
      PROVE  CalledGot'
  <2>1. /\ called' = [called EXCEPT ![e] = called[e] \cup ({pointer[e]} \ {NoSubscriber})]
        /\ UNCHANGED taken
    BY <1>8, CallMoves DEF queueVars
  <2>. SUFFICES ASSUME NEW d \in Dispatchers, Busy(d)', NEW s \in called'[d], NEW i, i = taken'[d].id
                PROVE  Got(i, s)'
    BY DEF CalledGot
  <2>2. Busy(d) /\ i = taken[d].id
    BY <2>1 DEF Busy
  <2>3. CASE s \in called[d]
    BY <1>1, <2>2, <2>3
  <2>4. CASE d = e /\ s = pointer[e]
    BY <1>0, <1>8, <2>2, <2>4, CallIsGot
  <2>. QED
    BY <1>0, <2>1, <2>3, <2>4
<1>9. CASE UNCHANGED <<taken, walkVars>>
  BY <1>3, <1>9 DEF walkVars
<1>. QED
  BY <1>3, <1>4, <1>5, <1>6, <1>7, <1>8, <1>9, WalkCases

LEMMA NextSettledGot ==
  ASSUME TypeInv, WalkInv, NoneYet, CompleteInv, [Next]_vars, Leaving' = {}
  PROVE  SettledGot'
<1>0. /\ Leaving = {} /\ SettledGot /\ CalledGot /\ AudienceListed /\ NothingRemoved
      /\ AudienceType /\ QueueInv /\ RegistryInv
      /\ taken \in [Dispatchers -> Message \cup {NoMessage}]
      /\ \A t \in Topics : IsFiniteSet(list[t])
  BY NobodyLeaves, RegistryTypes DEF TypeInv, CompleteInv, QueueInv, QueueTypes
<1>1. Begun \in Nat /\ Begun <= issued /\ issued \in 0..MaxMessages
  <2>1. issued \in 0..MaxMessages /\ Len(pending) \in Nat /\ Len(pending) <= issued
    BY <1>0, LenProperties DEF QueueInv, QueueTypes
  <2>. QED
    BY <2>1, MaxMessagesNat DEF Begun
<1>2. 1..Begun \subseteq 1..MaxMessages
  BY <1>1, MaxMessagesNat
<1>3. ASSUME NEW i \in settled, NEW s \in audience[i]
      PROVE  Got(i, s)'
  <2>1. s \in Subscribers /\ Got(i, s)
    BY <1>0, <1>2, <1>3 DEF SettledGot, AudienceType, QueueInv, SettledBegun
  <2>. QED
    BY <2>1, GotStays
<1>4. ASSUME NEW t \in Topics, Queue!Issue(t), audience' = [audience EXCEPT ![issued'] = list[t]]
      PROVE  SettledGot'
  <2>1. issued' = issued + 1 /\ UNCHANGED settled
    BY <1>4 DEF Queue!Issue
  <2>2. \A i \in settled : i \in 1..MaxMessages /\ i # issued + 1
    BY <1>0, <1>1, <1>2 DEF QueueInv, SettledBegun
  <2>3. \A i \in settled : audience'[i] = audience[i]
    BY <1>0, <1>4, <2>1, <2>2 DEF AudienceType
  <2>. SUFFICES ASSUME NEW i \in settled', NEW s \in audience'[i]
                PROVE  Got(i, s)'
    BY DEF SettledGot
  <2>. QED
    BY <1>3, <2>1, <2>3
<1>5. ASSUME UNCHANGED <<settled, audience>>
      PROVE  SettledGot'
  <2>. SUFFICES ASSUME NEW i \in settled', NEW s \in audience'[i]
                PROVE  Got(i, s)'
    BY DEF SettledGot
  <2>. QED
    BY <1>3, <1>5
<1>6. ASSUME NEW d \in Dispatchers, Queue!Take(d), UNCHANGED <<audience, list>>
      PROVE  SettledGot'
  BY <1>5, <1>6 DEF Queue!Take
<1>7. ASSUME NEW d \in Dispatchers, Queue!Settle(d), UNCHANGED audience,
             audience[taken[d].id] \subseteq called[d]
      PROVE  SettledGot'
  <2>. SUFFICES ASSUME NEW i \in settled', NEW s \in audience'[i]
                PROVE  Got(i, s)'
    BY DEF SettledGot
  <2>1. Busy(d) /\ settled' = settled \cup {taken[d].id}
    BY <1>0, <1>7, SettleMoves
  <2>2. CASE i \in settled
    BY <1>3, <1>7, <2>2
  <2>3. CASE i = taken[d].id
    <3>1. i \in 1..MaxMessages
      BY <1>0, <1>2, <2>1, <2>3 DEF QueueInv, TakenBegun
    <3>2. s \in Subscribers /\ s \in called[d]
      BY <1>0, <1>7, <2>3, <3>1 DEF AudienceType
    <3>3. Got(i, s)
      BY <1>0, <2>1, <2>3, <3>2 DEF CalledGot
    <3>. QED
      BY <3>2, <3>3, GotStays
  <2>. QED
    BY <2>1, <2>2, <2>3
<1>8. ASSUME NEW d \in Dispatchers, Return(d), Queue!Settle(d), UNCHANGED <<audience, list>>
      PROVE  SettledGot'
  <2>1. Busy(d) /\ taken[d].topic \in Topics \ known
    BY <1>8, BusyTypes DEF Return, Busy
  <2>2. list[taken[d].topic] = {}
    BY <1>0, <2>1 DEF RegistryInv, Reg!ListInv, Reg!UnknownEmpty
  <2>3. audience[taken[d].id] \subseteq called[d]
    BY <1>0, <2>1, <2>2 DEF AudienceListed
  <2>. QED
    BY <1>7, <1>8, <2>3
<1>9. ASSUME NEW d \in Dispatchers, End(d), Queue!Settle(d), UNCHANGED <<audience, list>>
      PROVE  SettledGot'
  <2>1. Busy(d) /\ Cardinality(list[taken[d].topic] \ called[d]) <= 0
    BY <1>0, <1>9, EndMoves DEF TypeInv, WalkTypes, NothingRemoved
  <2>2. PICK t \in Topics : t = taken[d].topic
    BY <2>1, BusyTypes
  <2>3. IsFiniteSet(list[t] \ called[d])
    BY <1>0, FS_Difference
  <2>4. list[t] \ called[d] = {}
    BY <2>1, <2>2, <2>3, FS_CardinalityType, FS_EmptySet
  <2>5. audience[taken[d].id] \subseteq called[d]
    BY <1>0, <2>1, <2>2, <2>4 DEF AudienceListed
  <2>. QED
    BY <1>7, <1>9, <2>5
<1>10. ASSUME UNCHANGED <<queueVars, audience>>
       PROVE  SettledGot'
  BY <1>5, <1>10 DEF queueVars
<1>. QED
  BY <1>4, <1>6, <1>8, <1>9, <1>10, AudienceMoves

LEMMA InitComplete == Init => CompleteInv
<1>. SUFFICES ASSUME Init PROVE CompleteInv
  OBVIOUS
<1>1. /\ removals = [d \in Dispatchers |-> 0] /\ audience = [i \in 1..MaxMessages |-> {}]
      /\ pending = <<>> /\ taken = [d \in Dispatchers |-> NoMessage] /\ settled = {}
  BY DEF Init, Queue!Init
<1>2. 1..Len(pending) = {}
  BY <1>1
<1>3. AudienceType /\ NothingRemoved
  BY <1>1 DEF AudienceType, NothingRemoved
<1>4. \A d \in Dispatchers : ~Busy(d)
  BY <1>1 DEF Busy
<1>. QED
  BY <1>1, <1>2, <1>3, <1>4 DEF CompleteInv, AudienceListed, CalledGot, SettledGot

LEMMA NextComplete ==
  TypeInv /\ WalkInv /\ NoneYet /\ CompleteInv /\ [Next]_vars => CompleteInv'
<1>. SUFFICES ASSUME TypeInv, WalkInv, NoneYet, CompleteInv, [Next]_vars
              PROVE  CompleteInv'
  OBVIOUS
<1>1. AudienceType'
  BY NextAudienceType DEF CompleteInv
<1>2. ASSUME Leaving' = {}
      PROVE  NothingRemoved' /\ AudienceListed' /\ CalledGot' /\ SettledGot'
  BY <1>2, NextNothingRemoved, NextAudienceListed, NextCalledGot, NextSettledGot
<1>. QED
  BY <1>1, <1>2 DEF CompleteInv

\* Nothing is missed by anybody as long as nobody leaves: not by subscribers
\* listed since, not by those in the middle of a walk, not with any number of
\* dispatchers.
THEOREM CompleteUntilSomebodyLeaves == Spec => []CompleteWhileNobodyLeaves
<1>1. CompleteInv => CompleteWhileNobodyLeaves
  BY DEF CompleteInv, SettledGot, CompleteWhileNobodyLeaves
<1>. QED
  BY <1>1, InitTypes, NextTypes, InitWalks, NextWalks, InitNone, NextNone, InitComplete, NextComplete, PTL
  DEF Spec

-----------------------------------------------------------------------------
(* The system is made of its components: alone, each does what its own      *)
(* module says, and what is proved there holds here.                        *)

\* Whatever the whole does, the server does what SocketServer allows.
THEOREM ImplementsServer == Spec => Srv!Spec
<1>1. Init => Srv!Init
  BY DEF Init, Server!Init, Srv!Init
<1>. QED
  BY <1>1, ServerStep, PTL DEF Spec, Srv!Spec

\* The registry does what TopicRegistry allows.
THEOREM ImplementsRegistry == Spec => Reg!Spec
<1>1. Init => Reg!Init
  BY DEF Init, Registry!Init, Reg!Init
<1>. QED
  BY <1>1, RegistryStep, PTL DEF Spec, Reg!Spec

\* Publications are issued, taken and settled as WorkQueue promises.
THEOREM ImplementsQueue == Spec => Queue!Spec
<1>1. Init => Queue!Init
  BY DEF Init
<1>2. [Next]_vars => [Queue!Next]_(Queue!vars)
  <2>1. ASSUME UNCHANGED queueVars
        PROVE  UNCHANGED Queue!vars
    BY <2>1 DEF queueVars, Queue!vars
  <2>. QED
    BY <2>1, QueueStep DEF Queue!Next
<1>. QED
  BY <1>1, <1>2, PTL DEF Spec, Queue!Spec

\* A walk's topic and its list as FanOut sees them.
AtTopic == [d \in Dispatchers |-> IF stage[d] = "idle" THEN NoTopic ELSE taken[d].topic]
Still == [d \in Dispatchers |-> FALSE]

\* Who is about to pick has seen whoever is listed; nobody has left a list
\* before a walk begins.
ViewInv ==
  \A d \in Dispatchers :
    /\ stage[d] = "pick" => list[taken[d].topic] \subseteq recent[d]
    /\ stage[d] = "idle" => removals[d] = 0

LEMMA NextView == TypeInv /\ ViewInv /\ [Next]_vars => ViewInv'
<1>. SUFFICES ASSUME TypeInv, ViewInv, [Next]_vars, NEW d \in Dispatchers
              PROVE  /\ stage'[d] = "pick" => list'[taken'[d].topic] \subseteq recent'[d]
                     /\ stage'[d] = "idle" => removals'[d] = 0
  BY DEF ViewInv
<1>. DEFINE Goal == /\ stage'[d] = "pick" => list'[taken'[d].topic] \subseteq recent'[d]
                    /\ stage'[d] = "idle" => removals'[d] = 0
<1>0. /\ stage \in [Dispatchers -> {"idle", "count", "pick", "call"}]
      /\ recent \in [Dispatchers -> SUBSET Subscribers]
      /\ removals \in [Dispatchers -> Nat]
      /\ taken \in [Dispatchers -> Message \cup {NoMessage}]
      /\ stage[d] # "idle" => Busy(d)
      /\ stage[d] = "pick" => list[taken[d].topic] \subseteq recent[d]
      /\ stage[d] = "idle" => removals[d] = 0
  BY DEF TypeInv, WalkTypes, QueueInv, QueueTypes, ViewInv
<1>1. ASSUME stage'[d] = stage[d], removals'[d] = removals[d],
             stage[d] = "pick" => recent'[d] = recent[d] /\ taken'[d] = taken[d] /\ list' = list
      PROVE  Goal
  BY <1>0, <1>1
<1>2. ASSUME UNCHANGED <<taken, walkVars, list>>
      PROVE  Goal
  BY <1>1, <1>2 DEF walkVars
<1>3. ASSUME NEW c \in Connections, Subscribe(c) \/ Unsubscribe(c)
      PROVE  Goal
  <2>1. /\ recent' = [e \in Dispatchers |->
                        IF stage[e] = "pick" THEN recent[e] \cup list'[taken[e].topic] ELSE recent[e]]
        /\ removals' = [e \in Dispatchers |->
                          IF stage[e] = "idle" THEN 0
                          ELSE removals[e] + Cardinality(list[taken[e].topic] \ list'[taken[e].topic])]
        /\ UNCHANGED <<taken, stage>>
    BY <1>3, ListChangesMoves DEF Subscribe, Unsubscribe
  <2>2. stage[d] = "pick" => recent'[d] = recent[d] \cup list'[taken[d].topic]
    BY <2>1
  <2>3. stage[d] = "idle" => removals'[d] = 0
    BY <2>1
  <2>4. UNCHANGED <<taken, stage>>
    BY <2>1
  <2>. QED
    BY <2>2, <2>3, <2>4
<1>4. ASSUME NEW e \in Dispatchers, Take(e)
      PROVE  Goal
  <2>1. /\ taken[e] = NoMessage /\ UNCHANGED walkVars /\ UNCHANGED list
        /\ \E m : taken' = [taken EXCEPT ![e] = m]
    BY <1>4 DEF Take, Queue!Take, registryVars
  <2>. QED
    BY <1>0, <1>1, <2>1 DEF walkVars, Busy
<1>5. ASSUME NEW e \in Dispatchers, Find(e)
      PROVE  Goal
  <2>1. stage' = [stage EXCEPT ![e] = "count"] /\ UNCHANGED <<recent, removals, taken, list>>
    BY <1>5, FindMoves DEF queueVars, registryVars
  <2>. QED
    BY <1>0, <2>1
<1>6. ASSUME NEW e \in Dispatchers, Return(e)
      PROVE  Goal
  <2>1. taken' = [taken EXCEPT ![e] = NoMessage] /\ UNCHANGED walkVars /\ UNCHANGED list
    BY <1>6 DEF Return, Queue!Settle, registryVars
  <2>2. stage[e] = "idle"
    BY <1>6 DEF TypeInv, WalkedKnown, Return
  <2>. QED
    BY <1>0, <1>1, <2>1, <2>2 DEF walkVars
<1>7. ASSUME NEW e \in Dispatchers, Walk(e)
      PROVE  Goal
  <2>1. /\ \/ /\ stage' = [stage EXCEPT ![e] = "pick"]
              /\ recent' = [recent EXCEPT ![e] = list[taken[e].topic]]
           \/ /\ stage' = [stage EXCEPT ![e] = "call"]
              /\ recent' = [recent EXCEPT ![e] = {}]
        /\ UNCHANGED <<removals, taken, list>>
    BY <1>7, WalkMoves DEF queueVars, registryVars
  <2>. QED
    BY <1>0, <2>1
<1>8. ASSUME NEW e \in Dispatchers, OnReceive(e)
      PROVE  Goal
  <2>1. stage' = [stage EXCEPT ![e] = "count"] /\ UNCHANGED <<recent, removals, taken, list>>
    BY <1>8, CallMoves DEF queueVars, registryVars
  <2>. QED
    BY <1>0, <2>1
<1>9. ASSUME NEW e \in Dispatchers, End(e)
      PROVE  Goal
  <2>1. /\ stage' = [stage EXCEPT ![e] = "idle"] /\ removals' = [removals EXCEPT ![e] = 0]
        /\ taken' = [taken EXCEPT ![e] = NoMessage] /\ UNCHANGED <<recent, list>>
    BY <1>9, EndMoves DEF Queue!Settle, registryVars
  <2>. QED
    BY <1>0, <2>1
<1>. HIDE DEF Goal
<1>10. Goal
  BY <1>2, <1>3, <1>4, <1>5, <1>6, <1>7, <1>8, <1>9, WalkCases
<1>. QED
  BY <1>10 DEF Goal

\* A change of the registry's lists is one subscriber's coming or going.
LEMMA ListsMapToWalks ==
  ASSUME TypeInv, ViewInv, NEW c \in Connections, Subscribe(c) \/ Unsubscribe(c)
  PROVE  [Walks!Next]_(Walks!vars)
<1>0. /\ RegistryInv /\ WalkTypes
      /\ list \in [Topics -> SUBSET Subscribers]
      /\ clientSubs \in [Connections -> Seq(Subscribers)]
      /\ Walks!Observe /\ UNCHANGED <<taken, stage, called, pointer>>
  BY RegistryTypes, ListChangesMoves DEF TypeInv, Subscribe, Unsubscribe, ListChanges
<1>1. ASSUME UNCHANGED list
      PROVE  UNCHANGED Walks!vars
  <2>1. /\ recent' = [d \in Dispatchers |->
                        IF stage[d] = "pick" THEN recent[d] \cup list'[taken[d].topic] ELSE recent[d]]
        /\ removals' = [d \in Dispatchers |->
                          IF stage[d] = "idle" THEN 0
                          ELSE removals[d] + Cardinality(list[taken[d].topic] \ list'[taken[d].topic])]
    BY ListChangesMoves DEF Subscribe, Unsubscribe
  <2>2. \A d \in Dispatchers : stage[d] = "pick" => recent[d] \cup list'[taken[d].topic] = recent[d]
    BY <1>1 DEF ViewInv
  <2>3. UNCHANGED recent
    BY <1>0, <2>1, <2>2 DEF WalkTypes
  <2>4. \A d \in Dispatchers : list[taken[d].topic] \ list'[taken[d].topic] = {}
    BY <1>1
  <2>5. \A d \in Dispatchers : removals[d] + Cardinality({}) = removals[d]
    BY <1>0, FS_EmptySet DEF WalkTypes
  <2>6. \A d \in Dispatchers : removals'[d] = removals[d]
    BY <2>1, <2>4, <2>5 DEF ViewInv
  <2>7. UNCHANGED removals
    BY <1>0, <2>1, <2>6 DEF WalkTypes
  <2>. QED
    BY <1>0, <1>1, <2>3, <2>7 DEF Walks!vars
<1>2. ASSUME NEW t \in Topics, NEW s \in Subscribers, s \notin list[t], list' = [list EXCEPT ![t] = @ \cup {s}]
      PROVE  Walks!Join(t, s)
  <2>1. \E W \in SUBSET {d \in Dispatchers : stage[d] = "pick" /\ AtTopic[d] = t} :
          Still = [d \in Dispatchers |-> Still[d] \/ d \in W]
    <3>1. Still = [d \in Dispatchers |-> Still[d] \/ d \in {}]
      BY DEF Still
    <3>. WITNESS {} \in SUBSET {d \in Dispatchers : stage[d] = "pick" /\ AtTopic[d] = t}
    <3>. QED
      BY <3>1
  <2>. QED
    BY <1>0, <1>2, <2>1 DEF Walks!Join, AtTopic, Still
<1>3. ASSUME NEW t \in Topics, NEW s \in Subscribers, s \in list[t], list' = [list EXCEPT ![t] = @ \ {s}]
      PROVE  Walks!Leave(t, s)
  BY <1>0, <1>3 DEF Walks!Leave
<1>4. CASE Subscribe(c)
  <2>0. Reg!AppendToFound(c) \/ Reg!Insert(c)
    BY <1>4, RegistryActions DEF Subscribe
  <2>1. PICK s \in Subscribers, t \in Topics :
          s = newSub[c] /\ t = tag[s] /\ at[c] \in {"append", "insert"}
    BY <1>0, <2>0, ReturnMovesHere
  <2>2. s \notin list[t]
    BY <1>0, <2>1 DEF RegistryInv, Reg!RaceInv, Reg!NewUnlisted, Reg!Adding, Reg!Listed
  <2>3. CASE Reg!AppendToFound(c)
    <3>1. list' = [list EXCEPT ![t] = @ \cup {s}]
      BY <2>1, <2>3 DEF Reg!AppendToFound
    <3>. QED
      BY <1>2, <2>2, <3>1 DEF Walks!Next
  <2>4. CASE Reg!Insert(c)
    <3>1. (t \notin known /\ list' = [list EXCEPT ![t] = {s}]) \/ UNCHANGED list
      BY <2>1, <2>4 DEF Reg!Insert
    <3>2. t \notin known => list[t] = {}
      BY <1>0 DEF RegistryInv, Reg!ListInv, Reg!UnknownEmpty
    <3>3. list' = [list EXCEPT ![t] = @ \cup {s}] \/ UNCHANGED list
      BY <3>1, <3>2
    <3>. QED
      BY <1>1, <1>2, <2>2, <3>3 DEF Walks!Next
  <2>. QED
    BY <2>0, <2>3, <2>4
<1>5. CASE Unsubscribe(c)
  <2>1. /\ left[c] > 0
        /\ list' = [t \in Topics |-> list[t] \ {clientSubs[c][left[c]]}]
    BY <1>5, RegistryActions DEF Unsubscribe, Reg!Unsubscribe, Reg!TakeOut
  <2>2. left[c] \in 1..Len(clientSubs[c])
    BY <1>0, <2>1 DEF RegistryInv, Reg!TypeInv, Reg!TypeOK
  <2>3. PICK s \in Subscribers : s = clientSubs[c][left[c]]
    BY <1>0, <2>2, ElementOfSeq
  <2>4. tag[s] \in Topics
    BY <1>0, <2>2, <2>3 DEF RegistryInv, Reg!TypeInv, Reg!Ownership, Reg!Tagged, Reg!Indices, Reg!Nth
  <2>5. PICK t \in Topics : t = tag[s]
    BY <2>4
  <2>6. \A u \in Topics : u # t => s \notin list[u]
    BY <1>0, <2>5 DEF RegistryInv, Reg!ListInv, Reg!ListTagged
  <2>7. list' = [list EXCEPT ![t] = @ \ {s}]
    BY <1>0, <2>1, <2>3, <2>6
  <2>8. CASE s \in list[t]
    BY <1>3, <2>7, <2>8 DEF Walks!Next
  <2>9. CASE s \notin list[t]
    <3>1. list[t] \ {s} = list[t]
      BY <2>9
    <3>2. UNCHANGED list
      BY <1>0, <2>7, <3>1
    <3>. QED
      BY <1>1, <3>2
  <2>. QED
    BY <2>8, <2>9
<1>. QED
  BY <1>4, <1>5

\* The dispatchers' steps, as FanOut sees them.
LEMMA DispatchersMapToWalks ==
  ASSUME TypeInv, NEW d \in Dispatchers,
         Take(d) \/ Find(d) \/ Return(d) \/ Walk(d) \/ OnReceive(d) \/ End(d)
  PROVE  [Walks!Next]_(Walks!vars)
<1>0. /\ stage \in [Dispatchers -> {"idle", "count", "pick", "call"}]
      /\ taken \in [Dispatchers -> Message \cup {NoMessage}]
      /\ stage[d] # "idle" => Busy(d)
      /\ Still' = Still
  BY DEF TypeInv, WalkTypes, QueueInv, QueueTypes, Still
<1>1. ASSUME UNCHANGED <<list, stage, called, pointer, recent, removals>>, AtTopic' = AtTopic
      PROVE  UNCHANGED Walks!vars
  BY <1>0, <1>1 DEF Walks!vars, AtTopic, Still
<1>2. CASE Take(d) \/ Return(d)
  <2>1. /\ stage[d] = "idle" /\ UNCHANGED walkVars /\ UNCHANGED registryVars
        /\ \E m : taken' = [taken EXCEPT ![d] = m]
    BY <1>0, <1>2 DEF Take, Queue!Take, Return, Queue!Settle, Busy, TypeInv, WalkedKnown
  <2>2. AtTopic' = AtTopic
    BY <1>0, <2>1 DEF AtTopic, walkVars
  <2>. QED
    BY <1>1, <2>1, <2>2 DEF walkVars, registryVars
<1>3. CASE Find(d)
  <2>1. Busy(d)
    BY <1>3 DEF Find, Busy
  <2>2. PICK t \in Topics : t = taken[d].topic
    BY <2>1, BusyTypes
  <2>3. Walks!Start(d, t)
    BY <1>3, <2>2 DEF Find, Walks!Start
  <2>. QED
    BY <2>3 DEF Walks!Next
<1>4. CASE Walk(d)
  BY <1>4 DEF Walk, Walks!Next
<1>5. CASE OnReceive(d)
  BY <1>5 DEF OnReceive, Walks!Next
<1>6. CASE End(d)
  BY <1>6 DEF End, Walks!Next
<1>. QED
  BY <1>2, <1>3, <1>4, <1>5, <1>6

\* The dispatchers' walks over the registry's lists are FanOut's, so that what
\* SubscriberList implements is what the dispatchers use.
THEOREM ImplementsWalks == Spec => Walks!Spec
<1>1. Init => Walks!Init
  BY DEF Init, Registry!Init, Walks!Init
<1>2. Init => ViewInv
  BY DEF Init, ViewInv
<1>3. TypeInv /\ ViewInv /\ [Next]_vars => [Walks!Next]_(Walks!vars)
  <2>. SUFFICES ASSUME TypeInv, ViewInv, [Next]_vars
                PROVE  [Walks!Next]_(Walks!vars)
    OBVIOUS
  <2>1. ASSUME UNCHANGED <<taken, walkVars, list>>
        PROVE  UNCHANGED Walks!vars
    BY <2>1 DEF walkVars, Walks!vars
  <2>. QED
    BY <2>1, ListsMapToWalks, DispatchersMapToWalks, WalkCases
<1>. QED
  BY <1>1, <1>2, <1>3, InitTypes, NextTypes, NextView, PTL DEF Spec, Walks!Spec

\* In the whole system, the socket library outlives the handlers, which stop
\* after one batch more, own their connections until somebody closes twice,
\* and leave nothing behind; subscriptions last and races cost what they may.
THEOREM ComponentsKeepTheirPromises ==
  Spec => /\ []Srv!NoHandlerWithoutWinsock /\ []Srv!OneBatchAfterCancel
          /\ []Srv!OwnConnectionUntilDoubleClose /\ []Srv!EndsOnlyIfNeverUsed
          /\ []Reg!SubscribedIsListed /\ []Reg!LossBounded /\ []Reg!NothingLeftBehind
<1>1. Srv!Spec => /\ []Srv!NoHandlerWithoutWinsock /\ []Srv!OneBatchAfterCancel
                  /\ []Srv!OwnConnectionUntilDoubleClose /\ []Srv!EndsOnlyIfNeverUsed
  BY NoneOfThese, Srv!WinsockOutlivesHandlers, Srv!StopsAfterOneBatch, Srv!OwnUntilDoubleClose, Srv!EndsInTerminate
<1>2. Reg!Spec => []Reg!SubscribedIsListed /\ []Reg!LossBounded /\ []Reg!NothingLeftBehind
  BY NoneOfThese, ConnectionsFiniteThere, Reg!SubscribedStaysListed, Reg!RaceLossBounded, Reg!NothingIsLeftBehind
<1>. QED
  BY <1>1, <1>2, ImplementsServer, ImplementsRegistry

=============================================================================
