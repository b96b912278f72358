-------------------------- MODULE TopicRegistryProofs --------------------------
(***************************************************************************)
(* Proofs about TopicRegistry, for any finite set of handlers, any topics  *)
(* and any subscribers.                                                    *)
(***************************************************************************)
EXTENDS TopicRegistry, FiniteSetTheorems, TLAPS

Adding == {"append", "insert"}
Serving == {"serve", "append", "insert"}
Closing == {"unsubscribe", "delete", "gone"}

\* h's k-th subscriber.
Nth(h, k) == clientSubs[h][k]
Indices(h) == 1..Len(clientSubs[h])

\* Each subscriber a handler has is created for some topic, and belongs to
\* that handler alone, which has it under way or at one place in clientSubs.
Tagged ==
  /\ \A h \in Handlers : pc[h] \in Adding => tag[newSub[h]] \in Topics
  /\ \A h \in Handlers : \A k \in Indices(h) : tag[Nth(h, k)] \in Topics

OwnUnderWay ==
  /\ \A g, h \in Handlers :
       pc[g] \in Adding /\ pc[h] \in Adding /\ newSub[g] = newSub[h] => g = h
  /\ \A g, h \in Handlers : pc[g] \in Adding => \A k \in Indices(h) : Nth(h, k) # newSub[g]

OwnServed ==
  \A g, h \in Handlers : \A j \in Indices(g), k \in Indices(h) :
    Nth(g, j) = Nth(h, k) => g = h /\ j = k

Ownership == Tagged /\ OwnUnderWay /\ OwnServed

TypeInv == TypeOK /\ Ownership

LEMMA StepCases ==
  ASSUME [Next]_vars
  PROVE  \/ \E h \in Handlers, t \in Topics, s \in Subscribers : Subscribe(h, t, s)
         \/ \E h \in Handlers : AppendToFound(h) \/ Insert(h)
         \/ \E h \in Handlers : Disconnect(h) \/ Unsubscribe(h) \/ Delete(h) \/ Finish(h)
         \/ UNCHANGED vars
  BY DEF Next

\* What the end of AddSubscription does to the handler's locals.
LEMMA ReturnMoves ==
  ASSUME TypeInv, NEW h \in Handlers, AppendToFound(h) \/ Insert(h)
  PROVE  /\ pc[h] \in Adding
         /\ newSub[h] \in Subscribers /\ tag[newSub[h]] \in Topics
         /\ Len(clientSubs[h]) \in Nat
         /\ clientSubs' \in [Handlers -> Seq(Subscribers)]
         /\ Len(clientSubs'[h]) = Len(clientSubs[h]) + 1
         /\ clientSubs'[h][Len(clientSubs[h]) + 1] = newSub[h]
         /\ \A k \in Indices(h) : clientSubs'[h][k] = Nth(h, k)
         /\ \A g \in Handlers \ {h} : clientSubs'[g] = clientSubs[g]
         /\ pc' = [pc EXCEPT ![h] = "serve"]
         /\ newSub' = [newSub EXCEPT ![h] = NoSubscriber]
         /\ UNCHANGED <<alive, left, tag>>
<1>. USE DEF TypeInv, TypeOK, Adding, Nth, Indices
<1>0. pc[h] \in Adding /\ Return(h)
  BY DEF AppendToFound, Insert
<1>1. newSub[h] \in Subscribers /\ tag[newSub[h]] \in Topics
  BY <1>0 DEF Ownership, Tagged, OwnUnderWay, OwnServed
<1>2. clientSubs[h] \in Seq(Subscribers)
  OBVIOUS
<1>3. clientSubs' = [clientSubs EXCEPT ![h] = Append(@, newSub[h])]
  BY <1>0 DEF Return
<1>4. clientSubs'[h] = Append(clientSubs[h], newSub[h])
  BY <1>3
<1>5. clientSubs' \in [Handlers -> Seq(Subscribers)]
  BY <1>1, <1>2, <1>3
<1>6. /\ Len(clientSubs'[h]) = Len(clientSubs[h]) + 1
      /\ clientSubs'[h][Len(clientSubs[h]) + 1] = newSub[h]
      /\ \A k \in Indices(h) : clientSubs'[h][k] = Nth(h, k)
  BY <1>1, <1>2, <1>4
<1>7. /\ pc' = [pc EXCEPT ![h] = "serve"]
      /\ newSub' = [newSub EXCEPT ![h] = NoSubscriber]
      /\ UNCHANGED <<alive, left, tag>>
  BY <1>0 DEF Return, Goto
<1>8. \A g \in Handlers \ {h} : clientSubs'[g] = clientSubs[g]
  BY <1>3
<1>. QED
  BY <1>0, <1>1, <1>2, <1>3, <1>5, <1>6, <1>7, <1>8

LEMMA InitType == Init => TypeInv
  BY NoTopicNotTopic DEF Init, TypeInv, TypeOK, Ownership, Tagged, OwnUnderWay, OwnServed, Adding, Nth, Indices, Locations

LEMMA NextType == TypeInv /\ [Next]_vars => TypeInv'
<1>. SUFFICES ASSUME TypeInv, [Next]_vars
              PROVE  TypeInv'
  OBVIOUS
<1>. USE NoSubscriberNotSubscriber, NoTopicNotTopic
     DEF TypeInv, Adding, Nth, Indices, Locations
<1>1. ASSUME NEW h \in Handlers, NEW t \in Topics, NEW s \in Subscribers, Subscribe(h, t, s)
      PROVE  TypeInv'
  <2>1. \E l \in Adding :
          /\ pc[h] = "serve" /\ tag[s] = NoTopic /\ tag' = [tag EXCEPT ![s] = t]
          /\ alive' = alive \cup {s} /\ newSub' = [newSub EXCEPT ![h] = s]
          /\ pc' = [pc EXCEPT ![h] = l]
          /\ UNCHANGED <<known, list, clientSubs, left, lost>>
    BY <1>1 DEF Subscribe, Announce, Goto
  <2>2. TypeOK'
    BY <2>1 DEF TypeOK
  <2>3. /\ \A g \in Handlers \ {h} : pc[g] \in Adding => newSub[g] # s
        /\ \A g \in Handlers : \A k \in Indices(g) : Nth(g, k) # s
    BY <2>1 DEF Ownership, Tagged, OwnUnderWay, OwnServed
  <2>4. \A g \in Handlers : \A k \in Indices(g) : Nth(g, k) \in Subscribers
    BY DEF TypeOK
  <2>5. Ownership'
    BY <2>1, <2>3, <2>4 DEF Ownership, Tagged, OwnUnderWay, OwnServed, TypeOK
  <2>. QED
    BY <2>2, <2>5
<1>2. ASSUME NEW h \in Handlers, AppendToFound(h) \/ Insert(h)
      PROVE  TypeInv'
  <2>1. /\ pc[h] \in Adding
        /\ newSub[h] \in Subscribers /\ tag[newSub[h]] \in Topics
        /\ clientSubs' \in [Handlers -> Seq(Subscribers)]
        /\ Len(clientSubs[h]) \in Nat
        /\ Len(clientSubs'[h]) = Len(clientSubs[h]) + 1
        /\ clientSubs'[h][Len(clientSubs[h]) + 1] = newSub[h]
        /\ \A k \in Indices(h) : clientSubs'[h][k] = Nth(h, k)
        /\ \A g \in Handlers \ {h} : clientSubs'[g] = clientSubs[g]
        /\ pc' = [pc EXCEPT ![h] = "serve"]
        /\ newSub' = [newSub EXCEPT ![h] = NoSubscriber]
        /\ UNCHANGED <<alive, left, tag>>
    BY <1>2, ReturnMoves
  <2>2. known' \subseteq Topics /\ list' \in [Topics -> SUBSET Subscribers] /\ lost' \subseteq Subscribers
    <3>1. CASE AppendToFound(h)
      <4>. DEFINE s == newSub[h]
                  t == tag[s]
      <4>1. list' = [list EXCEPT ![t] = list[t] \cup {s}] /\ UNCHANGED <<known, lost>>
        BY <3>1 DEF AppendToFound
      <4>2. s \in Subscribers /\ t \in Topics
        BY <2>1
      <4>. HIDE DEF s, t
      <4>3. /\ list \in [Topics -> SUBSET Subscribers]
            /\ known \subseteq Topics /\ lost \subseteq Subscribers
        BY DEF TypeOK
      <4>4. list[t] \cup {s} \in SUBSET Subscribers
        BY <4>2, <4>3
      <4>. QED
        BY <4>1, <4>2, <4>3, <4>4
    <3>2. ASSUME Insert(h)
          PROVE  \/ UNCHANGED <<known, list>> /\ lost' = lost \cup {newSub[h]}
                 \/ /\ UNCHANGED lost
                    /\ known' = known \cup {tag[newSub[h]]}
                    /\ list' = [list EXCEPT ![tag[newSub[h]]] = {newSub[h]}]
      BY <3>2 DEF Insert
    <3>3. CASE Insert(h)
      <4>1. {newSub[h]} \in SUBSET Subscribers /\ tag[newSub[h]] \in Topics
        BY <2>1
      <4>2. /\ list \in [Topics -> SUBSET Subscribers]
            /\ known \subseteq Topics /\ lost \subseteq Subscribers
        BY DEF TypeOK
      <4>. QED
        BY <3>2, <3>3, <4>1, <4>2
    <3>. QED
      BY <1>2, <3>1, <3>3
  <2>3. TypeOK'
    BY <2>1, <2>2 DEF TypeOK
  <2>4. \A g \in Handlers : pc'[g] \in Adding => g # h /\ pc[g] \in Adding /\ newSub'[g] = newSub[g]
    BY <2>1 DEF TypeOK
  <2>5. /\ \A g \in Handlers \ {h} : pc[g] \in Adding => newSub[g] # newSub[h]
        /\ \A g \in Handlers : \A k \in Indices(g) : Nth(g, k) # newSub[h]
    BY <2>1 DEF Ownership, Tagged, OwnUnderWay, OwnServed
  <2>6. ASSUME NEW g \in Handlers, NEW k \in Indices(g)'
        PROVE  \/ k \in Indices(g) /\ Nth(g, k)' = Nth(g, k)
               \/ g = h /\ k = Len(clientSubs[h]) + 1 /\ Nth(g, k)' = newSub[h]
    BY <2>1
  <2>7. Tagged'
    BY <2>1, <2>4, <2>6 DEF Ownership, Tagged
  <2>8. OwnUnderWay'
    BY <2>1, <2>4, <2>5, <2>6 DEF Ownership, OwnUnderWay
  <2>9. OwnServed'
    <3>1. SUFFICES ASSUME NEW f \in Handlers, NEW g \in Handlers,
                          NEW j \in Indices(f)', NEW k \in Indices(g)',
                          Nth(f, j)' = Nth(g, k)'
                   PROVE  f = g /\ j = k
      BY DEF OwnServed
    <3>. HIDE DEF Nth, Indices
    <3>2. CASE j \in Indices(f) /\ Nth(f, j)' = Nth(f, j) /\ k \in Indices(g) /\ Nth(g, k)' = Nth(g, k)
      BY <3>1, <3>2 DEF Ownership, OwnServed
    <3>3. CASE f = h /\ j = Len(clientSubs[h]) + 1 /\ Nth(f, j)' = newSub[h]
      BY <3>1, <3>3, <2>5, <2>6
    <3>4. CASE g = h /\ k = Len(clientSubs[h]) + 1 /\ Nth(g, k)' = newSub[h]
      BY <3>1, <3>4, <2>5, <2>6
    <3>5. \/ j \in Indices(f) /\ Nth(f, j)' = Nth(f, j)
          \/ f = h /\ j = Len(clientSubs[h]) + 1 /\ Nth(f, j)' = newSub[h]
      BY <2>6
    <3>6. \/ k \in Indices(g) /\ Nth(g, k)' = Nth(g, k)
          \/ g = h /\ k = Len(clientSubs[h]) + 1 /\ Nth(g, k)' = newSub[h]
      BY <2>6
    <3>. QED
      BY <3>2, <3>3, <3>4, <3>5, <3>6
  <2>. QED
    BY <2>3, <2>7, <2>8, <2>9 DEF Ownership
<1>3. ASSUME NEW h \in Handlers, Disconnect(h) \/ Unsubscribe(h) \/ Delete(h) \/ Finish(h)
      PROVE  TypeInv'
  <2>1. UNCHANGED <<newSub, clientSubs, tag>> /\ pc[h] \notin Adding
    BY <1>3 DEF Disconnect, Leave, Unsubscribe, TakeOut, Delete, Finish
  <2>2. \E l \in Closing : pc' = [pc EXCEPT ![h] = l]
    BY <1>3 DEF Disconnect, Leave, Unsubscribe, TakeOut, Delete, Finish, Goto, Closing
  <2>3. Ownership'
    <3>1. \A g \in Handlers : pc'[g] \in Adding => pc[g] \in Adding
      BY <2>2 DEF TypeOK, Closing
    <3>. QED
      BY <2>1, <3>1 DEF Ownership, Tagged, OwnUnderWay, OwnServed
  <2>4. TypeOK'
    BY <1>3, <2>1, <2>2
       DEF TypeOK, Closing, Disconnect, Leave, Unsubscribe, TakeOut, Delete, Finish, Goto
  <2>. QED
    BY <2>3, <2>4
<1>4. CASE UNCHANGED vars
  BY <1>4 DEF vars, TypeOK, Ownership, Tagged, OwnUnderWay, OwnServed
<1>. QED
  BY <1>1, <1>2, <1>3, <1>4, StepCases

(* The types hold, and the closing loop stays within clientSubs.            *)
THEOREM TypeCorrect == Spec => []TypeOK
<1>1. TypeInv => TypeOK
  BY DEF TypeInv
<1>. QED
  BY <1>1, InitType, NextType, PTL DEF Spec

LEMMA TypeInvHolds == Spec => []TypeInv
  BY InitType, NextType, PTL DEF Spec

-----------------------------------------------------------------------------
(* Who is alive and who is listed.                                          *)

Listed(s) == \E t \in Topics : s \in list[t]

\* A subscriber under way is alive; one about to be deleted is in no list
\* any more, and those the closing loop has passed are deleted.
AliveUnderWay == \A h \in Handlers : pc[h] \in Adding => newSub[h] \in alive

UnlistedAtDelete ==
  \A h \in Handlers : pc[h] = "delete" => ~ Listed(Nth(h, left[h]))

DeletedBehind ==
  \A h \in Handlers : pc[h] \in Closing =>
    \A k \in Indices(h) : k > left[h] => Nth(h, k) \notin alive

GoneIsDone == \A h \in Handlers : pc[h] = "gone" => left[h] = 0

ListedAlive == \A t \in Topics : list[t] \subseteq alive

LeftInv == ListedAlive /\ AliveUnderWay /\ UnlistedAtDelete /\ DeletedBehind /\ GoneIsDone

\* What a subscription's second critical section does to the shared state.
LEMMA ReturnLists ==
  ASSUME TypeInv, NEW h \in Handlers, AppendToFound(h) \/ Insert(h)
  PROVE  /\ known \subseteq known'
         /\ \A t \in Topics : list'[t] = list[t] \/ (t = tag[newSub[h]] /\ list'[t] \subseteq list[t] \cup {newSub[h]})
<1>. USE DEF TypeInv, TypeOK
<1>1. newSub[h] \in Subscribers /\ tag[newSub[h]] \in Topics
  BY ReturnMoves
<1>2. CASE AppendToFound(h)
  BY <1>1, <1>2 DEF AppendToFound
<1>3. CASE Insert(h)
  <2>1. \/ UNCHANGED <<known, list>>
        \/ /\ known' = known \cup {tag[newSub[h]]}
           /\ list' = [list EXCEPT ![tag[newSub[h]]] = {newSub[h]}]
    BY <1>3 DEF Insert
  <2>. QED
    BY <1>1, <2>1
<1>. QED
  BY <1>2, <1>3

LEMMA InitLeft == Init => LeftInv
  BY DEF Init, LeftInv, ListedAlive, AliveUnderWay, UnlistedAtDelete, DeletedBehind, GoneIsDone,
         Adding, Closing, Listed

LEMMA NextLeft == TypeInv /\ LeftInv /\ [Next]_vars => LeftInv'
<1>. SUFFICES ASSUME TypeInv, LeftInv, [Next]_vars
              PROVE  LeftInv'
  OBVIOUS
<1>. USE DEF Adding, Closing, Locations
<1>1. ASSUME NEW h \in Handlers, NEW t \in Topics, NEW s \in Subscribers, Subscribe(h, t, s)
      PROVE  LeftInv'
  <2>1. \E l \in Adding :
          /\ pc[h] = "serve" /\ tag[s] = NoTopic
          /\ alive' = alive \cup {s} /\ newSub' = [newSub EXCEPT ![h] = s]
          /\ pc' = [pc EXCEPT ![h] = l]
          /\ UNCHANGED <<list, clientSubs, left>>
    BY <1>1 DEF Subscribe, Announce, Goto
  <2>2. \A g \in Handlers : \A k \in Indices(g) : Nth(g, k) # s
    BY <2>1, NoTopicNotTopic DEF TypeInv, Ownership, Tagged
  <2>3. ListedAlive' /\ AliveUnderWay'
    BY <2>1 DEF LeftInv, ListedAlive, AliveUnderWay, TypeInv, TypeOK
  <2>4. \A g \in Handlers : pc'[g] \in Closing => pc'[g] = pc[g]
    BY <2>1 DEF TypeInv, TypeOK
  <2>5. UnlistedAtDelete' /\ GoneIsDone'
    BY <2>1, <2>4 DEF LeftInv, UnlistedAtDelete, GoneIsDone, Listed, Nth
  <2>6. DeletedBehind'
    BY <2>1, <2>2, <2>4 DEF LeftInv, DeletedBehind, Nth, Indices
  <2>. QED
    BY <2>3, <2>5, <2>6 DEF LeftInv
<1>2. ASSUME NEW h \in Handlers, AppendToFound(h) \/ Insert(h)
      PROVE  LeftInv'
  <2>1. /\ pc[h] \in Adding
        /\ \A g \in Handlers \ {h} : clientSubs'[g] = clientSubs[g]
        /\ pc' = [pc EXCEPT ![h] = "serve"]
        /\ newSub' = [newSub EXCEPT ![h] = NoSubscriber]
        /\ UNCHANGED <<alive, left, tag>>
    BY <1>2, ReturnMoves
  <2>2. \A u \in Topics : list'[u] \subseteq list[u] \cup {newSub[h]}
    BY <1>2, ReturnLists
  <2>3. newSub[h] \in alive
    BY <2>1 DEF LeftInv, AliveUnderWay
  <2>4. ListedAlive'
    BY <2>1, <2>2, <2>3 DEF LeftInv, ListedAlive
  <2>5. \A g \in Handlers : pc'[g] \in Adding \cup Closing => g # h /\ pc'[g] = pc[g] /\ newSub'[g] = newSub[g]
    BY <2>1 DEF TypeInv, TypeOK
  <2>6. AliveUnderWay' /\ GoneIsDone'
    BY <2>1, <2>5 DEF LeftInv, AliveUnderWay, GoneIsDone
  <2>7. DeletedBehind'
    BY <2>1, <2>5 DEF LeftInv, DeletedBehind, Nth, Indices
  <2>8. ASSUME NEW g \in Handlers, pc'[g] = "delete"
        PROVE  ~ Listed(Nth(g, left[g]))'
    <3>1. pc[g] = "delete" /\ g # h /\ Nth(g, left[g])' = Nth(g, left[g])
      BY <2>1, <2>5, <2>8 DEF Nth
    <3>2. left[g] \in Indices(g)
      BY <3>1 DEF TypeInv, TypeOK, Indices
    <3>3. Nth(g, left[g]) # newSub[h]
      BY <2>1, <3>2 DEF TypeInv, Ownership, OwnUnderWay
    <3>4. ~ Listed(Nth(g, left[g]))
      BY <3>1 DEF LeftInv, UnlistedAtDelete
    <3>. QED
      BY <2>2, <3>1, <3>3, <3>4 DEF Listed
  <2>9. UnlistedAtDelete'
    BY <2>8 DEF UnlistedAtDelete
  <2>. QED
    BY <2>4, <2>6, <2>7, <2>9 DEF LeftInv
<1>3. ASSUME NEW h \in Handlers, Disconnect(h)
      PROVE  LeftInv'
  <2>1. /\ pc[h] = "serve" /\ pc' = [pc EXCEPT ![h] = "unsubscribe"]
        /\ left' = [left EXCEPT ![h] = Len(clientSubs[h])]
        /\ UNCHANGED <<list, alive, newSub, clientSubs>>
    BY <1>3 DEF Disconnect, Leave, Goto
  <2>2. /\ \A g \in Handlers \ {h} : pc'[g] = pc[g] /\ left'[g] = left[g]
        /\ pc'[h] = "unsubscribe" /\ left'[h] = Len(clientSubs[h])
    BY <2>1 DEF TypeInv, TypeOK
  <2>3. ListedAlive' /\ AliveUnderWay' /\ GoneIsDone'
    BY <2>1, <2>2 DEF LeftInv, ListedAlive, AliveUnderWay, GoneIsDone
  <2>4. UnlistedAtDelete'
    BY <2>1, <2>2 DEF LeftInv, UnlistedAtDelete, Listed, Nth
  <2>5. DeletedBehind'
    BY <2>1, <2>2 DEF LeftInv, DeletedBehind, Nth, Indices, TypeInv, TypeOK
  <2>. QED
    BY <2>3, <2>4, <2>5 DEF LeftInv
<1>4. ASSUME NEW h \in Handlers, Unsubscribe(h)
      PROVE  LeftInv'
  <2>1. /\ pc[h] = "unsubscribe" /\ pc' = [pc EXCEPT ![h] = "delete"]
        /\ list' = [t \in Topics |-> list[t] \ {Nth(h, left[h])}]
        /\ UNCHANGED <<left, alive, newSub, clientSubs>>
    BY <1>4 DEF Unsubscribe, TakeOut, Goto, Nth
  <2>2. /\ \A g \in Handlers \ {h} : pc'[g] = pc[g]
        /\ pc'[h] = "delete"
    BY <2>1 DEF TypeInv, TypeOK
  <2>3. ListedAlive' /\ AliveUnderWay' /\ GoneIsDone'
    BY <2>1, <2>2 DEF LeftInv, ListedAlive, AliveUnderWay, GoneIsDone
  <2>4. UnlistedAtDelete'
    BY <2>1, <2>2 DEF LeftInv, UnlistedAtDelete, Listed, Nth
  <2>5. DeletedBehind'
    BY <2>1, <2>2 DEF LeftInv, DeletedBehind, Nth, Indices
  <2>. QED
    BY <2>3, <2>4, <2>5 DEF LeftInv
<1>5. ASSUME NEW h \in Handlers, Delete(h)
      PROVE  LeftInv'
  <2>1. /\ pc[h] = "delete" /\ pc' = [pc EXCEPT ![h] = "unsubscribe"]
        /\ alive' = alive \ {Nth(h, left[h])}
        /\ left' = [left EXCEPT ![h] = @ - 1]
        /\ UNCHANGED <<list, newSub, clientSubs>>
    BY <1>5 DEF Delete, Goto, Nth
  <2>2. /\ \A g \in Handlers \ {h} : pc'[g] = pc[g] /\ left'[g] = left[g]
        /\ pc'[h] = "unsubscribe" /\ left'[h] = left[h] - 1
        /\ left[h] \in Indices(h)
    BY <2>1 DEF TypeInv, TypeOK, Indices
  <2>3. ListedAlive'
    BY <2>1 DEF LeftInv, ListedAlive, UnlistedAtDelete, Listed
  <2>4. AliveUnderWay'
    BY <2>1, <2>2 DEF LeftInv, AliveUnderWay, TypeInv, Ownership, OwnUnderWay
  <2>5. UnlistedAtDelete' /\ GoneIsDone'
    BY <2>1, <2>2 DEF LeftInv, UnlistedAtDelete, GoneIsDone, Listed, Nth
  <2>6. ASSUME NEW g \in Handlers, pc'[g] \in Closing, NEW k \in Indices(g), k > left'[g]
        PROVE  Nth(g, k) \notin alive'
    <3>1. CASE g = h /\ k = left[h]
      BY <2>1, <3>1
    <3>2. CASE g = h /\ k > left[h]
      BY <2>1, <3>2 DEF LeftInv, DeletedBehind
    <3>3. CASE g # h
      BY <2>1, <2>2, <2>6, <3>3 DEF LeftInv, DeletedBehind
    <3>4. k \in Nat /\ left[h] \in Nat
      BY DEF Indices, TypeInv, TypeOK
    <3>. QED
      BY <2>2, <2>6, <3>1, <3>2, <3>3, <3>4
  <2>7. DeletedBehind'
    BY <2>1, <2>6 DEF DeletedBehind, Nth, Indices
  <2>. QED
    BY <2>3, <2>4, <2>5, <2>7 DEF LeftInv
<1>6. ASSUME NEW h \in Handlers, Finish(h)
      PROVE  LeftInv'
  <2>1. /\ pc[h] = "unsubscribe" /\ left[h] = 0 /\ pc' = [pc EXCEPT ![h] = "gone"]
        /\ UNCHANGED <<list, alive, newSub, clientSubs, left>>
    BY <1>6 DEF Finish, Goto
  <2>2. /\ \A g \in Handlers \ {h} : pc'[g] = pc[g]
        /\ pc'[h] = "gone"
    BY <2>1 DEF TypeInv, TypeOK
  <2>. QED
    BY <2>1, <2>2 DEF LeftInv, ListedAlive, AliveUnderWay, UnlistedAtDelete, DeletedBehind,
                      GoneIsDone, Listed, Nth, Indices
<1>7. CASE UNCHANGED vars
  BY <1>7 DEF vars, LeftInv, ListedAlive, AliveUnderWay, UnlistedAtDelete, DeletedBehind,
              GoneIsDone, Listed, Nth, Indices
<1>. QED
  BY <1>1, <1>2, <1>3, <1>4, <1>5, <1>6, <1>7, StepCases

(* However the handlers' critical sections interleave, no topic refers to a *)
(* deleted subscriber, and a handler that has returned leaves none of its   *)
(* own alive or listed.                                                     *)
THEOREM NothingIsLeftBehind == Spec => []NothingLeftBehind
<1>1. TypeInv /\ LeftInv => NothingLeftBehind
  <2>. SUFFICES ASSUME TypeInv, LeftInv
                PROVE  NothingLeftBehind
    OBVIOUS
  <2>1. \A h \in Handlers : pc[h] = "gone" => Served(h) \cap alive = {}
    BY DEF LeftInv, DeletedBehind, GoneIsDone, Closing, Served, Nth, Indices, TypeInv, TypeOK
  <2>. QED
    BY <2>1 DEF NothingLeftBehind, LeftInv, ListedAlive
<1>. QED
  BY <1>1, TypeInvHolds, InitLeft, NextLeft, InitType, NextType, PTL DEF Spec

-----------------------------------------------------------------------------
(* The race of two inserts.                                                 *)

TopicOf(h, k) == tag[Nth(h, k)]

\* A subscriber is neither listed nor lost before AddSubscription ends.
NewUnlisted ==
  \A h \in Handlers : pc[h] \in Adding => newSub[h] \notin lost /\ ~ Listed(newSub[h])

FreshUnlisted ==
  \A s \in Subscribers : tag[s] = NoTopic => s \notin lost /\ ~ Listed(s)

FoundIsKnown == \A h \in Handlers : pc[h] = "append" => tag[newSub[h]] \in known

ServedKnown == \A h \in Handlers : \A k \in Indices(h) : TopicOf(h, k) \in known

ServedListed ==
  \A h \in Handlers : \A k \in Indices(h) : pc[h] \in Serving =>
    \A t \in Topics : Nth(h, k) \in list[t] <=> t = TopicOf(h, k) /\ Nth(h, k) \notin lost

\* A handler that inserts has no other subscription to that topic: it would
\* have found the topic.  So it loses at most one, and the handler that put
\* the topic in the map loses none.
InsertIsFirst ==
  \A h \in Handlers : pc[h] = "insert" => \A k \in Indices(h) : TopicOf(h, k) # tag[newSub[h]]

LostServed == \A s \in lost : \E h \in Handlers : \E k \in Indices(h) : Nth(h, k) = s

LostOnce ==
  \A h \in Handlers : \A j, k \in Indices(h) :
    Nth(h, j) \in lost /\ Nth(h, k) \in lost /\ TopicOf(h, j) = TopicOf(h, k) => j = k

Wins(w, t) ==
  /\ \E k \in Indices(w) : TopicOf(w, k) = t
  /\ \A k \in Indices(w) : TopicOf(w, k) = t => Nth(w, k) \notin lost

WinnerExists == \A t \in known : \E w \in Handlers : Wins(w, t)

RaceInv ==
  /\ NewUnlisted /\ FreshUnlisted /\ FoundIsKnown /\ ServedKnown /\ ServedListed
  /\ InsertIsFirst /\ LostServed /\ LostOnce /\ WinnerExists

LEMMA InitRace == Init => RaceInv
  BY DEF Init, RaceInv, NewUnlisted, FreshUnlisted, FoundIsKnown, ServedKnown, ServedListed,
         InsertIsFirst, LostServed, LostOnce, WinnerExists, Listed, Adding, Indices

LEMMA SubscribeRace ==
  ASSUME TypeInv, RaceInv, NEW h \in Handlers, NEW t \in Topics, NEW s \in Subscribers,
         Subscribe(h, t, s)
  PROVE  RaceInv'
<1>. USE DEF Adding
<1>1. /\ pc[h] = "serve" /\ tag[s] = NoTopic /\ tag' = [tag EXCEPT ![s] = t]
      /\ newSub' = [newSub EXCEPT ![h] = s]
      /\ pc' = [pc EXCEPT ![h] = IF t \in known THEN "append" ELSE "insert"]
      /\ UNCHANGED <<known, list, clientSubs, left, lost>>
  BY DEF Subscribe, Announce, Goto
<1>2. /\ tag'[s] = t /\ newSub'[h] = s
      /\ pc'[h] = IF t \in known THEN "append" ELSE "insert"
      /\ \A g \in Handlers \ {h} : pc'[g] = pc[g] /\ newSub'[g] = newSub[g]
      /\ \A r \in Subscribers \ {s} : tag'[r] = tag[r]
  BY <1>1 DEF TypeInv, TypeOK
<1>3. /\ \A g \in Handlers : \A k \in Indices(g) : Nth(g, k) # s /\ Nth(g, k) \in Subscribers
      /\ \A g \in Handlers : pc[g] \in Adding => newSub[g] # s /\ newSub[g] \in Subscribers
  BY <1>1, NoTopicNotTopic DEF TypeInv, TypeOK, Ownership, Tagged, Nth, Indices
<1>4. \A g \in Handlers : /\ Indices(g)' = Indices(g)
                          /\ \A k \in Indices(g) : Nth(g, k)' = Nth(g, k) /\ TopicOf(g, k)' = TopicOf(g, k)
  BY <1>1, <1>2, <1>3 DEF Indices, Nth, TopicOf
<1>5. s \notin lost /\ ~ Listed(s)
  BY <1>1 DEF RaceInv, FreshUnlisted
<1>6. NewUnlisted'
  BY <1>1, <1>2, <1>5 DEF RaceInv, NewUnlisted, Listed
<1>7. FreshUnlisted'
  BY <1>1, <1>2, NoTopicNotTopic DEF RaceInv, FreshUnlisted, Listed
<1>8. FoundIsKnown'
  BY <1>1, <1>2, <1>3 DEF RaceInv, FoundIsKnown
<1>9. ServedKnown'
  BY <1>1, <1>4 DEF RaceInv, ServedKnown
<1>10. ServedListed'
  <2>1. \A g \in Handlers : pc'[g] \in Serving => pc[g] \in Serving
    BY <1>1, <1>2 DEF Serving
  <2>. QED
    BY <1>1, <1>4, <2>1 DEF RaceInv, ServedListed
<1>11. InsertIsFirst'
  BY <1>1, <1>2, <1>3, <1>4 DEF RaceInv, InsertIsFirst, ServedKnown
<1>12. LostServed' /\ LostOnce'
  BY <1>1, <1>4 DEF RaceInv, LostServed, LostOnce
<1>13. WinnerExists'
  BY <1>1, <1>4 DEF RaceInv, WinnerExists, Wins
<1>. QED
  BY <1>6, <1>7, <1>8, <1>9, <1>10, <1>11, <1>12, <1>13 DEF RaceInv

LEMMA ReturnRace ==
  ASSUME TypeInv, RaceInv, NEW h \in Handlers, AppendToFound(h) \/ Insert(h)
  PROVE  RaceInv'
<1>0. PICK n, u, last : n = newSub[h] /\ u = tag[n] /\ last = Len(clientSubs[h]) + 1
  OBVIOUS
<1>1. /\ pc[h] \in Adding
      /\ n \in Subscribers /\ u \in Topics
      /\ last \in Nat
      /\ \A g \in Handlers \ {h} : clientSubs'[g] = clientSubs[g]
      /\ pc' = [pc EXCEPT ![h] = "serve"]
      /\ newSub' = [newSub EXCEPT ![h] = NoSubscriber]
      /\ UNCHANGED tag
  BY <1>0, ReturnMoves
<1>2. /\ last \in Indices(h)' /\ Nth(h, last)' = n /\ TopicOf(h, last)' = u
      /\ last \notin Indices(h)
  BY <1>0, ReturnMoves DEF Indices, Nth, TopicOf
<1>3. ASSUME NEW g \in Handlers, NEW k \in Indices(g)
      PROVE  k \in Indices(g)' /\ Nth(g, k)' = Nth(g, k) /\ TopicOf(g, k)' = TopicOf(g, k)
  BY <1>0, ReturnMoves DEF Indices, Nth, TopicOf
<1>4. ASSUME NEW g \in Handlers, NEW k \in Indices(g)'
      PROVE  k \in Indices(g) \/ (g = h /\ k = last)
  BY <1>0, ReturnMoves DEF Indices
<1>5. \/ /\ pc[h] = "append" /\ u \in known /\ UNCHANGED <<known, lost>>
         /\ \A t \in Topics : list'[t] = IF t = u THEN list[t] \cup {n} ELSE list[t]
      \/ /\ pc[h] = "insert" /\ u \notin known /\ known' = known \cup {u} /\ UNCHANGED lost
         /\ \A t \in Topics : list'[t] = IF t = u THEN {n} ELSE list[t]
      \/ /\ pc[h] = "insert" /\ u \in known /\ lost' = lost \cup {n}
         /\ UNCHANGED <<known, list>>
  <2>1. CASE AppendToFound(h)
    <3>1. pc[h] = "append" /\ u \in known
      BY <1>0, <2>1 DEF AppendToFound, RaceInv, FoundIsKnown
    <3>2. UNCHANGED <<known, lost>> /\ list' = [list EXCEPT ![u] = list[u] \cup {n}]
      BY <1>0, <2>1 DEF AppendToFound
    <3>. QED
      BY <1>1, <3>1, <3>2 DEF TypeInv, TypeOK
  <2>2. CASE Insert(h)
    <3>1. /\ pc[h] = "insert"
          /\ \/ /\ u \notin known /\ known' = known \cup {u} /\ UNCHANGED lost
                /\ list' = [list EXCEPT ![u] = {n}]
             \/ u \in known /\ lost' = lost \cup {n} /\ UNCHANGED <<known, list>>
      BY <1>0, <2>2 DEF Insert
    <3>. QED
      BY <1>1, <3>1 DEF TypeInv, TypeOK
  <2>. QED
    BY <2>1, <2>2
<1>6. /\ \A g \in Handlers \ {h} : pc[g] \in Adding => newSub[g] # n
      /\ \A g \in Handlers : \A k \in Indices(g) : Nth(g, k) # n
      /\ n \notin lost /\ ~ Listed(n)
  BY <1>0, <1>1 DEF TypeInv, Ownership, OwnUnderWay, RaceInv, NewUnlisted
<1>7. \A g \in Handlers : pc'[g] \in Adding => g # h /\ pc'[g] = pc[g] /\ newSub'[g] = newSub[g]
  BY <1>1 DEF TypeInv, TypeOK, Adding
<1>8. known \subseteq known' /\ u \in known'
  BY <1>5
<1>9. \A r : r # n => (r \in lost' <=> r \in lost)
  BY <1>5
<1>10. ASSUME NEW g \in Handlers, NEW k \in Indices(g), NEW t \in Topics, pc[g] \in Serving
       PROVE  Nth(g, k) \in list'[t] <=> Nth(g, k) \in list[t]
  <2>1. Nth(g, k) \in list[t] => t \in known
    BY <1>10 DEF RaceInv, ServedListed, ServedKnown
  <2>. QED
    BY <1>5, <1>6, <2>1
<1>11. \A r : r # n /\ ~ Listed(r) => ~ Listed(r)'
  BY <1>5 DEF Listed
<1>12. NewUnlisted'
  BY <1>1, <1>6, <1>7, <1>9, <1>11 DEF RaceInv, NewUnlisted
<1>13. FreshUnlisted'
  <2>1. tag[n] # NoTopic
    BY <1>0, <1>1, NoTopicNotTopic
  <2>. QED
    BY <1>1, <1>9, <1>11, <2>1 DEF RaceInv, FreshUnlisted
<1>14. FoundIsKnown'
  BY <1>1, <1>7, <1>8 DEF RaceInv, FoundIsKnown, Adding
<1>15. ServedKnown'
  BY <1>2, <1>3, <1>4, <1>8 DEF RaceInv, ServedKnown
<1>16. ServedListed'
  <2>1. SUFFICES ASSUME NEW g \in Handlers, NEW k \in Indices(g)', pc'[g] \in Serving, NEW t \in Topics
                 PROVE  Nth(g, k)' \in list'[t] <=> t = TopicOf(g, k)' /\ Nth(g, k)' \notin lost'
    BY DEF ServedListed
  <2>2. pc[g] \in Serving
    BY <1>1, <2>1 DEF Serving, Adding
  <2>3. CASE k \in Indices(g)
    BY <1>3, <1>6, <1>9, <1>10, <2>2, <2>3 DEF RaceInv, ServedListed
  <2>4. n \in list'[t] <=> t = u /\ n \notin lost'
    BY <1>5, <1>6 DEF Listed
  <2>. QED
    BY <1>2, <1>4, <2>3, <2>4
<1>17. InsertIsFirst'
  <2>1. SUFFICES ASSUME NEW g \in Handlers, pc'[g] = "insert", NEW k \in Indices(g)'
                 PROVE  TopicOf(g, k)' # tag'[newSub'[g]]
    BY DEF InsertIsFirst
  <2>2. g # h /\ pc[g] = "insert" /\ newSub'[g] = newSub[g] /\ k \in Indices(g)
    BY <1>4, <1>7, <2>1 DEF Adding
  <2>. QED
    BY <1>1, <1>3, <2>2 DEF RaceInv, InsertIsFirst
<1>18. LostServed'
  <2>1. SUFFICES ASSUME NEW r \in lost'
                 PROVE  \E g \in Handlers : \E k \in Indices(g)' : Nth(g, k)' = r
    BY DEF LostServed
  <2>2. CASE r = n
    BY <1>2, <2>2
  <2>3. CASE r # n
    <3>1. PICK g \in Handlers : \E k \in Indices(g) : Nth(g, k) = r
      BY <1>9, <2>3 DEF RaceInv, LostServed
    <3>. QED
      BY <1>3, <3>1
  <2>. QED
    BY <2>2, <2>3
<1>19. n \in lost' => \A k \in Indices(h) : TopicOf(h, k) # u
  <2>1. pc[h] = "insert" => \A k \in Indices(h) : TopicOf(h, k) # u
    BY <1>0 DEF RaceInv, InsertIsFirst
  <2>. QED
    BY <1>5, <1>6, <2>1
<1>20. LostOnce'
  <2>1. SUFFICES ASSUME NEW g \in Handlers, NEW j \in Indices(g)', NEW k \in Indices(g)',
                        Nth(g, j)' \in lost', Nth(g, k)' \in lost', TopicOf(g, j)' = TopicOf(g, k)'
                 PROVE  j = k
    BY DEF LostOnce
  <2>2. CASE j \in Indices(g) /\ k \in Indices(g)
    BY <1>3, <1>6, <1>9, <2>1, <2>2 DEF RaceInv, LostOnce
  <2>3. CASE g = h /\ j = last /\ k \in Indices(g)
    BY <1>2, <1>3, <1>19, <2>1, <2>3
  <2>4. CASE g = h /\ k = last /\ j \in Indices(g)
    BY <1>2, <1>3, <1>19, <2>1, <2>4
  <2>. QED
    BY <1>4, <2>2, <2>3, <2>4
<1>21. WinnerExists'
  <2>1. ASSUME NEW t \in known, NEW w \in Handlers, Wins(w, t)
        PROVE  Wins(w, t)'
    <3>1. PICK k \in Indices(w) : TopicOf(w, k) = t
      BY <2>1 DEF Wins
    <3>2. ASSUME NEW j \in Indices(w)', TopicOf(w, j)' = t
          PROVE  Nth(w, j)' \notin lost'
      <4>1. CASE j \in Indices(w)
        BY <1>3, <1>6, <1>9, <2>1, <3>2, <4>1 DEF Wins
      <4>2. CASE w = h /\ j = last
        BY <1>2, <1>19, <3>1, <3>2, <4>2
      <4>. QED
        BY <1>4, <4>1, <4>2
    <3>. QED
      BY <1>3, <3>1, <3>2 DEF Wins
  <2>2. ASSUME u \notin known
        PROVE  Wins(h, u)'
    <3>1. n \notin lost'
      BY <1>5, <1>6, <2>2
    <3>2. \A k \in Indices(h) : TopicOf(h, k) # u
      BY <2>2 DEF RaceInv, ServedKnown
    <3>. QED
      BY <1>2, <1>3, <1>4, <3>1, <3>2 DEF Wins
  <2>3. known' \subseteq known \cup {u}
    BY <1>5
  <2>. QED
    BY <2>1, <2>2, <2>3 DEF RaceInv, WinnerExists
<1>. QED
  BY <1>12, <1>13, <1>14, <1>15, <1>16, <1>17, <1>18, <1>20, <1>21 DEF RaceInv

LEMMA LeaveRace ==
  ASSUME TypeInv, RaceInv, NEW h \in Handlers,
         Disconnect(h) \/ Unsubscribe(h) \/ Delete(h) \/ Finish(h)
  PROVE  RaceInv'
<1>1. /\ pc[h] \notin Adding /\ \E l \in Closing : pc' = [pc EXCEPT ![h] = l]
      /\ UNCHANGED <<known, newSub, clientSubs, tag, lost>>
  BY DEF Disconnect, Leave, Unsubscribe, TakeOut, Delete, Finish, Goto, Adding, Closing
<1>2. \A g \in Handlers :
        /\ pc'[g] \in Serving => g # h /\ pc[g] \in Serving
        /\ pc'[g] \in Adding => pc[g] = pc'[g]
  BY <1>1 DEF TypeInv, TypeOK, Serving, Closing, Adding
<1>3. \/ UNCHANGED list
      \/ left[h] \in Indices(h) /\ \A t \in Topics : list'[t] = list[t] \ {Nth(h, left[h])}
  <2>1. CASE Unsubscribe(h)
    BY <2>1 DEF Unsubscribe, TakeOut, Nth, Indices, TypeInv, TypeOK
  <2>2. CASE Disconnect(h) \/ Delete(h) \/ Finish(h)
    BY <2>2 DEF Disconnect, Leave, Delete, Finish
  <2>. QED
    BY <2>1, <2>2
<1>4. \A r : ~ Listed(r) => ~ Listed(r)'
  BY <1>3 DEF Listed
<1>5. \A g \in Handlers : \A k : /\ Indices(g)' = Indices(g)
                                 /\ Nth(g, k)' = Nth(g, k)
                                 /\ TopicOf(g, k)' = TopicOf(g, k)
  BY <1>1 DEF Indices, Nth, TopicOf
<1>6. NewUnlisted' /\ FreshUnlisted' /\ FoundIsKnown' /\ ServedKnown'
  BY <1>1, <1>2, <1>4, <1>5 DEF RaceInv, NewUnlisted, FreshUnlisted, FoundIsKnown, ServedKnown, Adding
<1>7. InsertIsFirst'
  BY <1>1, <1>2, <1>5 DEF RaceInv, InsertIsFirst, Adding
<1>8. LostServed' /\ LostOnce' /\ WinnerExists'
  BY <1>1, <1>5 DEF RaceInv, LostServed, LostOnce, WinnerExists, Wins
<1>9. ServedListed'
  <2>1. SUFFICES ASSUME NEW g \in Handlers, NEW k \in Indices(g), pc'[g] \in Serving, NEW t \in Topics
                 PROVE  Nth(g, k) \in list'[t] <=> t = TopicOf(g, k) /\ Nth(g, k) \notin lost
    BY <1>1, <1>5 DEF ServedListed
  <2>2. g # h /\ pc[g] \in Serving
    BY <1>2, <2>1
  <2>3. left[h] \in Indices(h) => Nth(g, k) # Nth(h, left[h])
    BY <2>2 DEF TypeInv, Ownership, OwnServed
  <2>. QED
    BY <1>3, <2>2, <2>3 DEF RaceInv, ServedListed
<1>. QED
  BY <1>6, <1>7, <1>8, <1>9 DEF RaceInv

LEMMA NextRace == TypeInv /\ RaceInv /\ [Next]_vars => RaceInv'
<1>. SUFFICES ASSUME TypeInv, RaceInv, [Next]_vars
              PROVE  RaceInv'
  OBVIOUS
<1>1. CASE UNCHANGED vars
  BY <1>1 DEF vars, RaceInv, NewUnlisted, FreshUnlisted, FoundIsKnown, ServedKnown, ServedListed,
              InsertIsFirst, LostServed, LostOnce, WinnerExists, Wins, Listed, Indices, Nth, TopicOf
<1>. QED
  BY <1>1, StepCases, SubscribeRace, ReturnRace, LeaveRace

(* A subscription whose AddSubscription has returned is in its topic's list *)
(* and no other until its handler leaves, unless it lost the race of two    *)
(* inserts.                                                                 *)
THEOREM SubscribedStaysListed == Spec => []SubscribedIsListed
<1>1. RaceInv => SubscribedIsListed
  BY DEF RaceInv, ServedKnown, ServedListed, SubscribedIsListed, Serving, Nth, Indices, TopicOf
<1>. QED
  BY <1>1, TypeInvHolds, InitRace, NextRace, InitType, NextType, PTL DEF Spec

(* The race of two inserts costs a handler at most one subscription for a   *)
(* topic, and never costs every handler one: the map each lost subscriber   *)
(* has to its handler is an injection that misses the topic's first         *)
(* inserter.                                                                *)
THEOREM RaceLossBounded == Spec => []LossBounded
<1>1. ASSUME TypeInv, RaceInv, NEW t \in Topics
      PROVE  LET lostOn == {s \in lost : tag[s] = t}
             IN  /\ \A h \in Handlers : Cardinality(lostOn \cap Served(h)) <= 1
                 /\ lostOn # {} => Cardinality(lostOn) < Cardinality(Handlers)
  <2>. DEFINE lostOn == {s \in lost : tag[s] = t}
  <2>1. \A h \in Handlers : \A r, s \in lostOn \cap Served(h) : r = s
    BY <1>1 DEF RaceInv, LostOnce, TopicOf, Served, Nth, Indices
  <2>2. ASSUME NEW h \in Handlers
        PROVE  Cardinality(lostOn \cap Served(h)) <= 1
    <3>1. CASE lostOn \cap Served(h) = {}
      BY <3>1, FS_EmptySet
    <3>2. CASE lostOn \cap Served(h) # {}
      <4>1. PICK r : r \in lostOn \cap Served(h)
        BY <3>2
      <4>2. lostOn \cap Served(h) = {r}
        BY <2>1, <4>1
      <4>. QED
        BY <4>2, FS_Singleton
    <3>. QED
      BY <3>1, <3>2
  <2>3. ASSUME lostOn # {}
        PROVE  Cardinality(lostOn) < Cardinality(Handlers)
    <3>1. \A s \in lostOn : \E h \in Handlers : s \in Served(h)
      BY <1>1 DEF RaceInv, LostServed, Served, Nth, Indices
    <3>2. t \in known
      BY <1>1, <2>3 DEF RaceInv, LostServed, ServedKnown, TopicOf
    <3>3. PICK w \in Handlers : Wins(w, t)
      BY <1>1, <3>2 DEF RaceInv, WinnerExists
    <3>4. lostOn \cap Served(w) = {}
      BY <3>3 DEF Wins, Served, Nth, Indices, TopicOf
    <3>. DEFINE owner == [s \in lostOn |-> CHOOSE h \in Handlers : s \in Served(h)]
    <3>5. \A s \in lostOn : owner[s] \in Handlers /\ s \in Served(owner[s])
      BY <3>1
    <3>6. owner \in Injection(lostOn, Handlers \ {w})
      <4>1. owner \in [lostOn -> Handlers \ {w}]
        BY <3>4, <3>5
      <4>2. \A r, s \in lostOn : owner[r] = owner[s] => r = s
        BY <2>1, <3>5
      <4>. HIDE DEF owner, lostOn
      <4>. QED
        BY <4>1, <4>2 DEF Injection, IsInjective
    <3>. HIDE DEF owner, lostOn
    <3>7. /\ IsFiniteSet(Handlers \ {w})
          /\ Cardinality(Handlers \ {w}) = Cardinality(Handlers) - 1
      BY HandlersFinite, FS_RemoveElement
    <3>8. IsFiniteSet(lostOn) /\ Cardinality(lostOn) <= Cardinality(Handlers \ {w})
      BY <3>6, <3>7, FS_Injection
    <3>9. Cardinality(lostOn) \in Nat /\ Cardinality(Handlers) \in Nat
      BY <3>8, HandlersFinite, FS_CardinalityType
    <3>. QED
      BY <3>7, <3>8, <3>9
  <2>. QED
    BY <2>2, <2>3
<1>2. TypeInv /\ RaceInv => LossBounded
  BY <1>1 DEF LossBounded
<1>. QED
  BY <1>2, TypeInvHolds, InitRace, NextRace, InitType, NextType, PTL DEF Spec

-----------------------------------------------------------------------------
(* What those who walk through the lists rely on.                           *)

ListTagged == \A t \in Topics : \A s \in list[t] : tag[s] = t

ServedAlive ==
  \A h \in Handlers : pc[h] \in Serving => \A k \in Indices(h) : Nth(h, k) \in alive

MadeBySomeone ==
  \A s \in Subscribers : tag[s] \in Topics =>
    \E h \in Handlers : newSub[h] = s \/ \E k \in Indices(h) : Nth(h, k) = s

UnknownEmpty == \A t \in Topics \ known : list[t] = {}

ListsFinite == \A t \in Topics : IsFiniteSet(list[t])

ListInv == ListTagged /\ ServedAlive /\ MadeBySomeone /\ UnknownEmpty /\ ListsFinite

LEMMA InitLists == Init => ListInv
<1>. SUFFICES ASSUME Init PROVE ListInv
  OBVIOUS
<1>1. ListTagged /\ ServedAlive /\ UnknownEmpty
  BY DEF Init, ListTagged, ServedAlive, UnknownEmpty, Indices
<1>2. MadeBySomeone
  BY NoTopicNotTopic DEF Init, MadeBySomeone
<1>3. ListsFinite
  BY FS_EmptySet DEF Init, ListsFinite
<1>. QED
  BY <1>1, <1>2, <1>3 DEF ListInv

LEMMA NextLists == TypeInv /\ LeftInv /\ RaceInv /\ ListInv /\ [Next]_vars => ListInv'
<1>. SUFFICES ASSUME TypeInv, LeftInv, RaceInv, ListInv, [Next]_vars
              PROVE  ListInv'
  OBVIOUS
<1>1. ASSUME NEW h \in Handlers, NEW t \in Topics, NEW s \in Subscribers, Subscribe(h, t, s)
      PROVE  ListInv'
  <2>1. PICK l \in Adding :
          /\ pc[h] = "serve" /\ tag[s] = NoTopic /\ tag' = [tag EXCEPT ![s] = t]
          /\ alive' = alive \cup {s} /\ newSub' = [newSub EXCEPT ![h] = s]
          /\ pc' = [pc EXCEPT ![h] = l]
          /\ UNCHANGED <<known, list, clientSubs>>
    BY <1>1 DEF Subscribe, Announce, Goto, Adding
  <2>2. ListTagged'
    BY <2>1, NoTopicNotTopic DEF ListInv, ListTagged, TypeInv, TypeOK
  <2>3. ServedAlive'
    <3>1. \A g \in Handlers : pc'[g] \in Serving => pc[g] \in Serving
      BY <2>1 DEF Serving, TypeInv, TypeOK
    <3>. QED
      BY <2>1, <3>1 DEF ListInv, ServedAlive, Indices, Nth
  <2>4. MadeBySomeone'
    <3>1. newSub[h] = NoSubscriber
      BY <2>1 DEF TypeInv, TypeOK
    <3>2. /\ newSub'[h] = s /\ \A g \in Handlers \ {h} : newSub'[g] = newSub[g]
          /\ \A x \in Subscribers \ {s} : tag'[x] = tag[x]
      BY <2>1 DEF TypeInv, TypeOK
    <3>. QED
      BY <2>1, <3>1, <3>2, NoSubscriberNotSubscriber DEF ListInv, MadeBySomeone, Indices, Nth
  <2>5. UnknownEmpty' /\ ListsFinite'
    BY <2>1 DEF ListInv, UnknownEmpty, ListsFinite
  <2>. QED
    BY <2>2, <2>3, <2>4, <2>5 DEF ListInv
<1>2. ASSUME NEW h \in Handlers, AppendToFound(h) \/ Insert(h)
      PROVE  ListInv'
  <2>. DEFINE s == newSub[h]
              n == Len(clientSubs[h]) + 1
  <2>1. /\ pc[h] \in Adding /\ s \in Subscribers /\ tag[s] \in Topics
        /\ Len(clientSubs[h]) \in Nat
        /\ Len(clientSubs'[h]) = n /\ clientSubs'[h][n] = s
        /\ \A k \in Indices(h) : clientSubs'[h][k] = Nth(h, k)
        /\ \A g \in Handlers \ {h} : clientSubs'[g] = clientSubs[g]
        /\ pc' = [pc EXCEPT ![h] = "serve"]
        /\ newSub' = [newSub EXCEPT ![h] = NoSubscriber]
        /\ UNCHANGED <<alive, left, tag>>
    BY <1>2, ReturnMoves
  <2>2. /\ known \subseteq known'
        /\ \A t \in Topics : \/ list'[t] = list[t]
                             \/ t = tag[s] /\ list'[t] \subseteq list[t] \cup {s}
    BY <1>2, ReturnLists
  <2>3. tag[s] \in known'
    <3>1. CASE AppendToFound(h)
      BY <2>2, <3>1 DEF AppendToFound, RaceInv, FoundIsKnown
    <3>2. CASE Insert(h)
      BY <3>2 DEF Insert
    <3>. QED
      BY <1>2, <3>1, <3>2
  <2>4. \A k \in 1..n : k \in Indices(h) \/ k = n
    BY <2>1 DEF Indices
  <2>5. Indices(h)' = 1..n /\ n \in 1..n /\ Indices(h) \subseteq 1..n
    BY <2>1 DEF Indices
  <2>6. ListTagged'
    BY <2>1, <2>2 DEF ListInv, ListTagged
  <2>7. ServedAlive'
    <3>1. SUFFICES ASSUME NEW g \in Handlers, pc'[g] \in Serving, NEW k \in Indices(g)'
                   PROVE  Nth(g, k)' \in alive
      BY <2>1 DEF ServedAlive
    <3>2. pc[g] \in Serving
      BY <2>1, <3>1 DEF TypeInv, TypeOK, Serving, Adding
    <3>3. CASE g = h
      <4>1. s \in alive
        BY <2>1 DEF LeftInv, AliveUnderWay
      <4>2. k \in Indices(h) \/ k = n
        BY <2>4, <2>5, <3>3
      <4>3. k = n => Nth(g, k)' = s
        BY <2>1, <3>3 DEF Nth
      <4>4. k \in Indices(h) => Nth(g, k)' = Nth(h, k)
        BY <2>1, <3>3 DEF Nth
      <4>. QED
        BY <3>2, <3>3, <4>1, <4>2, <4>3, <4>4 DEF ListInv, ServedAlive
    <3>4. CASE g # h
      BY <2>1, <3>1, <3>2, <3>4 DEF ListInv, ServedAlive, Indices, Nth
    <3>. QED
      BY <3>3, <3>4
  <2>8. MadeBySomeone'
    <3>1. SUFFICES ASSUME NEW x \in Subscribers, tag[x] \in Topics
                   PROVE  \E g \in Handlers : newSub'[g] = x \/ \E k \in Indices(g)' : Nth(g, k)' = x
      BY <2>1 DEF MadeBySomeone
    <3>2. CASE x = s
      BY <2>1, <2>5, <3>2 DEF Nth
    <3>3. CASE x # s
      <4>1. PICK g \in Handlers : newSub[g] = x \/ \E k \in Indices(g) : Nth(g, k) = x
        BY <3>1 DEF ListInv, MadeBySomeone
      <4>2. CASE newSub[g] = x
        BY <2>1, <3>3, <4>2 DEF TypeInv, TypeOK
      <4>3. ASSUME NEW k \in Indices(g), Nth(g, k) = x
            PROVE  k \in Indices(g)' /\ Nth(g, k)' = x
        <5>1. CASE g = h
          BY <2>1, <2>5, <4>3, <5>1 DEF Nth
        <5>2. CASE g # h
          BY <2>1, <4>3, <5>2 DEF Nth, Indices
        <5>. QED
          BY <5>1, <5>2
      <4>. QED
        BY <4>1, <4>2, <4>3
    <3>. QED
      BY <3>2, <3>3
  <2>9. UnknownEmpty'
    BY <2>2, <2>3 DEF ListInv, UnknownEmpty
  <2>10. ListsFinite'
    <3>1. ASSUME NEW t \in Topics
          PROVE  IsFiniteSet(list'[t])
      <4>1. IsFiniteSet(list[t])
        BY DEF ListInv, ListsFinite
      <4>2. IsFiniteSet(list[t] \cup {s})
        BY <4>1, FS_AddElement
      <4>3. list'[t] \subseteq list[t] \cup {s}
        BY <2>2
      <4>. QED
        BY <4>2, <4>3, FS_Subset
    <3>. QED
      BY <3>1 DEF ListsFinite
  <2>. QED
    BY <2>6, <2>7, <2>8, <2>9, <2>10 DEF ListInv
<1>3. ASSUME NEW h \in Handlers, Disconnect(h) \/ Unsubscribe(h) \/ Delete(h) \/ Finish(h)
      PROVE  ListInv'
  <2>1. /\ pc[h] \notin Adding /\ \E l \in Closing : pc' = [pc EXCEPT ![h] = l]
        /\ UNCHANGED <<known, newSub, clientSubs, tag>>
    BY <1>3 DEF Disconnect, Leave, Unsubscribe, TakeOut, Delete, Finish, Goto, Adding, Closing
  <2>2. \A t \in Topics : list'[t] \subseteq list[t]
    BY <1>3 DEF Disconnect, Leave, Unsubscribe, TakeOut, Delete, Finish
  <2>3. \A g \in Handlers : pc'[g] \in Serving => g # h /\ pc[g] \in Serving
    BY <2>1 DEF Serving, Closing, TypeInv, TypeOK
  <2>4. alive' = alive \/ (left[h] \in Indices(h) /\ alive' = alive \ {Nth(h, left[h])})
    BY <1>3 DEF Disconnect, Leave, Unsubscribe, TakeOut, Delete, Finish, Nth, Indices, TypeInv, TypeOK
  <2>5. ListTagged' /\ MadeBySomeone' /\ UnknownEmpty'
    BY <2>1, <2>2 DEF ListInv, ListTagged, MadeBySomeone, UnknownEmpty, Nth, Indices
  <2>6. ServedAlive'
    <3>1. SUFFICES ASSUME NEW g \in Handlers, pc'[g] \in Serving, NEW k \in Indices(g)
                   PROVE  Nth(g, k) \in alive'
      BY <2>1 DEF ServedAlive, Nth, Indices
    <3>2. g # h /\ Nth(g, k) \in alive
      BY <2>3, <3>1 DEF ListInv, ServedAlive
    <3>. QED
      BY <2>4, <3>2 DEF TypeInv, Ownership, OwnServed
  <2>7. ListsFinite'
    BY <2>2, FS_Subset DEF ListInv, ListsFinite
  <2>. QED
    BY <2>5, <2>6, <2>7 DEF ListInv
<1>4. CASE UNCHANGED vars
  BY <1>4 DEF vars, ListInv, ListTagged, ServedAlive, MadeBySomeone, UnknownEmpty, ListsFinite, Nth, Indices
<1>. QED
  BY <1>1, <1>2, <1>3, <1>4, StepCases
=============================================================================
