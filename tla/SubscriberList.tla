---------------------------- MODULE SubscriberList ----------------------------
(***************************************************************************)
(* The subscribers of one topic (Topic.cpp) while dispatchers walk through *)
(* them (Broker.cpp, the loop at the end of dispatcher_task).              *)
(*                                                                         *)
(* m_subs protects every method of Topic, but GetSubscribers() returns a   *)
(* reference: the dispatcher indexes the vector, loads the pointer and     *)
(* calls it with no lock held, while connection threads append (which may  *)
(* move the vector to another buffer), remove (which shifts the later      *)
(* pointers to the left) and then delete the subscriber.  These are data   *)
(* races; the model has the outcomes of a build that loads a pointer in    *)
(* one piece: the vector's buffer address and the slot are two loads, a    *)
(* slot of the current buffer yields what it holds, and a slot of a freed  *)
(* buffer yields Garbage.  A process that such a call brings down takes no *)
(* further step, so that needs no action.                                  *)
(*                                                                         *)
(* A pointer is named for the subscriber object it was made for.  What     *)
(* a call through the pointer of a deleted object does (it may bring the   *)
(* process down, use the dead object's socket, or reach a newer object at  *)
(* the same address) changes nothing in this module.                       *)
(* Each method of Topic is one step, being a critical section.             *)
(***************************************************************************)
EXTENDS Naturals, Sequences, FiniteSets

CONSTANTS
  Dispatchers,  \* dispatchers walking through this topic's subscribers
  Objects,      \* the subscribers that are ever created
  Garbage       \* whatever a freed buffer holds

ASSUME GarbageNotObject == Garbage \notin Objects

VARIABLES
  slots,     \* the initialised part of m_subscribers' buffer
  size,      \* m_subscribers.size(): the first `size` slots are the list
  capacity,  \* m_subscribers.capacity()
  buffer,    \* which buffer it is: the number of reallocations so far
  object,    \* the stage of each object's life
  pc,        \* where each dispatcher is in its loop
  index,     \* its `i`
  base,      \* the buffer it is about to read
  pointer,   \* the pointer it has read
  called,    \* history: objects called so far in this fan-out
  stayed,    \* history: those listed ever since this fan-out began
  removals,  \* history: number of removals from the list during it
  window,    \* history: those listed at some point since GetSubCount()
  wild       \* history: this fan-out has read a freed buffer

listVars == <<slots, size, capacity, buffer>>
loopVars == <<pc, index, base, pointer, wild>>
historyVars == <<called, stayed, removals, window>>
vars == <<slots, size, capacity, buffer, object, pc, index, base,
          pointer, called, stayed, removals, window, wild>>

Listed == {slots[k] : k \in 1..size}

\* The topic enters the map with one subscriber, in a vector copied from
\* the local `newTopic`.
Init ==
  /\ \E o \in Objects :
       /\ slots = <<o>>
       /\ object = [x \in Objects |-> IF x = o THEN "listed" ELSE "none"]
  /\ size = 1
  /\ capacity = 1
  /\ buffer = 0
  /\ pc = [d \in Dispatchers |-> "idle"]
  /\ index = [d \in Dispatchers |-> 0]
  /\ base = [d \in Dispatchers |-> 0]
  /\ pointer = [d \in Dispatchers |-> Garbage]
  /\ called = [d \in Dispatchers |-> {}]
  /\ stayed = [d \in Dispatchers |-> {}]
  /\ removals = [d \in Dispatchers |-> 0]
  /\ window = [d \in Dispatchers |-> {}]
  /\ wild = [d \in Dispatchers |-> FALSE]

-----------------------------------------------------------------------------
(* Connection threads: new, AddSubscription, Unsubscribe and delete.       *)

\* new NetSubscriber(data.Client), for this topic or for another one.
New(o) ==
  /\ object[o] = "none"
  /\ object' = [object EXCEPT ![o] = "new"]
  /\ UNCHANGED <<listVars, loopVars, historyVars>>

\* o enters the list: it is then in the window of every pending read.
Watch(o) ==
  window' = [d \in Dispatchers |->
               IF pc[d] \in {"load", "read"} THEN window[d] \cup {o} ELSE window[d]]

\* The list is one longer.  A full vector moves to a new buffer; by how much
\* it grows is up to the library.
Grow(o) ==
  /\ object[o] = "new"
  /\ object' = [object EXCEPT ![o] = "listed"]
  /\ size' = size + 1
  /\ \/ size < capacity /\ UNCHANGED <<capacity, buffer>>
     \/ size = capacity /\ capacity' \in size + 1 .. 2 * size /\ buffer' = buffer + 1
  /\ Watch(o)
  /\ UNCHANGED <<loopVars, called, stayed, removals>>

\* Fault: the newest subscriber goes to the front of the list.
AddSubscriberInFront(o) == Grow(o) /\ slots' = <<o>> \o slots

\* AddSubscriber: push_back under m_subs.
AddSubscriber(o) ==
  /\ Grow(o)
  /\ slots' = IF size < Len(slots)
              THEN [slots EXCEPT ![size + 1] = o]
              ELSE Append(slots, o)

\* The list is one shorter.
Shrink(o) ==
  /\ object[o] = "listed"
  /\ object' = [object EXCEPT ![o] = "removed"]
  /\ size' = size - 1
  /\ stayed' = [d \in Dispatchers |-> stayed[d] \ {o}]
  /\ removals' = [d \in Dispatchers |-> removals[d] + 1]
  /\ UNCHANGED <<loopVars, called, window>>

\* Fault: the vector gives the freed slot back (shrink_to_fit).
RemoveShrinking(o) ==
  /\ Shrink(o)
  /\ slots' = SelectSeq(SubSeq(slots, 1, size), LAMBDA x : x # o)
  /\ capacity' = size'
  /\ buffer' = buffer + 1

\* Remove: std::remove and erase under m_subs.  They move what follows the
\* subscriber one slot down and leave the last slot as it was.
Remove(o) ==
  /\ Shrink(o)
  /\ \E k \in 1..size :
       /\ slots[k] = o
       /\ slots' = [j \in 1..Len(slots) |->
                      IF k <= j /\ j < size THEN slots[j + 1] ELSE slots[j]]
  /\ UNCHANGED <<capacity, buffer>>

Destroy(o) ==
  /\ object' = [object EXCEPT ![o] = "deleted"]
  /\ UNCHANGED <<listVars, loopVars, historyVars>>

\* Fault: the handler deletes its subscriber without unsubscribing it.
DeleteAny(o) == object[o] \notin {"none", "deleted"} /\ Destroy(o)

\* delete clientSubs[i], after its Unsubscribe (which does nothing here to a
\* subscriber of another topic).
Delete(o) == object[o] \in {"new", "removed"} /\ Destroy(o)

-----------------------------------------------------------------------------
(* The loop over the subscribers for one message.                          *)

Goto(d, l) == pc' = [pc EXCEPT ![d] = l]

\* The lookup has found the topic: `unsigned i = 0`.
Start(d) ==
  /\ pc[d] = "idle"
  /\ Goto(d, "count")
  /\ index' = [index EXCEPT ![d] = 0]
  /\ called' = [called EXCEPT ![d] = {}]
  /\ stayed' = [stayed EXCEPT ![d] = Listed]
  /\ removals' = [removals EXCEPT ![d] = 0]
  /\ wild' = [wild EXCEPT ![d] = FALSE]
  /\ UNCHANGED <<listVars, object, base, pointer, window>>

Continue(d, more) ==
  /\ pc[d] = "count"
  /\ Goto(d, IF more THEN "load" ELSE "idle")
  /\ window' = [window EXCEPT ![d] = Listed]
  /\ UNCHANGED <<listVars, object, index, base, pointer, wild,
                 called, stayed, removals>>

\* Fault: the last subscriber is left out.
CountShort(d) == Continue(d, index[d] + 1 < size)

\* `i < GetSubCount()`, under m_subs.
Count(d) == Continue(d, index[d] < size)

\* GetSubscribers() has unlocked; operator[] loads the buffer's address.
Load(d) ==
  /\ pc[d] = "load"
  /\ Goto(d, "read")
  /\ base' = [base EXCEPT ![d] = buffer]
  /\ UNCHANGED <<listVars, historyVars, object, index, pointer, wild>>

\* operator[] reads the slot.
Read(d) ==
  /\ pc[d] = "read"
  /\ Goto(d, "call")
  /\ \/ /\ base[d] = buffer
        /\ pointer' = [pointer EXCEPT ![d] = slots[index[d] + 1]]
        /\ UNCHANGED wild
     \/ /\ base[d] # buffer
        /\ pointer' = [pointer EXCEPT ![d] = Garbage]
        /\ wild' = [wild EXCEPT ![d] = TRUE]
  /\ base' = [base EXCEPT ![d] = 0]
  /\ UNCHANGED <<listVars, historyVars, object, index>>

\* OnReceive(...) returns: `i++`.  The temporaries of the iteration are gone.
Call(d) ==
  /\ pc[d] = "call"
  /\ Goto(d, "count")
  /\ called' = [called EXCEPT ![d] = @ \cup ({pointer[d]} \ {Garbage})]
  /\ index' = [index EXCEPT ![d] = @ + 1]
  /\ pointer' = [pointer EXCEPT ![d] = Garbage]
  /\ window' = [window EXCEPT ![d] = {}]
  /\ UNCHANGED <<listVars, object, base, wild, stayed, removals>>

-----------------------------------------------------------------------------

Next ==
  \/ \E o \in Objects : New(o) \/ AddSubscriber(o) \/ Remove(o) \/ Delete(o)
  \/ \E d \in Dispatchers : Start(d) \/ Count(d) \/ Load(d) \/ Read(d) \/ Call(d)

Spec == Init /\ [][Next]_vars

-----------------------------------------------------------------------------

(* Types.  The buffer's contents are pointers, in and behind the list; the  *)
(* list holds each current subscriber once and no other object.             *)
TypeOK ==
  /\ slots \in Seq(Objects)
  /\ size \in 0..Len(slots) /\ capacity \in Nat /\ Len(slots) <= capacity
  /\ buffer \in Nat
  /\ object \in [Objects -> {"none", "new", "listed", "removed", "deleted"}]
  /\ pc \in [Dispatchers -> {"idle", "count", "load", "read", "call"}]
  /\ index \in [Dispatchers -> Nat]
  /\ base \in [Dispatchers -> Nat]
  /\ pointer \in [Dispatchers -> Objects \cup {Garbage}]
  /\ called \in [Dispatchers -> SUBSET Objects]
  /\ stayed \in [Dispatchers -> SUBSET Objects]
  /\ removals \in [Dispatchers -> Nat]
  /\ window \in [Dispatchers -> SUBSET Objects]
  /\ wild \in [Dispatchers -> BOOLEAN]
  /\ \A j, k \in 1..size : slots[j] = slots[k] => j = k
  /\ Listed = {o \in Objects : object[o] = "listed"}

(* Although the index was checked in an earlier critical section, and the   *)
(* list may have shrunk and grown since, the slot that is read has been     *)
(* written: an index never runs past the initialised part of the current    *)
(* buffer.                                                                  *)
ReadsInitialised ==
  \A d \in Dispatchers :
    pc[d] = "load" \/ (pc[d] = "read" /\ base[d] = buffer) => index[d] < Len(slots)

(* Whatever moves under the dispatcher's index, it calls no subscriber      *)
(* twice for the same message, and one that has unsubscribed only if it did *)
(* so after this iteration's GetSubCount(): a stale slot is never older.    *)
(* (Pointers read from a freed buffer aside.)                               *)
CallsOnceAndRecent ==
  \A d \in Dispatchers :
    pc[d] = "call" =>
      \/ pointer[d] \in window[d] \ called[d]
      \/ pointer[d] = Garbage /\ wild[d]

(* Subscribers that stay for a whole fan-out miss the message only because  *)
(* others left meanwhile and shifted them below the index: at most one for  *)
(* each that left, and none when nobody left.  (A fan-out that reads a      *)
(* freed buffer is beyond that.)                                            *)
MissesBoundedByRemovals ==
  \A d \in Dispatchers :
    pc[d] = "idle" /\ ~wild[d] => Cardinality(stayed[d] \ called[d]) <= removals[d]

-----------------------------------------------------------------------------
(* The walks as the rest of the server may think of them.                  *)

Walking(d) == pc[d] # "idle"

Walks == INSTANCE FanOut WITH
  Walkers <- Dispatchers,
  Topics <- {"this"},
  Subscribers <- Objects,
  NoTopic <- "none",
  NoSubscriber <- Garbage,
  list <- [t \in {"this"} |-> Listed],
  topic <- [d \in Dispatchers |-> IF Walking(d) THEN "this" ELSE "none"],
  stage <- [d \in Dispatchers |-> IF pc[d] \in {"load", "read"} THEN "pick" ELSE pc[d]],
  called <- [d \in Dispatchers |-> IF Walking(d) THEN called[d] ELSE {}],
  recent <- [d \in Dispatchers |-> IF pc[d] \in {"load", "read"} THEN window[d] ELSE {}],
  removals <- [d \in Dispatchers |-> IF Walking(d) THEN removals[d] ELSE 0],
  moved <- [d \in Dispatchers |-> pc[d] = "read" /\ base[d] # buffer],
  wild <- [d \in Dispatchers |-> Walking(d) /\ wild[d]]

(* The unlocked walks over a vector that grows and shrinks implement the    *)
(* fan-out over a set: nobody twice, nobody who left before the last look   *)
(* at the list, and no more left out than have gone meanwhile.              *)
FanOutSpec == Walks!Spec
=============================================================================
