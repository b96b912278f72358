-------------------------------- MODULE FanOut --------------------------------
(***************************************************************************)
(* What the dispatchers' loop over a topic's subscribers promises, without *)
(* vectors, slots and indices: a walker calls subscribers one at a time,   *)
(* none of them twice, each one listed at some moment since its last look  *)
(* at the list, and leaves out no more than have gone meanwhile.  A list   *)
(* that grows may move away under a walker; its next call is then wild,    *)
(* and of that walk nothing more is promised.                              *)
(***************************************************************************)
EXTENDS Naturals, FiniteSets

CONSTANTS Walkers, Topics, Subscribers,
          NoTopic, NoSubscriber

VARIABLES
  list,      \* each topic's subscribers
  topic,     \* the topic each walker is at, NoTopic between two walks
  stage,     \* where it is: "idle", "count", "pick" or "call"
  called,    \* whom it has called
  pointer,   \* whom it is about to call
  recent,    \* whom it may call: those listed since it last counted
  removals,  \* how many have left the list since it began
  moved,     \* the list has moved away under it
  wild       \* it has read behind a list that moved away

walkVars == <<topic, stage, called, pointer, recent, removals, moved, wild>>
vars == <<list, topic, stage, called, pointer, recent, removals, moved, wild>>

Init ==
  /\ list \in [Topics -> SUBSET Subscribers]
  /\ topic = [w \in Walkers |-> NoTopic]
  /\ stage = [w \in Walkers |-> "idle"]
  /\ called = [w \in Walkers |-> {}]
  /\ pointer = [w \in Walkers |-> NoSubscriber]
  /\ recent = [w \in Walkers |-> {}]
  /\ removals = [w \in Walkers |-> 0]
  /\ moved = [w \in Walkers |-> FALSE]
  /\ wild = [w \in Walkers |-> FALSE]

-----------------------------------------------------------------------------

\* What a change of the lists means to the walkers.
Observe ==
  /\ recent' = [w \in Walkers |->
                  IF stage[w] = "pick" THEN recent[w] \cup list'[topic[w]] ELSE recent[w]]
  /\ removals' = [w \in Walkers |->
                    IF stage[w] = "idle" THEN 0
                    ELSE removals[w] + Cardinality(list[topic[w]] \ list'[topic[w]])]

Join(t, s) ==
  /\ s \notin list[t]
  /\ list' = [list EXCEPT ![t] = @ \cup {s}]
  /\ Observe
  /\ \E W \in SUBSET {w \in Walkers : stage[w] = "pick" /\ topic[w] = t} :
       moved' = [w \in Walkers |-> moved[w] \/ w \in W]
  /\ UNCHANGED <<topic, stage, called, pointer, wild>>

Leave(t, s) ==
  /\ s \in list[t]
  /\ list' = [list EXCEPT ![t] = @ \ {s}]
  /\ Observe
  /\ UNCHANGED <<topic, stage, called, pointer, moved, wild>>

-----------------------------------------------------------------------------

Start(w, t) ==
  /\ stage[w] = "idle"
  /\ stage' = [stage EXCEPT ![w] = "count"]
  /\ topic' = [topic EXCEPT ![w] = t]
  /\ UNCHANGED <<list, called, pointer, recent, removals, moved, wild>>

\* There is more to do.
Count(w) ==
  /\ stage[w] = "count"
  /\ ~(list[topic[w]] \subseteq called[w])
  /\ stage' = [stage EXCEPT ![w] = "pick"]
  /\ recent' = [recent EXCEPT ![w] = list[topic[w]]]
  /\ UNCHANGED <<list, topic, called, pointer, removals, moved, wild>>

Pick(w, s) ==
  /\ stage[w] = "pick"
  /\ ~moved[w]
  /\ s \in recent[w]
  /\ s \notin called[w]
  /\ stage' = [stage EXCEPT ![w] = "call"]
  /\ pointer' = [pointer EXCEPT ![w] = s]
  /\ recent' = [recent EXCEPT ![w] = {}]
  /\ UNCHANGED <<list, topic, called, removals, moved, wild>>

PickWild(w) ==
  /\ stage[w] = "pick"
  /\ moved[w]
  /\ stage' = [stage EXCEPT ![w] = "call"]
  /\ recent' = [recent EXCEPT ![w] = {}]
  /\ moved' = [moved EXCEPT ![w] = FALSE]
  /\ wild' = [wild EXCEPT ![w] = TRUE]
  /\ UNCHANGED <<list, topic, called, pointer, removals>>

Call(w) ==
  /\ stage[w] = "call"
  /\ stage' = [stage EXCEPT ![w] = "count"]
  /\ called' = [called EXCEPT ![w] = @ \cup ({pointer[w]} \ {NoSubscriber})]
  /\ pointer' = [pointer EXCEPT ![w] = NoSubscriber]
  /\ UNCHANGED <<list, topic, recent, removals, moved, wild>>

\* Those still listed have been called, but for as many as have left.
End(w) ==
  /\ stage[w] = "count"
  /\ wild[w] \/ Cardinality(list[topic[w]] \ called[w]) <= removals[w]
  /\ stage' = [stage EXCEPT ![w] = "idle"]
  /\ topic' = [topic EXCEPT ![w] = NoTopic]
  /\ called' = [called EXCEPT ![w] = {}]
  /\ removals' = [removals EXCEPT ![w] = 0]
  /\ wild' = [wild EXCEPT ![w] = FALSE]
  /\ UNCHANGED <<list, pointer, recent, moved>>

-----------------------------------------------------------------------------

Next ==
  \/ \E t \in Topics, s \in Subscribers : Join(t, s) \/ Leave(t, s)
  \/ \E w \in Walkers :
       \/ \E t \in Topics : Start(w, t)
       \/ Count(w) \/ PickWild(w) \/ Call(w) \/ End(w)
       \/ \E s \in Subscribers : Pick(w, s)

Spec == Init /\ [][Next]_vars
=============================================================================
