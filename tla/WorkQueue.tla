------------------------------ MODULE WorkQueue ------------------------------
(***************************************************************************)
(* What the broker's queue and dispatcher pool promise, without locks or   *)
(* condition variables: messages are issued in order, each is taken by one *)
(* worker, oldest first, and settled once.  A worker may retire as it      *)
(* settles a message, or when there is nothing to take.                    *)
(***************************************************************************)
EXTENDS Naturals, Sequences

CONSTANTS Workers, Topics, MaxMessages, NoMessage

VARIABLES
  pending,  \* issued and not taken, oldest first
  taken,    \* the message each worker is working on
  settled,  \* ids of the messages worked off
  retired,  \* workers that will take no more
  issued    \* number of messages issued

vars == <<pending, taken, settled, retired, issued>>

Init ==
  /\ pending = <<>>
  /\ taken = [w \in Workers |-> NoMessage]
  /\ settled = {}
  /\ retired = {}
  /\ issued = 0

Issue(t) ==
  /\ issued < MaxMessages
  /\ issued' = issued + 1
  /\ pending' = Append(pending, [id |-> issued + 1, topic |-> t])
  /\ UNCHANGED <<taken, settled, retired>>

Take(w) ==
  /\ w \notin retired
  /\ taken[w] = NoMessage
  /\ pending # <<>>
  /\ taken' = [taken EXCEPT ![w] = Head(pending)]
  /\ pending' = Tail(pending)
  /\ UNCHANGED <<settled, retired, issued>>

Settle(w) ==
  /\ taken[w] # NoMessage
  /\ settled' = settled \cup {taken[w].id}
  /\ taken' = [taken EXCEPT ![w] = NoMessage]
  /\ retired' \in {retired, retired \cup {w}}
  /\ UNCHANGED <<pending, issued>>

Retire(w) ==
  /\ taken[w] = NoMessage
  /\ pending = <<>>
  /\ retired' = retired \cup {w}
  /\ UNCHANGED <<pending, taken, settled, issued>>

Next ==
  \/ \E t \in Topics : Issue(t)
  \/ \E w \in Workers : Take(w) \/ Settle(w) \/ Retire(w)

Spec == Init /\ [][Next]_vars
=============================================================================
