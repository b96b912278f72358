------------------------------ MODULE MCFraming -------------------------------
(* A small instance of Framing.  Topics are spelt with t, and JSON texts    *)
(* are numbers spelt with 4.                                                *)
EXTENDS Framing

Text(byte, n) == [k \in 1..n |-> byte]
Publication(t, j) == [type |-> PUBLISH, topic |-> Text(116, t), jsonbody |-> Text(52, j)]
Subscription(t) == [type |-> SUBSCRIBE, topic |-> Text(116, t), jsonbody |-> <<>>]

MCOutbox ==
  {Subscription(9), Publication(4, 2), Publication(4, 18), Publication(0, 18),
   [Publication(5, 2) EXCEPT !.type = DATA]}

\* What the theorems about messages received whole suppose.
ASSUME OutboxIsReadable == \A m \in Outbox : Readable(m)

MCFills == {0, 204, 18}
MCJsonTexts == {Text(52, n) : n \in 1..18}
=============================================================================
