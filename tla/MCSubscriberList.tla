--------------------------- MODULE MCSubscriberList ---------------------------
(* A small instance of SubscriberList: objects are interchangeable.         *)
EXTENDS SubscriberList, TLC

Symmetry == Permutations(Objects) \cup Permutations(Dispatchers)
=============================================================================
