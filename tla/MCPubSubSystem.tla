---------------------------- MODULE MCPubSubSystem ----------------------------
(* Small instances of PubSubSystem: all its sets are interchangeable.       *)
EXTENDS PubSubSystem, TLC

Symmetry ==
  Permutations(Connections) \cup Permutations(Handles) \cup Permutations(Topics)
    \cup Permutations(Subscribers) \cup Permutations(Dispatchers)
=============================================================================
