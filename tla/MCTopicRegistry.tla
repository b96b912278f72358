--------------------------- MODULE MCTopicRegistry ----------------------------
(* Small instances of TopicRegistry: all its sets are interchangeable.      *)
EXTENDS TopicRegistry, TLC

Symmetry ==
  Permutations(Handlers) \cup Permutations(Topics) \cup Permutations(Subscribers)
=============================================================================
