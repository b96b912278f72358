--------------------------- MODULE MCDispatchQueue ---------------------------
(* Small instances of DispatchQueue.  Threads and topics are interchangeable *)
(* model values; Symmetry is used by the runs without temporal properties.  *)
EXTENDS DispatchQueue, TLC

Symmetry ==
  Permutations(Dispatchers) \cup Permutations(Publishers) \cup Permutations(Topics)
=============================================================================
