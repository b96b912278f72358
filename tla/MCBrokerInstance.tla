--------------------------- MODULE MCBrokerInstance ---------------------------
(* A small instance of BrokerInstance: handlers are interchangeable.        *)
EXTENDS BrokerInstance, TLC

Symmetry == Permutations(Handlers)
=============================================================================
