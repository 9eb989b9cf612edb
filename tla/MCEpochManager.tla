--------------------------- MODULE MCEpochManager ---------------------------
(* EpochManager for TLC with symmetric threads, nodes and addresses.        *)
EXTENDS EpochManager, TLC

Symmetry == Permutations(Threads) \cup Permutations(Nodes) \cup Permutations(Epochs)
=============================================================================
