---------------------------- MODULE MCLeafChain ----------------------------
(* LeafChain for TLC.  Values are only compared for equality.               *)
EXTENDS LeafChain, TLC

ValueSymmetry == Permutations(Values)
=============================================================================
