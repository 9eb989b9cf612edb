--------------------------- MODULE MCSlotAllocator ---------------------------
(* SlotAllocator for TLC: symmetric threads, a slot size that does not divide a segment.    *)
EXTENDS SlotAllocator, TLC

OneSize == 0 :> 2
Symmetry == Permutations(Threads)
=============================================================================
