--------------------------- MODULE MCTreeMemory ---------------------------
(* TreeMemory for TLC, and InnerChain beside it: TreeMemory has a NodeID    *)
(* given back once nobody inside the tree knows it, InnerChain has it given *)
(* out again at once, while records of inner nodes still name it.  The two  *)
(* share nothing; a behaviour is of one of them while the other stays as it *)
(* began, so that one run has all behaviours of both.  Nothing tells one    *)
(* thread, or one NodeID of a child, from another.                          *)
EXTENDS TreeMemory, TLC

CONSTANTS InnerKeys, InnerIds, InnerUpper, InnerLower, InnerDepth, InnerMerges, InvalidId

ASSUME InnerAssumption ==
  /\ InnerKeys \in Nat /\ InnerDepth \in Nat /\ InnerMerges \in Nat
  /\ InnerLower \in Nat \ {0} /\ InnerUpper \in Nat /\ InnerUpper >= 2 * InnerLower
  /\ InnerIds # {} /\ InvalidId \notin InnerIds

VARIABLES nodes, children

Inner == INSTANCE InnerChain WITH
  NumKeys <- InnerKeys, Ids <- InnerIds, Upper <- InnerUpper, Lower <- InnerLower,
  MaxDepth <- InnerDepth, MaxMerges <- InnerMerges

MCInit == Init /\ Inner!Init
MCNext ==
  \/ Inner!Init /\ Next /\ UNCHANGED <<nodes, children>>
  \/ Init /\ Inner!Next /\ UNCHANGED vars
MCSpec == MCInit /\ [][MCNext]_<<vars, nodes, children>>

InnerTypeOK     == Inner!TypeOK
RoutesExact     == Inner!RoutesExact
SeparatorsExact == Inner!SeparatorsExact

Symmetry == Permutations(Threads) \cup Permutations(InnerIds)
=============================================================================
