------------------------------ MODULE SlotPool ------------------------------
(***************************************************************************)
(* What the shared-memory allocator of hp-range-search promises             *)
(* (include/mm.h, "Return a chunk of allocated memory to user", "Take back  *)
(* a chunk of memory from user"): a slot is free or in use, never both, a   *)
(* freed slot is reused first-in first-out by its size class, and one free  *)
(* slot of each class is always kept back.                                  *)
(***************************************************************************)
EXTENDS Naturals, Sequences

CONSTANTS Classes, Addrs

VARIABLES free,   \* the free slots of a class, oldest first
          used    \* slots in the hands of a user, with their class

poolVars == <<free, used>>

Listed(c) == {free[c][i] : i \in 1 .. Len(free[c])}

Init == /\ free \in [Classes -> Seq(Addrs) \ {<<>>}]
        /\ \A c, d \in Classes : \A i \in 1 .. Len(free[c]), j \in 1 .. Len(free[d]) :
             free[c][i] = free[d][j] => c = d /\ i = j
        /\ used = {}

(* larm_new_item reuses the oldest free slot ... *)
Reuse(c) ==
  /\ Len(free[c]) > 1
  /\ used' = used \cup {<<Head(free[c]), c>>}
  /\ free' = [free EXCEPT ![c] = Tail(@)]

(* ... or carves one that was never a slot. *)
Carve(c) ==
  \E a \in Addrs :
    /\ \A d \in Classes : <<a, d>> \notin used /\ a \notin Listed(d)
    /\ used' = used \cup {<<a, c>>}
    /\ UNCHANGED free

(* larm_delete_item. *)
GiveBack(c) ==
  \E a \in Addrs :
    /\ <<a, c>> \in used
    /\ used' = used \ {<<a, c>>}
    /\ free' = [free EXCEPT ![c] = Append(@, a)]

Next == \E c \in Classes : Reuse(c) \/ Carve(c) \/ GiveBack(c)

Spec == Init /\ [][Next]_poolVars
=============================================================================
