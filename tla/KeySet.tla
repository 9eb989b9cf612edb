------------------------------- MODULE KeySet -------------------------------
(***************************************************************************)
(* What the operations of the Bw-tree promise (include/bwtree/bwtree.h:     *)
(* Insert, Delete and GetValue): one set of keys, changed by one step of    *)
(* each successful Insert or Delete; a call that changes nothing answers as *)
(* the set was at some moment between its call and its return.              *)
(***************************************************************************)
CONSTANTS Threads, Keys

VARIABLES
  set,    \* the keys in the tree
  call,   \* the call a thread is in: its operation and key
  seen    \* was the key in, or out of the set, at some moment since the call?

vars == <<set, call, seen>>

Idle(found) == [op |-> "none", key |-> 0, found |-> found]

(* Every moment of a call counts, its last one included.                    *)
Observe(s, c) ==
  seen' = [t \in Threads |->
             IF c[t].op = "none" THEN {}
             ELSE (IF call[t] = c[t] THEN seen[t] ELSE {}) \cup {c[t].key \in s}]

Init == set \in SUBSET Keys /\ call = [t \in Threads |-> Idle(FALSE)] /\ seen = [t \in Threads |-> {}]

Call(t) ==
  /\ call[t].op = "none"
  /\ \E op \in {"insert", "delete", "get"}, k \in Keys :
       call' = [call EXCEPT ![t] = [op |-> op, key |-> k, found |-> FALSE]]
  /\ UNCHANGED set

Return(t, found) == call' = [call EXCEPT ![t] = Idle(found)]

Change(t) ==
  /\ Return(t, FALSE)
  /\ \/ call[t].op = "insert" /\ call[t].key \notin set /\ set' = set \cup {call[t].key}
     \/ call[t].op = "delete" /\ call[t].key \in set /\ set' = set \ {call[t].key}

Refuse(t) ==
  /\ \/ call[t].op = "insert" /\ TRUE \in seen[t]
     \/ call[t].op = "delete" /\ FALSE \in seen[t]
  /\ Return(t, FALSE)
  /\ UNCHANGED set

GetValue(t) ==
  /\ call[t].op = "get"
  /\ \E found \in seen[t] : Return(t, found)
  /\ UNCHANGED set

Next == (\E t \in Threads : Call(t) \/ Change(t) \/ Refuse(t) \/ GetValue(t)) /\ Observe(set', call')

Spec == Init /\ [][Next]_vars
=============================================================================
