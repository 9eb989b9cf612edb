---------------------------- MODULE EpochManager ----------------------------
(***************************************************************************)
(* Epoch-based reclamation of the Bw-tree (class EpochManager in           *)
(* include/bwtree/bwtree.h).  An operation of the tree joins the current    *)
(* epoch, reads nodes through the mapping table, may unlink some of them,   *)
(* hands those to AddGarbageNode, and leaves.  One cleaner thread frees the *)
(* garbage of the oldest epoch once no thread is in it, and appends a new   *)
(* epoch each round.                                                       *)
(*                                                                         *)
(* An EpochNode is named by its address.  A delta chain handed over as      *)
(* garbage is one node here.                                               *)
(***************************************************************************)
EXTENDS Naturals, Integers, Sequences, FiniteSets

CONSTANTS
  Threads,      \* worker threads inside the tree
  Nodes,        \* addresses of delta chains
  Epochs,       \* addresses of EpochNodes; bounds the length of the list
  MaxThreads,   \* MAX_THREAD_COUNT
  Reuse,        \* may the memory of a deleted EpochNode be reused at once?
  None          \* no epoch and no node: a local variable out of scope

ASSUME ThreadAssumption == /\ IsFiniteSet(Threads) /\ MaxThreads \in Nat
                           /\ Cardinality(Threads) < MaxThreads
ASSUME ReuseAssumption  == Reuse \in BOOLEAN
ASSUME NoneAssumption   == None \notin Epochs \cup Nodes

VARIABLES
  epochs,   \* the list from head_epoch_p to current_epoch_p
  count,    \* active_thread_count
  garbage,  \* garbage_list_p
  gpc,      \* where the cleaner thread is
  pc,       \* where a worker thread is
  joined,   \* its local epoch_p: the epoch it joins, is in, or leaves
  target,   \* its local epoch_p in AddGarbageNode
  victim,   \* the node it is retiring
  holds,    \* nodes it has reached since it joined
  linked,   \* nodes reachable through the mapping table
  freed     \* nodes given back to the memory allocator, or never used

listVars   == <<epochs, count, garbage>>
threadVars == <<pc, joined, target, victim, holds>>
vars == <<listVars, gpc, threadVars, linked, freed>>

Current   == epochs[Len(epochs)]
HeadEpoch == epochs[1]
Live(e)   == \E i \in 1 .. Len(epochs) : epochs[i] = e

Init ==
  /\ \E e \in Epochs : epochs = <<e>>
  /\ joined = [t \in Threads |-> None]
  /\ target = [t \in Threads |-> None]
  /\ count = [e \in Epochs |-> 0]
  /\ garbage = [e \in Epochs |-> {}]
  /\ gpc = "sleep"
  /\ pc = [t \in Threads |-> "out"]
  /\ victim = [t \in Threads |-> None]
  /\ holds = [t \in Threads |-> {}]
  /\ linked = {}
  /\ freed = Nodes
-----------------------------------------------------------------------------
(* Workers *)

Move(t, from, to) == pc[t] = from /\ pc' = [pc EXCEPT ![t] = to]

(* JoinEpoch reads current_epoch_p ... *)
ReadCurrent(t) ==
  /\ Move(t, "out", "add")
  /\ joined' = [joined EXCEPT ![t] = Current]
  /\ UNCHANGED <<listVars, gpc, target, victim, holds, linked, freed>>

(* The counter a thread finds at an address: that of the EpochNode there,  *)
(* or anything once the node is deleted and its memory holds something else. *)
CountSeen(e) == {count[e]} \cup (IF Reuse /\ ~Live(e) THEN {-1, 0} ELSE {})

(* ... and adds itself to the counter it finds there.  A negative count     *)
(* says that the cleaner has claimed the epoch.                            *)
FetchAdd(t) ==
  /\ pc[t] = "add"
  /\ \E v \in CountSeen(joined[t]) :
       /\ pc' = [pc EXCEPT ![t] = IF v < 0 THEN "undo" ELSE "in"]
       /\ count' = [count EXCEPT ![joined[t]] = v + 1]
  /\ UNCHANGED <<epochs, garbage, gpc, joined, target, victim, holds, linked, freed>>

UndoAdd(t) ==
  /\ Move(t, "undo", "out")
  /\ count' = [count EXCEPT ![joined[t]] = @ - 1]
  /\ joined' = [joined EXCEPT ![t] = None]
  /\ UNCHANGED <<epochs, garbage, gpc, target, victim, holds, linked, freed>>

(* An operation reaches a node through the mapping table. *)
Reach(t, n) ==
  /\ pc[t] = "in" /\ n \in linked \ holds[t]
  /\ holds' = [holds EXCEPT ![t] = @ \cup {n}]
  /\ UNCHANGED <<listVars, gpc, pc, joined, target, victim, linked, freed>>

(* InstallNewNode: an operation stores a new node, the half a split makes. *)
InstallNewNode(t, n) ==
  /\ pc[t] = "in" /\ n \in freed
  /\ linked' = linked \cup {n}
  /\ freed' = freed \ {n}
  /\ UNCHANGED <<listVars, gpc, threadVars>>

(* ConsolidateNode replaces the chain n a thread has read by a new node m.  *)
(* The old chain is garbage when the CAS succeeds, the new node when not.  *)
ConsolidateNode(t, n, m) ==
  /\ Move(t, "in", "retire") /\ n \in holds[t] /\ m \in freed
  /\ freed' = freed \ {m}
  /\ \/ /\ n \in linked
        /\ linked' = (linked \ {n}) \cup {m}
        /\ victim' = [victim EXCEPT ![t] = n]
        /\ holds' = [holds EXCEPT ![t] = @ \cup {m}]
     \/ /\ n \notin linked
        /\ victim' = [victim EXCEPT ![t] = m]
        /\ UNCHANGED <<linked, holds>>
  /\ UNCHANGED <<listVars, gpc, joined, target>>

(* AddGarbageNode: read current_epoch_p, then CAS onto its garbage list    *)
(* until the CAS succeeds.                                                 *)
GarbageEpoch_Own(t) == joined[t]
GarbageEpoch(t) == Current

ReadTarget(t) ==
  /\ Move(t, "retire", "push")
  /\ target' = [target EXCEPT ![t] = GarbageEpoch(t)]
  /\ UNCHANGED <<listVars, gpc, joined, victim, holds, linked, freed>>

PushGarbage(t) ==
  /\ Move(t, "push", "in")
  /\ garbage' = [garbage EXCEPT ![target[t]] = @ \cup {victim[t]}]
  /\ victim' = [victim EXCEPT ![t] = None] /\ target' = [target EXCEPT ![t] = None]
  /\ UNCHANGED <<epochs, count, gpc, joined, holds, linked, freed>>

LeaveEpoch(t) ==
  /\ Move(t, "in", "out")
  /\ count' = [count EXCEPT ![joined[t]] = @ - 1]
  /\ holds' = [holds EXCEPT ![t] = {}]
  /\ joined' = [joined EXCEPT ![t] = None]
  /\ UNCHANGED <<epochs, garbage, gpc, target, victim, linked, freed>>
-----------------------------------------------------------------------------
(* Cleaner thread: ClearEpoch, then CreateNewEpoch, then sleep. *)

(* head_epoch_p == current_epoch_p ends the loop; else load the counter.   *)
TestHead_NoCurrent ==
  /\ gpc \in {"sleep", "test"}
  /\ gpc' = IF count[HeadEpoch] # 0 THEN "create" ELSE "claim"
  /\ UNCHANGED <<listVars, threadVars, linked, freed>>
TestHead ==
  /\ gpc \in {"sleep", "test"}
  /\ gpc' = IF Len(epochs) = 1 \/ count[HeadEpoch] # 0 THEN "create" ELSE "claim"
  /\ UNCHANGED <<listVars, threadVars, linked, freed>>

(* fetch_sub(MAX_THREAD_COUNT): positive when a thread sneaked in. *)
ClaimHead ==
  /\ gpc = "claim"
  /\ count' = [count EXCEPT ![HeadEpoch] = @ - MaxThreads]
  /\ gpc' = IF count[HeadEpoch] > 0 THEN "unclaim" ELSE "free"
  /\ UNCHANGED <<epochs, garbage, threadVars, linked, freed>>

UnclaimHead_NoAdd ==
  /\ gpc = "unclaim"
  /\ gpc' = "create"
  /\ UNCHANGED <<listVars, threadVars, linked, freed>>
UnclaimHead ==
  /\ gpc = "unclaim"
  /\ count' = [count EXCEPT ![HeadEpoch] = @ + MaxThreads]
  /\ gpc' = "create"
  /\ UNCHANGED <<epochs, garbage, threadVars, linked, freed>>

(* FreeEpochDeltaChain for the garbage list, then delete the EpochNode. *)
FreeHead_Skips ==
  /\ gpc = "free"
  /\ garbage' = [garbage EXCEPT ![HeadEpoch] = {}]
  /\ epochs' = Tail(epochs)
  /\ gpc' = "test"
  /\ UNCHANGED <<count, threadVars, linked, freed>>
FreeHead ==
  /\ gpc = "free"
  /\ freed' = freed \cup garbage[HeadEpoch]
  /\ garbage' = [garbage EXCEPT ![HeadEpoch] = {}]
  /\ epochs' = Tail(epochs)
  /\ gpc' = "test"
  /\ UNCHANGED <<count, threadVars, linked>>

(* The memory of an EpochNode that a joining thread still points to is     *)
(* given out again only if Reuse.                                          *)
Unused(e) == /\ ~Live(e)
             /\ Reuse \/ \A t \in Threads : pc[t] \in {"add", "undo"} => joined[t] # e

CreateNewEpoch ==
  /\ gpc = "create"
  /\ IF \E e \in Epochs : Unused(e)
       THEN \E e \in Epochs : /\ Unused(e)
                              /\ epochs' = Append(epochs, e)
                              /\ count' = [count EXCEPT ![e] = 0]
       ELSE UNCHANGED <<epochs, count>>  \* the bound on the list
  /\ gpc' = "sleep"
  /\ UNCHANGED <<garbage, threadVars, linked, freed>>
-----------------------------------------------------------------------------
JoinStep(t) == ReadCurrent(t) \/ FetchAdd(t) \/ UndoAdd(t)

Next ==
  \/ \E t \in Threads : \/ JoinStep(t) \/ ReadTarget(t) \/ PushGarbage(t) \/ LeaveEpoch(t)
                        \/ \E n \in Nodes : \/ Reach(t, n) \/ InstallNewNode(t, n)
                                             \/ \E m \in Nodes : ConsolidateNode(t, n, m)
  \/ TestHead \/ ClaimHead \/ UnclaimHead \/ FreeHead \/ CreateNewEpoch

Spec == Init /\ [][Next]_vars

Cleaner == TestHead \/ ClaimHead \/ UnclaimHead \/ FreeHead \/ CreateNewEpoch

(* The cleaner wakes up every GC_INTERVAL; every operation of the tree     *)
(* comes to its end, however often it retries.                             *)
FairSpec ==
  /\ Spec /\ WF_vars(Cleaner)
  /\ \A t \in Threads : /\ WF_vars(FetchAdd(t) \/ UndoAdd(t))
                        /\ WF_vars(ReadTarget(t) \/ PushGarbage(t))
                        /\ SF_vars(LeaveEpoch(t))
-----------------------------------------------------------------------------
(* Properties *)

ListTypeOK ==
  /\ epochs \in Seq(Epochs) \ {<<>>}
  /\ \A i, j \in 1 .. Len(epochs) : epochs[i] = epochs[j] => i = j
  /\ gpc \in {"sleep", "test", "claim", "unclaim", "free", "create"}
  /\ gpc \in {"claim", "unclaim", "free"} => Len(epochs) > 1

NodeTypeOK ==
  /\ count \in [Epochs -> Int]
  /\ garbage \in [Epochs -> SUBSET Nodes]
  /\ holds \in [Threads -> SUBSET Nodes]
  /\ linked \subseteq Nodes /\ freed \subseteq Nodes

ThreadTypeOK ==
  /\ DOMAIN joined = Threads /\ DOMAIN target = Threads /\ DOMAIN victim = Threads
  /\ pc \in [Threads -> {"out", "add", "undo", "in", "retire", "push"}]
  /\ \A t \in Threads :
       /\ joined[t] \in IF pc[t] = "out" THEN {None} ELSE Epochs
       /\ target[t] \in IF pc[t] = "push" THEN Epochs ELSE {None}
       /\ victim[t] \in IF pc[t] \in {"retire", "push"} THEN Nodes ELSE {None}

TypeOK == ListTypeOK /\ NodeTypeOK /\ ThreadTypeOK

InTree(t) == pc[t] \in {"in", "retire", "push"}

(* No thread inside the tree holds a node that was freed: a node handed to  *)
(* AddGarbageNode outlives every operation that may have reached it.       *)
NoUseAfterFree == \A t \in Threads : holds[t] \cap freed = {}

(* JoinEpoch returns an epoch that is not deleted before LeaveEpoch, so    *)
(* the cleaner stops at it.                                                *)
JoinedEpochLive == \A t \in Threads : InTree(t) => Live(joined[t])

Retired == (UNION {garbage[e] : e \in Epochs})
           \cup {victim[t] : t \in {u \in Threads : pc[u] \in {"retire", "push"}}}

(* A node is linked, retired or free, and one of them only: nothing is     *)
(* freed twice and nothing leaks.                                          *)
OneFate == /\ linked \cup Retired \cup freed = Nodes
           /\ linked \cap Retired = {} /\ linked \cap freed = {} /\ Retired \cap freed = {}

(* Every retired node is freed in the end. *)
GarbageFreed == \A n \in Nodes : n \in Retired ~> n \in freed
=============================================================================
