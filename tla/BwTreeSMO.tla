----------------------------- MODULE BwTreeSMO -----------------------------
(***************************************************************************)
(* Structure modifications of the Bw-tree under interleaving                *)
(* (include/bwtree/bwtree.h).  Every node is reached through the mapping    *)
(* table, and every change is one compare-and-swap of a table entry by a    *)
(* thread that read the entry before.  Splits, removals and merges take     *)
(* several such steps, on the node and then on its parent; any thread that  *)
(* meets a half-done one finishes it before its own work (FinishPartialSMO).*)
(*                                                                         *)
(* A node is its logical content and the type of its topmost record; what   *)
(* lies below is the business of LeafChain.  A snapshot knows whether its   *)
(* pointer still is the one in the table: "match", "stale", or "under" an   *)
(* abort record.  That is all a compare-and-swap asks of it.                *)
(***************************************************************************)
EXTENDS Integers, Sequences, FiniteSets, FiniteSetsExt

CONSTANTS
  Threads,       \* threads inside the tree
  NumKeys,       \* keys are 1 .. NumKeys
  NumIds,        \* bound: NodeIDs (MAPPING_TABLE_SIZE)
  Trees,         \* the trees to begin with: their leaves' <<low key, keys>> from
                 \* the left, the first leaf of each of their parents, and the
                 \* type of the record on top of those parents
  LeafUpper, LeafLower, InnerUpper, InnerLower,   \* node size thresholds
  MaxCalls,      \* bound: calls of Insert and Delete
  CallKeys       \* bound: the keys they are about

ASSUME SizeAssumption ==
  /\ NumKeys \in Nat /\ NumIds \in Nat /\ MaxCalls \in Nat
  /\ LeafLower \in Nat /\ LeafUpper \in Nat /\ LeafUpper >= 2 * LeafLower + 2
  /\ InnerLower \in Nat /\ InnerUpper \in Nat /\ InnerUpper >= 2 * InnerLower + 3

ASSUME KeysAssumption == CallKeys \subseteq 1 .. NumKeys

VARIABLES
  table,     \* mapping_table
  root,      \* root_id
  unused,    \* NodeIDs GetNextNodeID may return
  retired,   \* NodeIDs handed to the epoch manager, with the threads inside then
  pc,        \* where a thread is in its traversal
  cur, par,  \* its current_snapshot and parent_snapshot
  removed,   \* the remove records it is redirecting, outermost first
  go,        \* the NodeID it is about to load
  call,      \* the call it is in
  calls,     \* calls so far
  seen       \* KeySet's history of that call

treeVars   == <<table, root, unused, retired>>
threadVars == <<pc, cur, par, removed, go>>
vars == <<treeVars, threadVars, call, calls, seen>>

Keys == 1 .. NumKeys
Inf  == NumKeys + 1
Ids  == 1 .. NumIds
Nil  == 0                 \* INVALID_NODE_ID
FirstLeaf == 2            \* FIRST_LEAF_NODE_ID

(* Between calls; found is what the last GetValue said.                      *)
Idle(found) == [op |-> "none", key |-> 0, found |-> found]

(* Nodes.  smo is the separator a split adds to the parent, or a merge      *)
(* deletes from it; under is what a remove or an abort record covers.       *)
Node(leaf, type, low, high, next, items) ==
  [leaf |-> leaf, type |-> type, low |-> low, high |-> high, next |-> next,
   items |-> items, smo |-> <<>>, under |-> <<>>]
None == Node(TRUE, "none", 0, 0, Nil, {})

Live(n) == IF n.type \in {"remove", "abort"} THEN n.under[1] ELSE n
Consolidated(n) == [n EXCEPT !.type = "base", !.smo = <<>>]
Cover(n, type)  == [n EXCEPT !.type = type, !.smo = <<>>, !.under = <<n>>]
Split_KeepAll(n, key, id, kept) ==
  [n EXCEPT !.type = "split", !.high = key, !.next = id, !.smo = <<key, id>>]
Split(n, key, id, kept) ==
  [n EXCEPT !.type = "split", !.high = key, !.next = id, !.items = kept, !.smo = <<key, id>>]
Sibling_NoHigh(n, key, moved) == Node(n.leaf, "base", key, -1, n.next, moved)
Sibling(n, key, moved) == Node(n.leaf, "base", key, n.high, n.next, moved)
Merge(n, id, right) ==
  [n EXCEPT !.type = "merge", !.high = right.high, !.next = right.next,
            !.items = n.items \cup right.items, !.smo = <<n.high, id>>]
Data(n, items) == [n EXCEPT !.type = "delta", !.items = items, !.smo = <<>>]

(* The child an inner node sends a key to, the separator it has for a key,  *)
(* and the separator before one (FindLeftSibling).                          *)
ChildFor(n, k) ==
  (CHOOSE s \in n.items : s[1] <= k /\ \A x \in n.items : x[1] <= k => x[1] <= s[1])[2]
LeftOf(n, k) ==
  LET upto == {s \in n.items : s[1] <= k}
      rest == {s \in upto : \E x \in upto : s[1] < x[1]}
  IN IF rest = {} THEN Nil ELSE (CHOOSE s \in rest : \A x \in rest : x[1] <= s[1])[2]
Separator(n, k) == {s \in n.items : s[1] = k}
LowChild(n) == (CHOOSE s \in n.items : \A x \in n.items : s[1] <= x[1])[2]

(* The upper half of a node, by size: the part that moves to its sibling.   *)
SortKey(n, x) == IF n.leaf THEN x ELSE x[1]
Moved(n) ==
  {x \in n.items : Cardinality({y \in n.items : SortKey(n, y) < SortKey(n, x)})
                     >= Cardinality(n.items) \div 2}
SplitKey(n) == Min({SortKey(n, x) : x \in Moved(n)})

NoSnapshot == [id |-> Nil, node |-> None, is |-> "stale"]
Snapshot(id) == [id |-> id, node |-> IF table[id].type = "abort" THEN table[id].under[1]
                                     ELSE table[id],
                 is |-> IF table[id].type = "abort" THEN "under" ELSE "match"]

(* A compare-and-swap through a snapshot would succeed.                     *)
Matches_Under(s) == s.is # "stale"
Matches(s) == s.is = "match"

(* Where a thread goes with a snapshot it has just taken.                   *)
Stage(n) == IF n.type \in {"split", "merge", "remove"} THEN n.type ELSE "fit"

(* A tree to begin with: leaf i has NodeID i + 1; without a level between   *)
(* the root and the leaves the root is node 1, as InitNodeLayout makes it.  *)
LowOf(tree, i) == IF i > Len(tree.pages) THEN Inf ELSE tree.pages[i][1]
Leaf(tree, i)  ==
  Node(TRUE, "base", LowOf(tree, i), LowOf(tree, i + 1),
       IF i = Len(tree.pages) THEN Nil ELSE i + 2, tree.pages[i][2])
InnerId(tree, j)  == IF j = 1 THEN 1 ELSE Len(tree.pages) + j
FirstOf(tree, j)  == IF j > Len(tree.parents) THEN Len(tree.pages) + 1 ELSE tree.parents[j]
Inner(tree, j) ==
  Node(FALSE, "base", LowOf(tree, FirstOf(tree, j)), LowOf(tree, FirstOf(tree, j + 1)),
       IF j = Len(tree.parents) THEN Nil ELSE InnerId(tree, j + 1),
       {<<LowOf(tree, i), i + 1>> : i \in FirstOf(tree, j) .. FirstOf(tree, j + 1) - 1})
Top(tree) == IF Len(tree.parents) = 1 THEN 1 ELSE Len(tree.pages) + Len(tree.parents) + 1

(* What loading keys in order and deleting some leaves behind: leaves that   *)
(* share out the key space from 0 on, and parents that share out the leaves.*)
WellFormed(tree) ==
  /\ tree.pages \in Seq((0 .. NumKeys) \X SUBSET Keys) /\ tree.pages # <<>>
  /\ LowOf(tree, 1) = 0
  /\ \A i \in DOMAIN tree.pages :
       /\ LowOf(tree, i) < LowOf(tree, i + 1)
       /\ \A k \in tree.pages[i][2] : LowOf(tree, i) <= k /\ k < LowOf(tree, i + 1)
  /\ tree.parents \in Seq(DOMAIN tree.pages) /\ tree.parents # <<>>
  /\ FirstOf(tree, 1) = 1
  /\ \A j \in DOMAIN tree.parents : FirstOf(tree, j) < FirstOf(tree, j + 1)
  /\ tree.inner \in {"base", "delta"}
  /\ Len(tree.pages) + Len(tree.parents) <= NumIds /\ Top(tree) <= NumIds

ASSUME TreesAssumption == \A tree \in Trees : WellFormed(tree)

InitTable(tree, id) ==
  LET parents == DOMAIN tree.parents
  IN IF id \in 2 .. Len(tree.pages) + 1 THEN Leaf(tree, id - 1)
     ELSE IF \E j \in parents : id = InnerId(tree, j)
     THEN [Inner(tree, CHOOSE j \in parents : id = InnerId(tree, j)) EXCEPT !.type = tree.inner]
     ELSE IF id = Top(tree)
     THEN Node(FALSE, "base", 0, Inf, Nil,
               {<<LowOf(tree, FirstOf(tree, j)), InnerId(tree, j)>> : j \in parents})
     ELSE None

Init ==
  /\ \E tree \in Trees :
       /\ root = Top(tree)
       /\ table = [id \in Ids |-> InitTable(tree, id)]
       /\ unused = {id \in Ids : InitTable(tree, id) = None}
  /\ retired = {}
  /\ pc = [t \in Threads |-> "out"]
  /\ cur = [t \in Threads |-> NoSnapshot]
  /\ par = [t \in Threads |-> NoSnapshot]
  /\ removed = [t \in Threads |-> <<>>]
  /\ go = [t \in Threads |-> Nil]
  /\ call = [t \in Threads |-> Idle(FALSE)]
  /\ calls = 0
  /\ seen = [t \in Threads |-> {}]
-----------------------------------------------------------------------------
(* Steps *)

(* A write to a table entry makes every snapshot of it stale; the thread    *)
(* that wrote keeps its own one up to date where the code does.             *)
Outdate(snaps, id) ==
  [t \in Threads |-> IF snaps[t].id = id THEN [snaps[t] EXCEPT !.is = "stale"] ELSE snaps[t]]
Written(id, n) == [id |-> id, node |-> n, is |-> "match"]

Write(id, n) == table' = [table EXCEPT ![id] = n]
SetCur(t, id, n) ==   \* a successful CAS through the current snapshot
  /\ Write(id, n)
  /\ cur' = [Outdate(cur, id) EXCEPT ![t] = Written(id, n)]
  /\ par' = Outdate(par, id)
SetPar(t, id, n) ==   \* ... through the parent snapshot
  /\ Write(id, n)
  /\ par' = [Outdate(par, id) EXCEPT ![t] = Written(id, n)]
  /\ cur' = Outdate(cur, id)

To(t, stage) == pc' = [pc EXCEPT ![t] = stage]

(* abort_flag: every caller returns, and Traverse starts from the root.     *)
Retry(t) ==
  /\ To(t, "root")
  /\ cur' = [cur EXCEPT ![t] = NoSnapshot]
  /\ par' = [par EXCEPT ![t] = NoSnapshot]
  /\ removed' = [removed EXCEPT ![t] = <<>>]
  /\ go' = [go EXCEPT ![t] = Nil]

(* LeaveEpoch: what was retired no longer waits for this thread.            *)
Inside == {t \in Threads : pc[t] # "out"}
Retire_NoWait(id) == retired' = retired \cup {[id |-> id, until |-> {}]}
Retire(id) == retired' = retired \cup {[id |-> id, until |-> Inside]}
Leave(t) ==
  /\ To(t, "out")
  /\ call' = [call EXCEPT ![t] = Idle(@.op = "get" /\ @.key \in cur[t].node.items)]
  /\ retired' = {[r EXCEPT !.until = @ \ {t}] : r \in retired}
  /\ removed' = [removed EXCEPT ![t] = <<>>]
  /\ go' = [go EXCEPT ![t] = Nil]

NewId == Min(unused)

(* Insert, Delete and GetValue: JoinEpoch and a new Context.                *)
Call(t) ==
  /\ pc[t] = "out"
  /\ calls < MaxCalls
  /\ calls' = calls + 1
  /\ \E op \in {"insert", "delete", "get"}, k \in CallKeys :
       call' = [call EXCEPT ![t] = [op |-> op, key |-> k, found |-> FALSE]]
  /\ To(t, "root")
  /\ par' = [par EXCEPT ![t] = NoSnapshot]
  /\ UNCHANGED <<treeVars, cur, removed, go>>

ReadRoot(t) ==
  /\ pc[t] = "root"
  /\ go' = [go EXCEPT ![t] = root]
  /\ To(t, "load")
  /\ UNCHANGED <<treeVars, cur, par, removed, call, calls>>

(* LoadNodeID: the current snapshot becomes the parent's.                   *)
TakeNodeSnapshot(t, id) ==
  /\ par' = [par EXCEPT ![t] = cur[t]]
  /\ cur' = [cur EXCEPT ![t] = Snapshot(id)]
  /\ To(t, Stage(Snapshot(id).node))
  /\ UNCHANGED <<removed, go>>

(* LoadNodeIDReadOptimized: GetValue keeps neither its parent nor the       *)
(* NodeID, finishes nothing on its way down, and starts over on a remove    *)
(* record.                                                                  *)
Reads(t) == call[t].op = "get"

LoadNodeIDReadOptimized(t, id) ==
  IF table[id].type = "remove"
  THEN Retry(t)
  ELSE /\ cur' = [cur EXCEPT ![t] = [Snapshot(id) EXCEPT !.id = Nil]]
       /\ To(t, "ready")
       /\ UNCHANGED <<par, removed, go>>

LoadRoot(t) ==
  /\ pc[t] = "load"
  /\ IF Reads(t) THEN LoadNodeIDReadOptimized(t, go[t]) ELSE TakeNodeSnapshot(t, go[t])
  /\ UNCHANGED <<treeVars, call, calls>>

(* JumpToNodeID: the same parent, another current node.                     *)
UpdateNodeSnapshot(t, id) ==
  /\ cur' = [cur EXCEPT ![t] = Snapshot(id)]
  /\ To(t, Stage(Snapshot(id).node))

JumpToNodeID(t) ==
  /\ pc[t] = "jump"
  /\ UpdateNodeSnapshot(t, go[t])
  /\ UNCHANGED <<treeVars, par, removed, go, call, calls>>
-----------------------------------------------------------------------------
(* FinishPartialSMO *)

HasParent(t) == par[t].id # Nil

(* On a remove record, go to the left sibling the parent names, provided    *)
(* the parent is still what the snapshot says (JumpToLeftSibling).          *)
(* FindLeftSibling consolidates a parent with a merge record before it looks *)
(* there; what that does to the table is ConsolidateNode of a thread that    *)
(* stands at the parent, so it is no step of its own.                        *)
JumpToLeftSibling(t) ==
  LET n == cur[t].node
  IN /\ pc[t] = "remove" /\ HasParent(t)
     /\ IF LowChild(par[t].node) = cur[t].id \/ ~Matches(par[t])
        THEN Retry(t)
        ELSE /\ removed' = [removed EXCEPT ![t] =
                              Append(@, [id |-> cur[t].id, right |-> n.under[1]])]
             /\ go' = [go EXCEPT ![t] = LeftOf(par[t].node, n.low)]
             /\ To(t, "jump")
             /\ UNCHANGED <<cur, par>>
     /\ UNCHANGED <<treeVars, call, calls>>

(* Mutant: the parent is overwritten whatever has happened to it.           *)
FinishMerge_Store(t) ==
  LET smo   == cur[t].node.smo
      found == Separator(par[t].node, smo[1])
  IN /\ pc[t] = "merge" /\ HasParent(t) /\ found # {}
     /\ SetPar(t, par[t].id, Data(par[t].node, par[t].node.items \ found))
     /\ Retire(smo[2])
     /\ To(t, "consolidate")
     /\ UNCHANGED <<root, unused, removed, go, call, calls>>

(* On a merge record, delete the separator of the removed node from the     *)
(* parent, and only then retire its NodeID.                                 *)
FinishMerge(t) ==
  LET smo   == cur[t].node.smo
      found == Separator(par[t].node, smo[1])
  IN /\ pc[t] = "merge" /\ HasParent(t)
     /\ \/ /\ ~Matches(par[t])
           /\ Retry(t)
           /\ UNCHANGED <<table, retired>>
        \/ /\ Matches(par[t]) /\ found = {}
           /\ To(t, "fit")
           /\ UNCHANGED <<table, retired, cur, par, removed, go>>
        \/ /\ Matches(par[t]) /\ found # {}
           /\ SetPar(t, par[t].id, Data(par[t].node, par[t].node.items \ found))
           /\ Retire(smo[2])
           /\ To(t, "consolidate")
           /\ UNCHANGED <<removed, go>>
     /\ UNCHANGED <<root, unused, call, calls>>

(* On a split record of the root, put a new root above the two halves; the  *)
(* thread starts over whether it was the first to do so or not.             *)
SplitRoot(t) ==
  LET n   == cur[t].node
      top == Node(FALSE, "base", 0, Inf, Nil, {<<0, cur[t].id>>, n.smo})
  IN /\ pc[t] = "split" /\ ~HasParent(t) /\ ~Reads(t)
     /\ unused # {}
     /\ unused' = unused \ {NewId}
     /\ table' = [table EXCEPT ![NewId] = top]
     /\ IF root = cur[t].id
        THEN root' = NewId /\ UNCHANGED retired
        ELSE Retire(NewId) /\ UNCHANGED root
     /\ Retry(t)
     /\ UNCHANGED <<call, calls>>

(* Mutant: the parent takes any separator, those beyond its range too.      *)
FinishSplit_Anywhere(t) ==
  LET smo   == cur[t].node.smo
      found == Separator(par[t].node, smo[1])
  IN /\ pc[t] = "split" /\ HasParent(t)
     /\ \/ found = {smo} /\ To(t, "fit") /\ UNCHANGED <<table, cur, par, removed, go>>
        \/ found # {smo} /\ (found # {} \/ ~Matches(par[t])) /\ Retry(t) /\ UNCHANGED table
        \/ /\ found = {} /\ Matches(par[t])
           /\ SetPar(t, par[t].id, Data(par[t].node, par[t].node.items \cup {smo}))
           /\ To(t, "consolidate")
           /\ UNCHANGED <<removed, go>>
     /\ UNCHANGED <<root, unused, retired, call, calls>>

(* On any other split record, insert the separator of the new sibling into  *)
(* the parent.                                                              *)
FinishSplit(t) ==
  LET smo    == cur[t].node.smo
      parent == par[t].node
      found  == Separator(parent, smo[1])
      beyond == parent.next # Nil /\ smo[1] >= parent.high
  IN /\ pc[t] = "split" /\ HasParent(t)
     /\ \/ /\ beyond \/ found = {smo}
           /\ To(t, "fit")
           /\ UNCHANGED <<table, cur, par, removed, go>>
        \/ /\ ~beyond /\ found # {smo}
           /\ found # {} \/ ~Matches(par[t])
           /\ Retry(t)
           /\ UNCHANGED table
        \/ /\ ~beyond /\ found = {} /\ Matches(par[t])
           /\ SetPar(t, par[t].id, Data(parent, parent.items \cup {smo}))
           /\ To(t, "consolidate")
           /\ UNCHANGED <<removed, go>>
     /\ UNCHANGED <<root, unused, retired, call, calls>>

(* ConsolidateNode: at once after the parent was updated, and optional for  *)
(* any long chain (TryConsolidateNode).  Losing the race changes nothing.   *)
ConsolidateNode(t) ==
  /\ \/ pc[t] = "consolidate"
     \/ pc[t] = "fit" /\ cur[t].node.type # "base" /\ Matches(cur[t])
  /\ IF Matches(cur[t])
     THEN SetCur(t, cur[t].id, Consolidated(cur[t].node))
     ELSE UNCHANGED <<table, cur, par>>
  /\ To(t, "fit")
  /\ UNCHANGED <<root, unused, retired, removed, go, call, calls>>
-----------------------------------------------------------------------------
(* AdjustNodeSize *)

Size(n) == Cardinality(n.items)
TooLarge(n) == n.type = "base" /\ Size(n) >= IF n.leaf THEN LeafUpper ELSE InnerUpper
TooSmall(n) == n.type = "base" /\ Size(n) <= IF n.leaf THEN LeafLower ELSE InnerLower

(* LeafRemoveNode and InnerRemoveNode are never posted on the root or on    *)
(* the leftmost child of the parent snapshot.                               *)
Removable(t) == HasParent(t) /\ LowChild(par[t].node) # cur[t].id
MustSplit(t)  == TooLarge(cur[t].node)
MustRemove(t) ==
  ~TooLarge(cur[t].node) /\ TooSmall(cur[t].node) /\ (Removable(t) \/ Reads(t))

(* GetValue has no parent snapshot, and neither has a thread that went      *)
(* right from an old root.  A modification such a thread has to finish, and *)
(* for GetValue a node that is too small, makes it read what the stack held *)
(* in its place: it is astray, and nothing is said of what it does then.    *)
Astray(t) ==
  /\ ~HasParent(t)
  /\ \/ pc[t] \in {"merge", "remove"}
     \/ Reads(t) /\ (pc[t] = "split" \/ (pc[t] = "fit" /\ MustRemove(t)))

SplitChildRemoved_Ignored(n) == FALSE
SplitChildRemoved(n) ==
  table[(CHOOSE s \in n.items : s[1] = SplitKey(n))[2]].type = "remove"

(* An inner node looks at the first child of its upper half before it       *)
(* splits, in a step of its own: a removed child must not become leftmost.  *)
CheckSplitChild(t) ==
  LET n == cur[t].node
  IN /\ pc[t] = "fit" /\ MustSplit(t) /\ ~n.leaf
     /\ To(t, IF SplitChildRemoved(n) THEN "ready" ELSE "innersplit")
     /\ UNCHANGED <<treeVars, cur, par, removed, go, call, calls>>

SplitNode(t) ==
  LET n   == cur[t].node
      new == Sibling(n, SplitKey(n), Moved(n))
  IN /\ \/ pc[t] = "fit" /\ MustSplit(t) /\ n.leaf
        \/ pc[t] = "innersplit"
     /\ unused # {}
     /\ unused' = unused \ {NewId}
     /\ IF Matches(cur[t])
        THEN /\ table' = [table EXCEPT ![NewId] = new,
                            ![cur[t].id] = Split(n, SplitKey(n), NewId, n.items \ Moved(n))]
             /\ To(t, "root")
             /\ cur' = [Outdate(cur, cur[t].id) EXCEPT ![t] = NoSnapshot]
             /\ par' = [Outdate(par, cur[t].id) EXCEPT ![t] = NoSnapshot]
             /\ removed' = [removed EXCEPT ![t] = <<>>]
             /\ go' = [go EXCEPT ![t] = Nil]
             /\ UNCHANGED retired
        ELSE /\ table' = [table EXCEPT ![NewId] = new]
             /\ Retire(NewId)
             /\ To(t, "ready")
             /\ UNCHANGED <<cur, par, removed, go>>
     /\ UNCHANGED <<root, call, calls>>

(* Before a node is removed its parent is blocked with an abort record; the *)
(* snapshots of the parent stay valid under it.                             *)
PostAbortOnParent(t) ==
  /\ pc[t] = "fit" /\ MustRemove(t) /\ ~Reads(t)
  /\ IF Matches(par[t])
     THEN /\ Write(par[t].id, Cover(par[t].node, "abort"))
          /\ LET Block(snaps) == [u \in Threads |->
                    IF snaps[u].id = par[t].id /\ snaps[u].is = "match"
                    THEN [snaps[u] EXCEPT !.is = "under"] ELSE snaps[u]]
             IN cur' = Block(cur) /\ par' = Block(par)
          /\ To(t, "postremove")
          /\ UNCHANGED <<removed, go>>
     ELSE Retry(t) /\ UNCHANGED table
  /\ UNCHANGED <<root, unused, retired, call, calls>>

PostRemoveNode(t) ==
  /\ pc[t] = "postremove"
  /\ IF Matches(cur[t])
     THEN /\ Write(cur[t].id, Cover(cur[t].node, "remove"))
          /\ cur' = Outdate(cur, cur[t].id)
          /\ par' = Outdate(par, cur[t].id)
     ELSE UNCHANGED <<table, cur, par>>
  /\ To(t, "unblock")
  /\ UNCHANGED <<root, unused, retired, removed, go, call, calls>>

(* The pointer under the abort record returns to the table, and every       *)
(* snapshot of it matches again.                                            *)
RemoveAbortOnParent_Forgotten(t) ==
  /\ pc[t] = "unblock"
  /\ Retry(t)
  /\ UNCHANGED <<treeVars, call, calls>>
RemoveAbortOnParent(t) ==
  LET Unblock(snaps) == [u \in Threads |->
        IF snaps[u].id = par[t].id /\ snaps[u].is = "under"
        THEN [snaps[u] EXCEPT !.is = "match"] ELSE snaps[u]]
  IN /\ pc[t] = "unblock"
     /\ Write(par[t].id, table[par[t].id].under[1])
     /\ cur' = [Unblock(cur) EXCEPT ![t] = NoSnapshot]
     /\ par' = [Unblock(par) EXCEPT ![t] = NoSnapshot]
     /\ To(t, "root")
     /\ removed' = [removed EXCEPT ![t] = <<>>]
     /\ go' = [go EXCEPT ![t] = Nil]
     /\ UNCHANGED <<root, unused, retired, call, calls>>
-----------------------------------------------------------------------------
(* Traverse, Insert, Delete and GetValue *)

(* LoadNodeID or JumpToNodeID has returned without an abort.                *)
AtNode(t) == pc[t] = "ready" \/ (pc[t] = "fit" /\ ~MustSplit(t) /\ ~MustRemove(t))

(* Back from the jump: hang the removed page below the left sibling, if     *)
(* that still is the left sibling.                                          *)
PostMergeNode(t) ==
  LET last == removed[t][Len(removed[t])]
  IN /\ AtNode(t) /\ removed[t] # <<>>
     /\ IF cur[t].node.next = last.id /\ Matches(cur[t])
        THEN /\ SetCur(t, cur[t].id, Merge(cur[t].node, last.id, last.right))
             /\ removed' = [removed EXCEPT ![t] = SubSeq(@, 1, Len(@) - 1)]
             /\ To(t, "merge")
             /\ UNCHANGED go
        ELSE Retry(t) /\ UNCHANGED table
     /\ UNCHANGED <<root, unused, retired, call, calls>>

(* NavigateSiblingChain, then down to the child or into the leaf.           *)
Beyond(t) == cur[t].node.next # Nil /\ call[t].key >= cur[t].node.high
Navigating(t) == AtNode(t) /\ removed[t] = <<>>

GoRight(t) ==
  /\ Navigating(t) /\ Beyond(t)
  /\ UpdateNodeSnapshot(t, cur[t].node.next)
  /\ UNCHANGED <<treeVars, par, removed, go, call, calls>>

GoDown(t) ==
  /\ Navigating(t) /\ ~Beyond(t) /\ ~cur[t].node.leaf
  /\ LET child == ChildFor(cur[t].node, call[t].key)
     IN IF Reads(t) THEN LoadNodeIDReadOptimized(t, child) ELSE TakeNodeSnapshot(t, child)
  /\ UNCHANGED <<treeVars, call, calls>>

AtLeaf(t) == Navigating(t) /\ ~Beyond(t) /\ cur[t].node.leaf
Found(t)  == call[t].key \in cur[t].node.items

(* GetValue; or the item is there already, or is not there.                 *)
Answer(t) ==
  /\ AtLeaf(t)
  /\ call[t].op = "insert" => Found(t)
  /\ call[t].op = "delete" => ~Found(t)
  /\ Leave(t)
  /\ cur' = [cur EXCEPT ![t] = NoSnapshot]
  /\ par' = [par EXCEPT ![t] = NoSnapshot]
  /\ UNCHANGED <<table, root, unused, calls>>

(* Mutant: the record is stored whatever the leaf is by now.                *)
PostData_Store(t) ==
  LET n == cur[t].node
      k == call[t].key
  IN /\ AtLeaf(t)
     /\ call[t].op = IF Found(t) THEN "delete" ELSE "insert"
     /\ Write(cur[t].id, Data(n, IF Found(t) THEN n.items \ {k} ELSE n.items \cup {k}))
     /\ cur' = [Outdate(cur, cur[t].id) EXCEPT ![t] = NoSnapshot]
     /\ par' = [par EXCEPT ![t] = NoSnapshot]
     /\ Leave(t)
     /\ UNCHANGED <<root, unused, calls>>

(* CAS the record onto the leaf, or start over with a new Context.          *)
PostData(t) ==
  LET n == cur[t].node
      k == call[t].key
  IN /\ AtLeaf(t)
     /\ \/ call[t].op = "insert" /\ ~Found(t)
        \/ call[t].op = "delete" /\ Found(t)
     /\ IF Matches(cur[t])
        THEN LET data == Data(n, IF Found(t) THEN n.items \ {k} ELSE n.items \cup {k})
             IN /\ Write(cur[t].id, data)
                /\ cur' = [Outdate(cur, cur[t].id) EXCEPT ![t] = NoSnapshot]
                /\ par' = [par EXCEPT ![t] = NoSnapshot]
                /\ Leave(t)
        ELSE Retry(t) /\ UNCHANGED <<table, retired, call>>
     /\ UNCHANGED <<root, unused, calls>>

(* The cleaner: nobody is left who was inside when the NodeID was retired   *)
(* (InvalidateNodeID; EpochManager has the mechanism).                      *)
InvalidateNodeID ==
  \E r \in retired :
    /\ r.until = {}
    /\ retired' = retired \ {r}
    /\ Write(r.id, None)
    /\ unused' = unused \cup {r.id}
    /\ UNCHANGED <<root, threadVars, call, calls>>
-----------------------------------------------------------------------------
(* The leaves from the leftmost one along their next pointers, and what     *)
(* they hold.                                                               *)
LeafIds ==
  LET next == [id \in Ids \cup {Nil} |-> IF id = Nil THEN Nil ELSE Live(table[id]).next]
      at[i \in 0 .. NumIds] == IF i = 0 THEN FirstLeaf ELSE next[at[i - 1]]
  IN {at[i] : i \in 0 .. NumIds} \ {Nil}
Contents == UNION {Live(table[id]).items : id \in LeafIds}

KeySetOf == INSTANCE KeySet WITH
  set <- Contents

Step(t) ==
  \/ Call(t) \/ ReadRoot(t) \/ LoadRoot(t) \/ JumpToNodeID(t)
  \/ JumpToLeftSibling(t) \/ PostMergeNode(t) \/ FinishMerge(t)
  \/ SplitRoot(t) \/ FinishSplit(t) \/ ConsolidateNode(t)
  \/ CheckSplitChild(t) \/ SplitNode(t)
  \/ PostAbortOnParent(t) \/ PostRemoveNode(t) \/ RemoveAbortOnParent(t)
  \/ GoRight(t) \/ GoDown(t) \/ Answer(t) \/ PostData(t)

(* The bound on calls is reached and every call has returned or is astray.  *)
AllReturned ==
  /\ calls = MaxCalls /\ \A t \in Threads : pc[t] = "out" \/ Astray(t)
  /\ UNCHANGED <<treeVars, threadVars, call, calls>>

Observe == KeySetOf!Observe(Contents', call')
Next == (InvalidateNodeID \/ AllReturned \/ \E t \in Threads : Step(t)) /\ Observe

Spec == Init /\ [][Next]_vars

(* The operating system runs every thread.                                  *)
FairSpec == Spec /\ \A t \in Threads : WF_vars(pc[t] # "out" /\ Step(t) /\ Observe)
-----------------------------------------------------------------------------
(* Properties *)

(* Types of the mapping table and of what the threads hold.                 *)
NodeOK(n) ==
  /\ n.type \in {"none", "base", "delta", "split", "merge", "remove", "abort"}
  /\ n.low \in 0 .. Inf /\ n.high \in 0 .. Inf /\ n.next \in {Nil} \cup Ids
  /\ IF n.leaf THEN n.items \subseteq Keys ELSE n.items \subseteq (0 .. Inf) \X Ids
TypeOK ==
  /\ root \in Ids /\ unused \subseteq Ids
  /\ \A id \in Ids : NodeOK(table[id])
  /\ \A t \in Threads : /\ NodeOK(cur[t].node) /\ NodeOK(par[t].node)
                        /\ go[t] \in {Nil} \cup Ids

(* The leaves reached along the next pointers always partition the key      *)
(* space, in the middle of every split, removal and merge too: each starts  *)
(* where its left sibling ends and holds keys of its range only.            *)
LeavesPartition ==
  /\ table[FirstLeaf].low = 0
  /\ \A id \in LeafIds :
       LET n == Live(table[id])
       IN /\ \A k \in n.items : n.low <= k /\ k < n.high
          /\ IF n.next = Nil THEN n.high = Inf ELSE n.high = Live(table[n.next]).low

(* Insert and Delete behave as on a set of keys: only the CAS of a          *)
(* successful call changes the keys the leaves hold, by its own key, and a  *)
(* call that refuses does so for a reason that held during the call.        *)
KeySetSpec == KeySetOf!Spec

(* A NodeID a thread inside the tree may still follow, from a snapshot or   *)
(* as its next stop, has not been given back.                               *)
Followed(t) ==
  {cur[t].node.next, go[t]}
    \cup (IF cur[t].node.leaf THEN {} ELSE {s[2] : s \in cur[t].node.items})
    \cup (IF par[t].node.leaf THEN {} ELSE {s[2] : s \in par[t].node.items})
NoDanglingId ==
  \A t \in Threads : pc[t] # "out" => Followed(t) \cap unused = {}

(* A separator leads where it says: its NodeID is not retired, and the node  *)
(* there starts at the separator, which lies in the range of its own node;  *)
(* in the middle of every split, merge and reuse of a NodeID too.           *)
InTree == Ids \ {r.id : r \in retired}
Separators == UNION {table[id].items : id \in {i \in InTree : ~table[i].leaf}}
SeparatorsResolve ==
  /\ \A s \in Separators : s[2] \in InTree /\ Live(table[s[2]]).low = s[1]
  /\ \A id \in {i \in InTree : ~table[i].leaf} :
       \A s \in table[id].items : table[id].low <= s[1] /\ s[1] < table[id].high

(* A leaf is either in the inner nodes or right of a topmost split record:  *)
(* nothing is posted on a split record before its separator is inserted.    *)
(* It holds as long as SplitsInserted does.                                 *)
NoOrphanNode ==
  \A id \in LeafIds :
    LET n == Live(table[id])
    IN n.next # Nil => <<n.high, n.next>> \in Separators \/ n.type = "split"

(* The comment in FinishPartialSMO: a thread that passes a split record     *)
(* without inserting its separator does so because the separator is in the  *)
(* tree already.                                                            *)
SplitInserted ==
  \A t \in Threads :
    pc[t] = "split" /\ pc'[t] = "fit" /\ cur[t].is # "stale"
      => cur[t].node.smo \in Separators
SplitsInserted == [][SplitInserted]_vars

(* The separator of a removed node is deleted by one thread only, while the *)
(* NodeID still resolves to the remove record (asserted in                  *)
(* PostInnerDeleteNode, compiled out): no NodeID is retired twice.          *)
RetiredOnce ==
  \A t \in Threads :
    pc[t] = "merge" /\ pc'[t] = "consolidate"
      => LET id == cur[t].node.smo[2]
         IN table[id].type = "remove" /\ id \in InTree \ unused

(* The leftmost child of an inner node is never a remove record: a thread   *)
(* that meets one starts over, so it would block every later call.          *)
RemovedNotLeftmost ==
  \A id \in InTree :
    LET n == table[id]
    IN ~n.leaf => table[LowChild(Live(n))].type # "remove"

(* The abort record a thread takes off its parent is its own (asserted in   *)
(* RemoveAbortOnParent, compiled out).                                      *)
AbortIsMine ==
  \A t \in Threads :
    pc[t] \in {"postremove", "unblock"} => table[par[t].id].type = "abort"

(* Every call returns: no chain of half-done modifications, aborts and      *)
(* retries sends the threads round for ever, each undoing the other's       *)
(* chance.  Only a thread that met a half-done modification on its way to   *)
(* the right may go astray for want of a parent.                            *)
CallsReturn == \A t \in Threads : pc[t] # "out" ~> pc[t] = "out" \/ Astray(t)

(* The two asserts hold in the build that leaves them out: whatever step    *)
(* comes next.                                                              *)
AssertsHold == [][AbortIsMine /\ RetiredOnce]_vars
=============================================================================
