----------------------------- MODULE InnerChain ----------------------------
(***************************************************************************)
(* One inner level of the Bw-tree (include/bwtree/bwtree.h): what the delta *)
(* chains of its nodes say about the children, while the children split and *)
(* merge, the nodes themselves are consolidated, split and merged, and the  *)
(* NodeIDs of removed children are given out again although records of the  *)
(* chain still name them.  Each operation is one step; BwTreeSMO has the    *)
(* interleavings of its compare-and-swaps.                                  *)
(*                                                                         *)
(* A separator is a pair <<low key of a child, its NodeID>>.  The first one *)
(* of a node is its low key pair, whose key may be -Inf (0 here) and is     *)
(* never compared.  A removed node lives on as the right branch of a merge  *)
(* record; removal is posted above a base page only, so it is a page.       *)
(***************************************************************************)
EXTENDS Integers, Sequences, FiniteSets, SequencesExt, FiniteSetsExt

CONSTANTS
  NumKeys,     \* the keys are 1 .. NumKeys
  Ids,         \* NodeIDs of the children
  Upper,       \* INNER_NODE_SIZE_UPPER_THRESHOLD
  Lower,       \* INNER_NODE_SIZE_LOWER_THRESHOLD
  MaxDepth,    \* bound: index term records above one base page
  MaxMerges,   \* bound: merge records in one chain
  InvalidId    \* INVALID_NODE_ID

VARIABLES
  nodes,      \* the inner nodes of the level, from left to right
  children    \* the nodes of the level below: <<low key, NodeID>>

vars == <<nodes, children>>

Keys   == 1 .. NumKeys
Inf    == NumKeys + 1
NoItem == <<Inf, InvalidId>>       \* next item of the rightmost child
Pairs  == (0 .. NumKeys) \X Ids

Insert == "InnerInsertType"
Delete == "InnerDeleteType"
IsTerm(d)  == d.type \in {Insert, Delete}
IsMerge(d) == d.type = "InnerMergeType"

Below(a, b)  == a[1] < b[1]
Sorted(seps) == SetToSortSeq(seps, Below)

(* The topmost record with a high key of its own decides it.                *)
HighKey(deltas, base) ==
  LET smo == SelectInSeq(deltas, LAMBDA d : ~IsTerm(d))
  IN IF smo = 0 THEN base.high ELSE deltas[smo].high

Covers(n, k) == n.low[1] <= k /\ k < HighKey(n.deltas, n.base)

Init ==
  \E id \in Ids :
    /\ nodes = <<[low |-> <<0, id>>, deltas |-> <<>>, count |-> 1,
                  base |-> [items |-> <<<<0, id>>>>, high |-> Inf]]>>
    /\ children = {<<0, id>>}
-----------------------------------------------------------------------------
(* Reading *)

(* The index terms and the base page a search for k walks through.          *)
Path(n, k) ==
  LET right == SelectInSeq(n.deltas, LAMBDA d : IsMerge(d) /\ k >= d.key)
  IN [deltas |-> SelectSeq(IF right = 0 THEN n.deltas
                                        ELSE SubSeq(n.deltas, 1, right - 1), IsTerm),
      items  |-> (IF right = 0 THEN n.base ELSE n.deltas[right].right).items]

(* The last separator of a page with a key not above k; the key of the      *)
(* first one is not read.                                                   *)
LocateSeparatorByKey(items, k) ==
  items[Max({1} \cup {i \in 2 .. Len(items) : items[i][1] <= k})][2]

(* Mutant: a delete record is taken for all keys below its next item.       *)
Decides_NoPrev(d, low, k) ==
  k < d.next[1] /\ (d.type = Insert => k >= d.item[1])

(* Does a record decide where k goes?  An insert covers its child, a delete *)
(* the child that absorbed the deleted one.                                 *)
Decides(d, low, k) ==
  /\ k < d.next[1]
  /\ IF d.type = Insert THEN k >= d.item[1]
                        ELSE d.prev[2] = low[2] \/ k >= d.prev[1]

(* NavigateInnerNode on the way down: the child for a key.                  *)
NavigateInnerNode(n, k) ==
  LET path == Path(n, k)
      hit  == SelectInSeq(path.deltas, LAMBDA d : Decides(d, n.low, k))
  IN IF hit = 0 THEN LocateSeparatorByKey(path.items, k)
     ELSE IF path.deltas[hit].type = Insert THEN path.deltas[hit].item[2]
     ELSE path.deltas[hit].prev[2]

(* The page of a chain without its first separator, if that is the low key  *)
(* pair of the whole chain.                                                 *)
WithoutLow(items, low) == IF items[1][2] = low[2] THEN Tail(items) ELSE items

(* NavigateInnerNode of FinishPartialSMO: the separators with exactly this  *)
(* key, none or one.                                                        *)
FindSeparator(n, k) ==
  LET path == Path(n, k)
      hit  == SelectInSeq(path.deltas, LAMBDA d : d.item[1] = k)
  IN IF hit = 0
     THEN {x \in ToSet(WithoutLow(path.items, n.low)) : x[1] = k}
     ELSE {x \in {path.deltas[hit].item} : path.deltas[hit].type = Insert}

(* Mutant: records below a newer one of the same key count too.             *)
Latest_All(deltas) == {d \in ToSet(deltas) : IsTerm(d)}

(* SortedSmallSet over a chain: the topmost record of every key.            *)
Latest(deltas) ==
  {deltas[i] : i \in {i \in DOMAIN deltas :
     /\ IsTerm(deltas[i])
     /\ \A j \in 1 .. i - 1 : IsTerm(deltas[j]) => deltas[j].item[1] # deltas[i].item[1]}}

(* The separators of a page after the records of its keys.                  *)
Replay(items, records) ==
  {x \in items : \A d \in records : d.item[1] # x[1]}
  \cup {d.item : d \in {d \in records : d.type = Insert}}

(* The pages of the chain from left to right, each with the high key that   *)
(* ends it.                                                                 *)
Pages(n) ==
  LET low    == SelectLastInSeq(n.deltas, IsMerge)
      merges == SelectSeq(n.deltas, IsMerge)
  IN <<[items |-> n.base.items,
        high  |-> HighKey(SubSeq(n.deltas, low + 1, Len(n.deltas)), n.base)]>>
     \o Reverse([i \in DOMAIN merges |-> merges[i].right])

(* Mutant: separators at the high key are copied.                           *)
Ends_Late(k, page) == k <= page.high

(* Where the copying of a page and of its records stops.                    *)
Ends(k, page) == k < page.high

(* CollectAllSepsOnInner: the low key pair, then page by page the           *)
(* separators below its high key with the records below it drained into     *)
(* them.                                                                    *)
CollectPage(acc, page, low) ==
  LET mine == {d \in acc.sss : Ends(d.item[1], page)}
      old  == {x \in ToSet(WithoutLow(page.items, low)) : Ends(x[1], page)}
  IN [out |-> acc.out \o Sorted(Replay(old, mine)), sss |-> acc.sss \ mine]

CollectAllSepsOnInner(n) ==
  FoldLeft(LAMBDA acc, page : CollectPage(acc, page, n.low),
           [out |-> <<n.low>>, sss |-> Latest(n.deltas)], Pages(n)).out

Consolidated(n) ==
  [n EXCEPT !.deltas = <<>>,
            !.base = [items |-> CollectAllSepsOnInner(n), high |-> HighKey(n.deltas, n.base)]]

(* FindLeftSibling cannot read below a merge record: it consolidates first, *)
(* and goes on in its own page whether that was installed or not.           *)
Readable(n) == IF SelectSeq(n.deltas, IsMerge) = <<>> THEN n ELSE Consolidated(n)

(* The second separator from high to low among those not above the key; the *)
(* first one of the page comes last.                                        *)
FindLeftSibling(node, k) ==
  LET n     == Readable(node)
      first == n.base.items[1]
      upTo  == {x \in ToSet(Tail(n.base.items)) : x[1] <= k}
      seps  == <<first>> \o Sorted(Replay(upTo, {d \in Latest(n.deltas) : d.item[1] <= k}))
  IN seps[Len(seps) - 1][2]
-----------------------------------------------------------------------------
(* Writing *)

(* The child to the right of a key, as the high key pair of the child that  *)
(* covers the key names it, and the child to the left.                      *)
NextChild(k) ==
  LET above == {c \in children : c[1] > k}
  IN IF above = {} THEN NoItem ELSE Sorted(above)[1]
PrevChild(k) == Last(Sorted({c \in children : c[1] < k}))

Post(i, record, change) ==
  /\ Len(SelectSeq(nodes[i].deltas, IsTerm)) < MaxDepth
  /\ nodes' = [nodes EXCEPT ![i].deltas = <<record>> \o @, ![i].count = @ + change]

(* A child has split at k: FinishPartialSMO and PostInnerInsertNode post    *)
(* the index term, unless it is there or belongs to the next node.          *)
PostInnerInsertNode(i, k, id) ==
  /\ Covers(nodes[i], k)
  /\ \A c \in children : c[1] # k /\ c[2] # id
  /\ FindSeparator(nodes[i], k) = {}
  /\ Post(i, [type |-> Insert, item |-> <<k, id>>, next |-> NextChild(k)], 1)
  /\ children' = children \cup {<<k, id>>}

(* A child other than the leftmost of its parent has been merged into its   *)
(* left sibling: PostInnerDeleteNode deletes the index term.                *)
PostInnerDeleteNode(i, item) ==
  /\ Covers(nodes[i], item[1]) /\ item[1] # nodes[i].low[1]
  /\ FindSeparator(nodes[i], item[1]) # {}
  /\ Post(i, [type |-> Delete, item |-> item,
              prev |-> PrevChild(item[1]), next |-> NextChild(item[1])], -1)
  /\ children' = children \ {item}

ConsolidateInnerNode(i) ==
  /\ nodes[i].deltas # <<>>
  /\ nodes' = [nodes EXCEPT ![i] = Consolidated(@)]
  /\ UNCHANGED children

(* Mutant: one separator less stays.                                        *)
SplitIndex_OneLess(items) == Len(items) \div 2 - 1

(* GetSplitSibling: the number of separators that stay.                     *)
SplitIndex(items) == Len(items) \div 2

(* AdjustNodeSize of a base page at the upper threshold: the new sibling    *)
(* gets the tail of the page, a split record shortens the node.             *)
SplitInner(i) ==
  LET n     == nodes[i]
      items == n.base.items
      stay  == SplitIndex(items)
      right == [low |-> items[stay + 1], deltas |-> <<>>, count |-> Len(items) - stay,
                base |-> [items |-> SubSeq(items, stay + 1, Len(items)),
                          high |-> n.base.high]]
      left  == [n EXCEPT !.deltas = <<[type |-> "InnerSplitType", high |-> right.low[1]]>>,
                         !.count = @ - right.count]
  IN /\ n.deltas = <<>>
     /\ n.count >= Upper
     /\ nodes' = SubSeq(nodes, 1, i - 1) \o <<left, right>>
                 \o SubSeq(nodes, i + 1, Len(nodes))
     /\ UNCHANGED children

(* AdjustNodeSize of a base page at the lower threshold that is not the     *)
(* leftmost child, and PostInnerMergeNode, which hangs it below its left    *)
(* sibling at the sibling's high key.                                       *)
MergeInner(i) ==
  LET n     == nodes[i]
      right == nodes[i + 1]
      merge == [type |-> "InnerMergeType", key |-> HighKey(n.deltas, n.base),
                right |-> right.base, high |-> right.base.high]
  IN /\ i < Len(nodes)
     /\ right.deltas = <<>>
     /\ right.count <= Lower
     /\ Len(SelectSeq(n.deltas, IsMerge)) < MaxMerges
     /\ nodes' = SubSeq(nodes, 1, i - 1)
                 \o <<[n EXCEPT !.deltas = <<merge>> \o @, !.count = @ + right.count]>>
                 \o SubSeq(nodes, i + 2, Len(nodes))
     /\ UNCHANGED children

Next ==
  \E i \in DOMAIN nodes :
    \/ \E k \in Keys, id \in Ids : PostInnerInsertNode(i, k, id)
    \/ \E item \in children : PostInnerDeleteNode(i, item)
    \/ ConsolidateInnerNode(i)
    \/ SplitInner(i)
    \/ MergeInner(i)

Spec == Init /\ [][Next]_vars
-----------------------------------------------------------------------------
(* Properties *)

(* Shapes of the state; no two children share a NodeID.                     *)
TypeOK ==
  /\ children \subseteq Pairs
  /\ \A c, d \in children : c[2] = d[2] => c = d
  /\ \A n \in ToSet(nodes) :
       /\ n.low \in children /\ n.count \in Nat \ {0}
       /\ n.base.items \in Seq(Pairs) /\ n.base.high \in 1 .. Inf
       /\ \A d \in ToSet(n.deltas) :
            \/ IsTerm(d) /\ d.item \in Pairs /\ d.next \in Pairs \cup {NoItem}
            \/ IsMerge(d) /\ d.right.items \in Seq(Pairs)
            \/ d.type = "InnerSplitType" /\ d.high \in Keys

(* A search is sent to the child that covers its key, however the records   *)
(* that decide it are stacked and whatever NodeIDs have been reused, and    *)
(* FinishPartialSMO finds a separator exactly when it is there (the two     *)
(* NavigateInnerNode).                                                      *)
NavigationExact ==
  \A n \in ToSet(nodes) : \A k \in Keys :
    Covers(n, k) =>
      /\ NavigateInnerNode(n, k) = PrevChild(k + 1)[2]
      /\ FindSeparator(n, k) = {c \in children : c[1] = k} \ {n.low}

(* Consolidating every node gives exactly the children, in order: no        *)
(* separator is lost, doubled, revived or kept on the wrong side of a split *)
(* or merge, each node starts at its low key pair, and each page meets the  *)
(* size it was allocated with (the asserts of CollectAllSepsOnInner).       *)
SeparatorsExact ==
  LET pages == [i \in DOMAIN nodes |-> CollectAllSepsOnInner(nodes[i])]
  IN /\ FlattenSeq(pages) = Sorted(children)
     /\ \A i \in DOMAIN nodes : Len(pages[i]) = nodes[i].count /\ pages[i][1] = nodes[i].low

(* The left sibling a removed child is merged into is its neighbour: with   *)
(* any other, the keys between would change hands (JumpToLeftSibling).      *)
LeftSiblingExact ==
  \A n \in ToSet(nodes) : \A c \in children \ {n.low} :
    Covers(n, c[1]) => FindLeftSibling(n, c[1]) = PrevChild(c[1])[2]

(* What an inner node says of its children is right: which one covers a     *)
(* key, which separators there are, and which child is on a child's left.   *)
RoutesExact == NavigationExact /\ LeftSiblingExact
=============================================================================
