----------------------------- MODULE LeafChain -----------------------------
(***************************************************************************)
(* The leaf level of the Bw-tree (include/bwtree/bwtree.h): what the delta  *)
(* chains of the leaves under one parent mean, and how they are written,    *)
(* read, consolidated, split and merged.  Here each operation is one step;  *)
(* BwTreeSMO has the interleavings of its compare-and-swaps.                *)
(*                                                                         *)
(* A leaf is the logical node behind one NodeID: its delta records, topmost *)
(* first, above a base page.  A page removed from its own NodeID lives on   *)
(* as the right branch of a merge record; removal is posted only above a    *)
(* base page, so that branch is a page and not a chain.  The records carry  *)
(* the position of their item in the base page of their own branch.         *)
(***************************************************************************)
EXTENDS Integers, Sequences, FiniteSets, SequencesExt, FiniteSetsExt

CONSTANTS
  NumKeys,     \* the keys are 1 .. NumKeys
  Values,      \* values a key may be stored with
  Upper,       \* LEAF_NODE_SIZE_UPPER_THRESHOLD
  Lower,       \* LEAF_NODE_SIZE_LOWER_THRESHOLD
  MaxDepth,    \* bound: data records above one base page
  MaxMerges    \* bound: merge records in one chain

ASSUME ThresholdAssumption ==
  /\ NumKeys \in Nat /\ MaxDepth \in Nat /\ MaxMerges \in Nat
  /\ Lower \in Nat \ {0} /\ Upper \in Nat /\ Upper >= 2 * Lower + 2

VARIABLES
  leaves,    \* the leaves from left to right
  contents   \* the items put in and not deleted since (history)

vars == <<leaves, contents>>

Keys  == 1 .. NumKeys
Items == Keys \X Values
Inf   == NumKeys + 1     \* the high key of the rightmost leaf

Insert == "LeafInsertType"
Delete == "LeafDeleteType"
IsData(d)  == d.type \in {Insert, Delete}
IsMerge(d) == d.type = "LeafMergeType"

(* Mutants: the position before the right one; std::upper_bound.            *)
LowerBound_Before(items, k) == Cardinality({i \in DOMAIN items : items[i][1] < k}) - 1
LowerBound_Upper(items, k)  == Cardinality({i \in DOMAIN items : items[i][1] <= k})

(* Number of items of a base page with a key below k: std::lower_bound.     *)
LowerBound(items, k) == Cardinality({i \in DOMAIN items : items[i][1] < k})

(* The topmost record that has a high key of its own decides it.            *)
HighKey(deltas, base) ==
  LET smo == SelectInSeq(deltas, LAMBDA d : ~IsData(d))
  IN IF smo = 0 THEN base.high ELSE deltas[smo].high

High(n) == HighKey(n.deltas, n.base)
Covers(n, k) == n.low <= k /\ k < High(n)

Init ==
  /\ leaves = <<[low |-> 0, deltas |-> <<>>, count |-> 0,
                 base |-> [items |-> <<>>, high |-> Inf]]>>
  /\ contents = {}
-----------------------------------------------------------------------------
(* Reading *)

(* Mutant: the separator key itself still goes left.                        *)
Path_Strict(n, k) ==
  LET right == SelectInSeq(n.deltas, LAMBDA d : IsMerge(d) /\ k > d.key)
  IN [deltas |-> SelectSeq(IF right = 0 THEN n.deltas
                                        ELSE SubSeq(n.deltas, 1, right - 1), IsData),
      items  |-> (IF right = 0 THEN n.base ELSE n.deltas[right].right).items]

(* The records and the base page a search for k walks through: a merge      *)
(* record with a key not above k sends it to its right page.                *)
Path(n, k) ==
  LET right == SelectInSeq(n.deltas, LAMBDA d : IsMerge(d) /\ k >= d.key)
  IN [deltas |-> SelectSeq(IF right = 0 THEN n.deltas
                                        ELSE SubSeq(n.deltas, 1, right - 1), IsData),
      items  |-> (IF right = 0 THEN n.base ELSE n.deltas[right].right).items]

(* NavigateLeafNode of Insert and Delete: is the item there, and where does *)
(* it belong in the base page?                                              *)
FindItem(n, item) ==
  LET path == Path(n, item[1])
      hit  == SelectInSeq(path.deltas, LAMBDA d : d.item = item)
      slot == SelectInSeq(path.items, LAMBDA x : x = item)
  IN IF hit # 0
     THEN [found |-> path.deltas[hit].type = Insert,
           index |-> path.deltas[hit].index, over |-> path.deltas[hit].over]
     ELSE IF slot # 0
     THEN [found |-> TRUE, index |-> slot - 1, over |-> TRUE]
     ELSE [found |-> FALSE, index |-> LowerBound(path.items, item[1] + 1), over |-> FALSE]

(* NavigateLeafNode of GetValue: the list of values stored with a key.  The *)
(* deepest record below, and the deepest above the key on the way down      *)
(* narrow the search of the base page.  A start past its end reads past the *)
(* array; no value is read from there here.                                 *)
GetValue(n, k) ==
  LET path    == Path(n, k)
      ds      == path.deltas
      below   == SelectLastInSeq(ds, LAMBDA d : d.item[1] < k)
      above   == SelectLastInSeq(ds, LAMBDA d : d.item[1] > k)
      start   == IF below = 0 THEN 0 ELSE ds[below].index
      end     == IF above = 0 THEN Len(path.items) ELSE ds[above].index
      from    == Max({start, Min({end, LowerBound(path.items, k)})})
      run     == {i \in from + 1 .. Len(path.items) :
                    \A j \in from + 1 .. i : path.items[j][1] = k}
      seen    == {v \in Values : SelectInSeq(ds, LAMBDA d : d.item = <<k, v>>) # 0}
      present == {v \in seen :
                    ds[SelectInSeq(ds, LAMBDA d : d.item = <<k, v>>)].type = Insert}
  IN SetToSeq(present)
     \o SelectSeq([i \in 1 .. Cardinality(run) |-> path.items[from + i][2]],
                  LAMBDA v : v \notin seen)

(* Draining one record into the new page: copy the old page up to the       *)
(* record's index, then put the item after it; an overwritten item of the   *)
(* old page is skipped when the records of its index are drained.           *)
CopyFrom(page) == page.from + (IF page.over THEN 1 ELSE 0)
Drain(page, d, items, end) ==
  LET next   == d.index # page.index
      copied == IF next THEN page.out \o SubSeq(items, CopyFrom(page) + 1, d.index)
                        ELSE page.out
  IN [out   |-> IF d.type = Insert THEN Append(copied, d.item) ELSE copied,
      from  |-> d.index,
      index |-> d.index,
      over  |-> d.over \/ (~next /\ page.over),
      ok    |-> page.ok /\ (next => CopyFrom(page) <= d.index /\ d.index <= end)]

(* Mutant: no delta_set, every record of an item is replayed.               *)
Topmost_All(n) == {i \in DOMAIN n.deltas : IsData(n.deltas[i])}

(* CollectAllValuesOnLeaf.  The pages of the chain from left to right, each *)
(* with the high key that ends it; the topmost record of every item, sorted *)
(* by key and index; and the records drained page by page.                  *)
Pages(n) ==
  LET low == SelectLastInSeq(n.deltas, IsMerge)
  IN <<[items |-> n.base.items,
        high  |-> HighKey(SubSeq(n.deltas, low + 1, Len(n.deltas)), n.base)]>>
     \o Reverse([i \in 1 .. Len(SelectSeq(n.deltas, IsMerge)) |->
                   SelectSeq(n.deltas, IsMerge)[i].right])

Topmost(n) ==
  {i \in DOMAIN n.deltas :
     /\ IsData(n.deltas[i])
     /\ ~ \E j \in 1 .. i - 1 : IsData(n.deltas[j]) /\ n.deltas[j].item = n.deltas[i].item}

SortedRecords(n) ==
  LET Before(i, j) ==
        LET a == n.deltas[i]  b == n.deltas[j]
        IN \/ a.item[1] < b.item[1]
           \/ a.item[1] = b.item[1] /\ a.index < b.index
           \/ a.item[1] = b.item[1] /\ a.index = b.index /\ i < j
      order == SetToSortSeq(Topmost(n), Before)
  IN [i \in DOMAIN order |-> n.deltas[order[i]]]

CollectPage(acc, page) ==
  LET end    == LowerBound(page.items, page.high)
      mine   == SelectSeq(acc.sss, LAMBDA d : d.item[1] < page.high)
      filled == FoldLeft(LAMBDA p, d : Drain(p, d, page.items, end),
                         [out |-> acc.out, from |-> 0, index |-> -1,
                          over |-> FALSE, ok |-> acc.ok], mine)
  IN [out |-> filled.out \o SubSeq(page.items, CopyFrom(filled) + 1, end),
      sss |-> SelectSeq(acc.sss, LAMBDA d : d.item[1] >= page.high),
      ok  |-> filled.ok]

CollectAllValuesOnLeaf(n) ==
  FoldLeft(CollectPage, [out |-> <<>>, sss |-> SortedRecords(n), ok |-> TRUE], Pages(n))

(* FindSplitPoint: the number of items that stay.  Never inside a run of    *)
(* equal keys; 0 stands for -1, when neither side of the central run would  *)
(* leave enough.                                                            *)
FindSplitPoint(items) ==
  LET size    == Len(items)
      central == items[size \div 2 + 1][1]
      left    == Max({1, LowerBound(items, central)})
      right   == LowerBound(items, central + 1)
  IN IF left > Lower THEN left
     ELSE IF size - right > Lower THEN right
     ELSE 0
-----------------------------------------------------------------------------
(* Writing *)

(* Insert and Delete CAS one record onto the chain; they return without one *)
(* when the item is already there, or is not.                               *)
PostData(i, type, item) ==
  LET n   == leaves[i]
      pos == FindItem(n, item)
  IN /\ Covers(n, item[1])
     /\ pos.found = (type = Delete)
     /\ Len(SelectSeq(n.deltas, IsData)) < MaxDepth
     /\ leaves' = [leaves EXCEPT
          ![i].deltas = <<[type |-> type, item |-> item,
                           index |-> pos.index, over |-> pos.over]>> \o @,
          ![i].count = IF type = Insert THEN @ + 1 ELSE @ - 1]

InsertItem(i, item) == PostData(i, Insert, item) /\ contents' = contents \cup {item}
DeleteItem(i, item) == PostData(i, Delete, item) /\ contents' = contents \ {item}

(* ConsolidateLeafNode: the page that replaces the chain takes its size     *)
(* from the top record.                                                     *)
ConsolidateLeafNode(i) ==
  LET n == leaves[i]
  IN /\ n.deltas # <<>>
     /\ leaves' = [leaves EXCEPT
          ![i].deltas = <<>>,
          ![i].base = [items |-> CollectAllValuesOnLeaf(n).out, high |-> High(n)]]
     /\ UNCHANGED contents

(* AdjustNodeSize, a base page at the upper threshold: the new sibling gets *)
(* the tail of the page, and a split record shortens the old leaf.          *)
SplitLeaf(i) ==
  LET n     == leaves[i]
      items == n.base.items
      point == FindSplitPoint(items)
      key   == items[point + 1][1]
      right == [low |-> key, deltas |-> <<>>, count |-> Len(items) - point,
                base |-> [items |-> SubSeq(items, point + 1, Len(items)),
                          high |-> n.base.high]]
      left  == [n EXCEPT !.deltas = <<[type |-> "LeafSplitType", high |-> key]>>,
                         !.count = @ - right.count]
  IN /\ n.deltas = <<>>
     /\ n.count >= Upper
     /\ point # 0
     /\ leaves' = SubSeq(leaves, 1, i - 1) \o <<left, right>>
                  \o SubSeq(leaves, i + 1, Len(leaves))
     /\ UNCHANGED contents

(* AdjustNodeSize, a base page at the lower threshold that is not the       *)
(* leftmost child, and PostLeafMergeNode, which hangs it below its left     *)
(* sibling.                                                                 *)
MergeLeaf(i) ==
  LET n     == leaves[i]
      right == leaves[i + 1]
      merge == [type |-> "LeafMergeType", key |-> right.low,
                right |-> right.base, high |-> right.base.high]
  IN /\ i < Len(leaves)
     /\ right.deltas = <<>>
     /\ right.count <= Lower
     /\ Len(SelectSeq(n.deltas, IsMerge)) < MaxMerges
     /\ leaves' = SubSeq(leaves, 1, i - 1)
                  \o <<[n EXCEPT !.deltas = <<merge>> \o @, !.count = @ + right.count]>>
                  \o SubSeq(leaves, i + 2, Len(leaves))
     /\ UNCHANGED contents

Next ==
  \E i \in DOMAIN leaves :
    \/ \E item \in Items : InsertItem(i, item)
    \/ \E item \in Items : DeleteItem(i, item)
    \/ ConsolidateLeafNode(i)
    \/ SplitLeaf(i)
    \/ MergeLeaf(i)

Spec == Init /\ [][Next]_vars
-----------------------------------------------------------------------------
(* Properties *)

(* Shapes of the state: every leaf is a chain of known records above a      *)
(* base page.                                                               *)
TypeOK ==
  /\ contents \subseteq Items
  /\ \A n \in ToSet(leaves) :
       /\ n.low \in 0 .. NumKeys /\ n.count \in Nat
       /\ n.base.items \in Seq(Items) /\ n.base.high \in 1 .. Inf
       /\ \A d \in ToSet(n.deltas) :
            \/ IsData(d) /\ d.item \in Items /\ d.index \in Nat /\ d.over \in BOOLEAN
            \/ IsMerge(d) /\ d.right.items \in Seq(Items)
            \/ d.type = "LeafSplitType" /\ d.high \in Keys

(* Insert and Delete find an item exactly when it is in the tree, whatever  *)
(* records, splits and merges lie above it, so neither answers wrongly nor  *)
(* posts a record twice (NavigateLeafNode with a value).                    *)
ExistenceExact ==
  \A n \in ToSet(leaves) : \A item \in Items :
    Covers(n, item[1]) => (FindItem(n, item).found <=> item \in contents)

AnswersExactly(n) ==
  \A k \in Keys :
    Covers(n, k) =>
      LET got == GetValue(n, k)
      IN /\ ToSet(got) = {v \in Values : <<k, v>> \in contents}
         /\ Len(got) = Cardinality(ToSet(got))

(* GetValue returns the values stored with a key, each once, in every leaf  *)
(* without a data record above a merge record: the positions in the records *)
(* then index the page that is searched, splits and re-inserted items       *)
(* included.                                                                *)
ValuesExactBelowMerge ==
  \A n \in ToSet(leaves) :
    (\A i, j \in DOMAIN n.deltas :
       i < j => ~(IsData(n.deltas[i]) /\ IsMerge(n.deltas[j]))) => AnswersExactly(n)

(* "This function correctly deals with merge and split" (NavigateLeafNode): *)
(* the same in every leaf.                                                  *)
ValuesExact == \A n \in ToSet(leaves) : AnswersExactly(n)

(* Consolidating every leaf gives exactly the items of the tree, those of   *)
(* each leaf in its range and all of them in key order: no item is lost,   *)
(* doubled, revived or on the wrong side of a split or merge.  Each page    *)
(* meets the size it is allocated with, and the merge loop never copies a   *)
(* range of negative length (the asserts of CollectAllValuesOnLeaf).        *)
ConsolidationExact ==
  LET got   == [i \in DOMAIN leaves |-> CollectAllValuesOnLeaf(leaves[i])]
      pages == [i \in DOMAIN leaves |-> got[i].out]
      all   == FlattenSeq(pages)
  IN /\ ToSet(all) = contents /\ Len(all) = Cardinality(contents)
     /\ \A i \in 1 .. Len(all) - 1 : all[i][1] <= all[i + 1][1]
     /\ \A i \in DOMAIN leaves :
          /\ got[i].ok /\ Len(pages[i]) = leaves[i].count
          /\ \A x \in ToSet(pages[i]) : Covers(leaves[i], x[1])

(* Both searches through a chain are exact, as far as GetValue's can be.    *)
SearchExact == ExistenceExact /\ ValuesExactBelowMerge
=============================================================================
