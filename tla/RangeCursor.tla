---------------------------- MODULE RangeCursor ----------------------------
(***************************************************************************)
(* A range cursor of the server over a tree that changes under it: the      *)
(* ForwardIterator of the Bw-tree (include/bwtree/bwtree.h), the cursor of  *)
(* include/bptree.h and include/index.h on top of it, and the way           *)
(* src/procs_ol.cpp passes a cursor from the thread that opens a range to   *)
(* the threads that prefetch its next batches.                              *)
(*                                                                         *)
(* An iterator holds a private copy of one leaf, an IteratorContext that    *)
(* its copies share and count.  When the copy is used up it goes to the     *)
(* tree again with the high key of the leaf it had; meanwhile leaves have   *)
(* split and merged and pairs have come and gone.  The tree is here what    *)
(* BwTreeSMO and LeafChain show it to be: a set of pairs, cut into leaves.  *)
(* A key may have many values and all of them stay in one leaf, which can   *)
(* therefore be larger than a batch.  Pairs are numbered by key; that those *)
(* of one key come in the order of their numbers is an abstraction.         *)
(***************************************************************************)
EXTENDS Integers, Sequences, FiniteSets, FiniteSetsExt, Functions

CONSTANTS
  NumPairs,              \* key-value pairs are 1 .. NumPairs, in the order of their keys
  KeyStarts,             \* the pairs but the first that are the first of their key
  LeafUpper, LeafLower,  \* LEAF_NODE_SIZE_UPPER_THRESHOLD and _LOWER_
  Cap,                   \* items in a batch of BUFFER_SIZE bytes
  Contexts,              \* addresses of IteratorContexts
  Null                   \* no context

ASSUME CursorAssumption ==
  /\ NumPairs \in Nat \ {0} /\ KeyStarts \subseteq 2 .. NumPairs
  /\ LeafLower \in Nat \ {0} /\ LeafUpper \in Nat \ {0} /\ Cap \in Nat \ {0}
  /\ Null \notin Contexts

(* There is memory for a context of each iterator of a scan.               *)
ASSUME MemoryAssumption == \E a, b, c \in Contexts : a # b /\ b # c /\ a # c

VARIABLES
  pairs, fences,       \* the pairs in the tree; where its leaves but the first begin
  contexts,            \* the IteratorContexts: ref_count and the leaf inside
  iters,               \* the iterators: the context they hold and the pair they are at
  phase, worker,       \* where the scan is, and which thread is at it
  query, valid, count, \* its range, the cursor's _valid, items in this batch
  start_key,           \* LowerBound's start_key, as the first pair of that key
  delivered, always    \* the values returned; the pairs in the tree ever since (history)

treeVars == <<pairs, fences>>
scanVars == <<contexts, iters, phase, worker, query, valid, count, start_key, delivered>>
vars == <<treeVars, scanVars, always>>

Pairs == 1 .. NumPairs
Inf  == NumPairs + 1     \* high key of the last leaf; end of every page

(* The logical leaf that covers a pair.                                     *)
LeafAt(k) ==
  LET low  == Max({0} \cup {f \in fences : f <= k})
      high == Min({Inf} \cup {f \in fences : f > k})
  IN [items |-> {x \in pairs : low <= x /\ x < high}, low |-> low, high |-> high]

(* std::upper_bound, the next item; a mutant: the first item of the page.   *)
UpperBound(items, k) == Min({Inf} \cup {x \in items : x > k})
LowerBound_First(items, k) == Min({Inf} \cup items)

(* std::lower_bound over the items of a page.                               *)
LowerBound(items, k) == Min({Inf} \cup {x \in items : x >= k})

(* The iterators of one scan: process_range's cursor, range_ptr's cursor    *)
(* and the copy that a postfix increment makes of it.                       *)
Iters  == {"local", "session", "temp"}
NoIter == [ctx |-> Null, pos |-> Inf]
Free   == [ref |-> 0, items |-> {}, high |-> Inf]

IsEnd(ctxs, it) == it.ctx = Null \/ (ctxs[it.ctx].high = Inf /\ it.pos = Inf)

Copy_Shared(ctxs, it) == ctxs
Copy(ctxs, it) == [ctxs EXCEPT ![it.ctx].ref = @ + 1]

(* DecRef, which frees the context of the last reference.                   *)
DecRef(ctxs, it) ==
  IF it.ctx = Null THEN ctxs
  ELSE IF ctxs[it.ctx].ref = 1 THEN [ctxs EXCEPT ![it.ctx] = Free]
  ELSE [ctxs EXCEPT ![it.ctx].ref = @ - 1]

(* Mutant: the end of the tree is not looked at.                            *)
Valid_NoEnd(ctxs, it) == it.pos <= query.end \/ it.pos = Inf

(* cursor_imp::next: within the range and not at the end.                   *)
Valid(ctxs, it) == ~IsEnd(ctxs, it) /\ it.pos <= query.end

(* Mutant: try the same key again.                                          *)
NextStart_Same(page, key) == key

(* Where LowerBound looks next when a page has nothing from key on.         *)
NextStart(page, key) == page.high

Full_One(n) == n >= 1
Full(n) == n >= Cap

NoQuery == [start |-> 0, end |-> 0]

(* A tree some run of writers has left behind, and no scan.                 *)
Init ==
  /\ pairs \in SUBSET Pairs
  /\ fences \in SUBSET KeyStarts
  /\ contexts = [c \in Contexts |-> Free]
  /\ iters = [i \in Iters |-> NoIter]
  /\ phase = "idle" /\ worker = "opener"
  /\ query = NoQuery /\ valid = FALSE /\ count = 0 /\ start_key = 0
  /\ delivered = <<>> /\ always = {}
-----------------------------------------------------------------------------
(* The scan *)

(* process_range, isearch, find, Begin: LowerBound from the start key.  A   *)
(* range runs from the first pair of a key to the last of a key.            *)
Find(start, end) ==
  /\ phase = "idle" /\ start <= end
  /\ start \in {1} \cup KeyStarts /\ end + 1 \in KeyStarts \cup {Inf}
  /\ query' = [start |-> start, end |-> end]
  /\ start_key' = start /\ phase' = "open" /\ worker' = "opener"
  /\ always' = pairs
  /\ UNCHANGED <<treeVars, contexts, iters, valid, count, delivered>>

Mover == IF phase = "open" THEN "local" ELSE "session"

(* One round of LowerBound: give up the page held, copy the leaf that       *)
(* covers start_key, and find the first item from start_key on; with none   *)
(* and more leaves to come, go on from the high key.  The constructor of    *)
(* the cursor looks only for the end; next also ends the copy it made.      *)
LoadPage ==
  /\ phase \in {"open", "move"}
  /\ LET page  == LeafAt(start_key)
         left  == DecRef(contexts, iters[Mover])
         c     == CHOOSE c \in Contexts : left[c].ref = 0
         ctxs  == [left EXCEPT ![c] = [ref |-> 1, items |-> page.items, high |-> page.high]]
         it    == [ctx |-> c, pos |-> LowerBound(page.items, start_key)]
     IN /\ iters' = [iters EXCEPT ![Mover] = it,
                       !["temp"] = IF it.pos = Inf /\ ~IsEnd(ctxs, it) THEN @ ELSE NoIter]
        /\ IF it.pos = Inf /\ ~IsEnd(ctxs, it)
           THEN /\ start_key' = NextStart(page, start_key)
                /\ contexts' = ctxs
                /\ UNCHANGED <<phase, valid>>
           ELSE /\ contexts' = DecRef(ctxs, iters["temp"])
                /\ start_key' = 0
                /\ IF phase = "open"
                   THEN phase' = "copy" /\ valid' = ~IsEnd(ctxs, it)
                   ELSE phase' = "batch" /\ valid' = Valid(ctxs, it)
  /\ UNCHANGED <<treeVars, worker, query, count, delivered, always>>

(* new range_ptr: the session gets a clone of the cursor.                   *)
CloneCursor ==
  /\ phase = "copy"
  /\ contexts' = Copy(contexts, iters["local"])
  /\ iters' = [iters EXCEPT !["session"] = iters["local"]]
  /\ phase' = "batch" /\ count' = 0
  /\ UNCHANGED <<treeVars, worker, query, valid, start_key, delivered, always>>

(* One turn of the loop of get_items: value, then next, that is ptr++.      *)
NextItem ==
  /\ phase = "batch" /\ valid /\ ~Full(count)
  /\ delivered' = Append(delivered, iters["session"].pos)
  /\ count' = count + 1
  /\ LET it     == iters["session"]
         copied == Copy(contexts, it)
         moved  == [it EXCEPT !.pos = UpperBound(contexts[it.ctx].items, it.pos)]
     IN IF moved.pos = Inf /\ ~IsEnd(copied, moved)
        THEN /\ contexts' = copied
             /\ iters' = [iters EXCEPT !["session"] = moved, !["temp"] = it]
             /\ start_key' = contexts[it.ctx].high
             /\ phase' = "move"
             /\ UNCHANGED valid
        ELSE /\ contexts' = DecRef(copied, it)
             /\ iters' = [iters EXCEPT !["session"] = moved]
             /\ valid' = Valid(copied, moved)
             /\ UNCHANGED <<start_key, phase>>
  /\ UNCHANGED <<treeVars, worker, query, always>>

(* The batch is full: process_range and update_range leave the next one to  *)
(* a prefetch task, which another thread takes.                             *)
HandOver ==
  /\ phase = "batch" /\ valid /\ Full(count)
  /\ worker' = "prefetcher" /\ count' = 0
  /\ UNCHANGED <<treeVars, contexts, iters, phase, query, valid, start_key, delivered, always>>

(* Nothing is left: delete ptr.                                             *)
DeleteSession ==
  /\ phase = "batch" /\ ~valid
  /\ contexts' = DecRef(contexts, iters["session"])
  /\ iters' = [iters EXCEPT !["session"] = NoIter]
  /\ phase' = "drained"
  /\ UNCHANGED <<treeVars, worker, query, valid, count, start_key, delivered, always>>

(* process_range returns and destroys its cursor, by then perhaps while the *)
(* prefetcher moves the other one.                                          *)
ReturnFromOpen ==
  /\ worker = "prefetcher" \/ phase = "drained"
  /\ iters["local"].ctx # Null
  /\ contexts' = DecRef(contexts, iters["local"])
  /\ iters' = [iters EXCEPT !["local"] = NoIter]
  /\ UNCHANGED <<treeVars, phase, worker, query, valid, count, start_key, delivered, always>>

(* The same while both stand in one page: ref_count is a plain integer, and *)
(* the increment for the copy a postfix ++ makes and the decrement of the   *)
(* cursor destroyed take each other's place.  The scan is followed no       *)
(* further: the page is freed under a cursor, or never.                     *)
RaceCounts ==
  /\ phase = "batch" /\ valid /\ ~Full(count) /\ worker = "prefetcher"
  /\ iters["local"].ctx # Null /\ iters["local"].ctx = iters["session"].ctx
  /\ \E lost \in {-1, 1} : contexts' = [contexts EXCEPT ![iters["session"].ctx].ref = @ + lost]
  /\ iters' = [iters EXCEPT !["local"] = NoIter, !["temp"] = iters["session"]]
  /\ phase' = "raced"
  /\ UNCHANGED <<treeVars, worker, query, valid, count, start_key, delivered, always>>

(* The range is answered; the next one finds the tree as it is then.        *)
Finish ==
  /\ phase = "drained" /\ iters["local"].ctx = Null
  /\ phase' = "idle" /\ worker' = "opener"
  /\ query' = NoQuery /\ count' = 0 /\ delivered' = <<>> /\ always' = {}
  /\ UNCHANGED <<treeVars, contexts, iters, valid, start_key>>

Scan ==
  \/ LoadPage \/ CloneCursor \/ NextItem \/ HandOver \/ DeleteSession
  \/ ReturnFromOpen \/ RaceCounts \/ Finish
-----------------------------------------------------------------------------
(* The writers *)

Insert(k) ==
  /\ k \notin pairs
  /\ pairs' = pairs \cup {k}
  /\ UNCHANGED <<fences, scanVars, always>>

Delete(k) ==
  /\ k \in pairs
  /\ pairs' = pairs \ {k} /\ always' = always \ {k}
  /\ UNCHANGED <<fences, scanVars>>

(* FindSplitPoint: a leaf that is too large is cut where the key in its     *)
(* middle begins, or else where that key ends, when enough is then on that  *)
(* side of it; a leaf of one key is never cut.                              *)
StartOf(k)    == Max({1} \cup {f \in KeyStarts : f <= k})
Middle(items) == CHOOSE m \in items : Cardinality({x \in items : x < m}) = Cardinality(items) \div 2

SplitLeaf(k) ==
  LET items  == LeafAt(k).items
      middle == Middle(items)
      left   == {x \in items : x < StartOf(middle)}
      right  == {x \in items : x > middle /\ StartOf(x) # StartOf(middle)}
  IN /\ Cardinality(items) >= LeafUpper
     /\ IF Cardinality(left) > LeafLower THEN k = StartOf(middle)
        ELSE Cardinality(right) > LeafLower /\ k = StartOf(Min(right))
     /\ fences' = fences \cup {k}
     /\ UNCHANGED <<pairs, scanVars, always>>

(* One that is too small goes into the leaf on its left.                    *)
MergeLeaf(f) ==
  /\ f \in fences /\ Cardinality(LeafAt(f).items) <= LeafLower
  /\ fences' = fences \ {f}
  /\ UNCHANGED <<pairs, scanVars, always>>

Next ==
  \/ \E start, end \in Pairs : Find(start, end)
  \/ Scan
  \/ \E k \in Pairs : Insert(k) \/ Delete(k)
  \/ \E k \in KeyStarts : SplitLeaf(k) \/ MergeLeaf(k)

Spec == Init /\ [][Next]_vars

(* The thread that is in LowerBound goes on.                                *)
FairSpec == Spec /\ WF_vars(LoadPage)
-----------------------------------------------------------------------------
(* The cursor is at an item of the page it holds, or past its end, and      *)
(* returns pairs only (bwtree.h operator* and IsEnd, get_items).            *)
TypeOK ==
  /\ pairs \subseteq Pairs /\ fences \subseteq KeyStarts /\ always \subseteq pairs
  /\ contexts \in [Contexts -> [ref : 0 .. 3, items : SUBSET Pairs, high : 2 .. Inf]]
  /\ iters \in [Iters -> [ctx : Contexts \cup {Null}, pos : 1 .. Inf]]
  /\ \A i \in Iters : iters[i].pos # Inf => iters[i].pos \in contexts[iters[i].ctx].items
  /\ phase \in {"idle", "open", "copy", "batch", "move", "drained", "raced"}
  /\ worker \in {"opener", "prefetcher"} /\ valid \in BOOLEAN
  /\ count \in 0 .. Cap /\ start_key \in 0 .. NumPairs
  /\ query \in [start : 0 .. NumPairs, end : 0 .. NumPairs]
  /\ delivered \in Seq(Pairs)

(* What LowerBound's comment is about: a leaf merged into the one already   *)
(* scanned must not be scanned twice, and pairs come in ascending order.    *)
ScanOrdered ==
  \A i, j \in DOMAIN delivered : i < j => delivered[i] < delivered[j]

(* Pairs the scan has gone past.                                            *)
Passed(k) ==
  CASE phase = "move"              -> k < start_key
    [] phase = "batch" /\ valid    -> k < iters["session"].pos
    [] phase = "batch" /\ ~valid   -> TRUE
    [] phase = "drained"           -> TRUE
    [] OTHER                       -> FALSE

(* A pair of the range that is in the tree from the call of find on, and    *)
(* that the scan has gone past, was returned, however the leaves split and  *)
(* merged under the cursor.                                                 *)
ScanComplete ==
  \A k \in always :
    query.start <= k /\ k <= query.end /\ Passed(k) => k \in Range(delivered)

(* Only the first item can lie outside the range, and only above it: the    *)
(* constructor of the cursor does not look at the end, next does.           *)
ScanWithin ==
  \A i \in DOMAIN delivered :
    query.start <= delivered[i] /\ (i > 1 => delivered[i] <= query.end)

(* ref_count is the number of iterators that hold the context: none holds   *)
(* one that was freed, and none is left behind (IncRef, DecRef, operator=). *)
ContextsCounted ==
  \A c \in Contexts : contexts[c].ref = Cardinality({i \in Iters : iters[i].ctx = c})

Owner(i) == IF i = "local" THEN "opener" ELSE worker

(* ref_count is a plain integer; bwtree.h:7714 takes for granted that one   *)
(* thread uses it.  The server copies a cursor in one thread and moves the  *)
(* copy in another.  They meet at one count only in a page with more items  *)
(* than a batch: any other the first batch has left.                        *)
SingleThreaded ==
  \A i, j \in Iters :
    iters[i].ctx = iters[j].ctx /\ iters[i].ctx # Null /\ Owner(i) # Owner(j) =>
      Cardinality(contexts[iters[i].ctx].items) > Cap

(* The search for the next item ends, whatever writers do meanwhile.        *)
LowerBoundReturns == phase \in {"open", "move"} ~> phase \in {"copy", "batch"}

(* A scan yields what was there throughout, once and in order, and of what  *)
(* is not in its range at most the first item.                              *)
ScanExact == ScanOrdered /\ ScanComplete /\ ScanWithin

(* The plain reference counts are right as long as no two threads change    *)
(* one at once, and those can only be of a page larger than a batch.        *)
ContextsSound == (phase # "raced" => ContextsCounted) /\ SingleThreaded
=============================================================================
