----------------------------- MODULE TreeMemory -----------------------------
(***************************************************************************)
(* The memory of the Bw-tree (include/bwtree/bwtree.h, atomic_stack.h).     *)
(* Delta records are carved downwards from a chunk in front of their base   *)
(* page (ElasticNode), and from further chunks that threads hang behind it  *)
(* when it is used up (AllocationMeta).  What a consolidation replaces goes *)
(* to the cleaner, which walks the delta chain and frees it page by page    *)
(* (FreeEpochDeltaChain).  The NodeID of a removed node travels with its    *)
(* remove record; the cleaner pushes it on a stack that many threads pop    *)
(* without locks (AtomicStack).                                             *)
(*                                                                         *)
(* BwTreeSMO has the order in which records are posted and EpochManager has *)
(* the epochs; here a call posts one thing, and what is retired waits for   *)
(* the threads inside the tree.  A block is what one new char[] returns and *)
(* is never reused, so that a use of a freed one shows.  A pointer is a     *)
(* block and an offset above the limit of its chunk; a base page and a      *)
(* remove record stand at the end of theirs.  Sizes are in units.           *)
(***************************************************************************)
EXTENDS Integers, Sequences, FiniteSets

CONSTANTS
  Threads,     \* threads that call the tree
  ChunkSize,   \* room for records in a chunk (CHUNK_SIZE less the header)
  NumIds,      \* bound: NodeIDs (STACK_SIZE, MAPPING_TABLE_SIZE)
  MaxCalls     \* bound: calls

ASSUME ThreadAssumption == Threads # {} /\ IsFiniteSet(Threads)
ASSUME SizeAssumption == ChunkSize \in Nat \ {0, 1} /\ NumIds \in Nat /\ NumIds >= 4
ASSUME CallAssumption == MaxCalls \in Nat

VARIABLES
  (* chunks and what is in them *)
  tail,        \* AllocationMeta::tail of every block, above its limit
  next,        \* AllocationMeta::next
  freed,       \* the blocks given back
  heap,        \* the records and pages by their pointers
  (* the mapping table, and what waits for the cleaner *)
  table,
  retired,     \* pointers handed to AddGarbageNode, with the threads inside then
  (* free_node_id_list and next_unused_node_id *)
  data, top, next_unused,
  (* threads *)
  pc, call,    \* where a thread is, and in what call
  chunk,       \* the chunk it tries to allocate from
  popped,      \* its snapshot of the top of the stack
  calls,       \* calls so far
  (* the cleaner *)
  todo,        \* what it has still to visit, innermost first
  pushing      \* its snapshot of the top of the stack during a push

memVars   == <<tail, next, freed, heap>>
stackVars == <<data, top, next_unused>>
cleanVars == <<todo, pushing>>
vars == <<memVars, table, retired, stackVars, pc, call, chunk, popped, calls, cleanVars>>

Ids  == 1 .. NumIds
Null == <<0, 0>>       \* no pointer
NoBlock == 0
NoTop == [at |-> -1, version |-> 0]   \* VersionedPointer{nullptr}
NoPush == [top |-> NoTop, id |-> 0]

Blocks == DOMAIN tail
NewBlock == Len(tail) + 1
End(b) == <<b, ChunkSize>>

(* A page or record: the base page its low key is in, what it covers, and   *)
(* for the topmost one the next NodeID.                                     *)
Page(b, nx) == [kind |-> "page", base |-> b, child |-> Null, right |-> Null, next |-> nx]
Record(kind, p, nx) ==
  [kind |-> kind, base |-> heap[p].base, child |-> p, right |-> Null, next |-> nx]
Merge(p, right) == [Record("merge", p, heap[right].next) EXCEPT !.right = right]
RemoveRecord(id, p) ==
  [kind |-> "remove", base |-> id, child |-> p, right |-> Null, next |-> 0]

(* Something new in memory, where there was nothing before.                *)
Put(h, p, n) == [q \in DOMAIN h \cup {p} |-> IF q = p THEN n ELSE h[q]]

Size(op) == IF op = "post" THEN 2 ELSE 1

NoCall == [op |-> "none", id |-> 0, snap |-> Null, right |-> Null, new |-> Null, newid |-> 0]

(* Two leaves, a record on the first of them; a third NodeID is free, and a *)
(* fourth has been retired with its remove record.                          *)
First == <<1, ChunkSize - Size("post")>>
Init ==
  /\ tail = <<First[2], ChunkSize, 0>>
  /\ next = <<NoBlock, NoBlock, NoBlock>>
  /\ freed = {}
  /\ heap = [p \in {End(1), First, End(2), End(3)} |->
               CASE p = End(1) -> Page(1, 2)
                 [] p = First  -> [Page(1, 2) EXCEPT !.kind = "data", !.child = End(1)]
                 [] p = End(2) -> Page(2, 0)
                 [] p = End(3) -> RemoveRecord(4, Null)]
  /\ table = [[id \in Ids |-> Null] EXCEPT ![1] = First, ![2] = End(2), ![4] = End(3)]
  /\ retired = {[ptr |-> End(3), until |-> {}]}
  /\ data = [i \in Ids |-> IF i = 1 THEN 3 ELSE 0]
  /\ top = [at |-> 1, version |-> 0]
  /\ next_unused = 5
  /\ pc = [t \in Threads |-> "out"]
  /\ call = [t \in Threads |-> NoCall]
  /\ chunk = [t \in Threads |-> NoBlock]
  /\ popped = [t \in Threads |-> NoTop]
  /\ calls = 0
  /\ todo = <<>>
  /\ pushing = NoPush
-----------------------------------------------------------------------------
To(t, label) == pc' = [pc EXCEPT ![t] = label]

Inside == {t \in Threads : pc[t] # "out"}
Garbage(p) == [ptr |-> p, until |-> Inside]

(* LeaveEpoch, with what the call hands to AddGarbageNode.                  *)
Leave(t, garbage) ==
  /\ To(t, "out")
  /\ call' = [call EXCEPT ![t] = NoCall]
  /\ chunk' = [chunk EXCEPT ![t] = NoBlock]
  /\ popped' = [popped EXCEPT ![t] = NoTop]
  /\ retired' = {[r EXCEPT !.until = @ \ {t}] : r \in retired \cup {Garbage(p) : p \in garbage}}

Kind(p) == heap[p].kind
Removed(id) == id # 0 /\ table[id] # Null /\ Kind(table[id]) = "remove"

(* The nodes of the tree, from the leftmost one along the next NodeIDs.     *)
NextId(id) == IF Removed(id) THEN heap[heap[table[id]].child].next ELSE heap[table[id]].next
TreeIds ==
  LET at[i \in Ids] == IF i = 1 THEN 1 ELSE IF at[i - 1] = 0 THEN 0 ELSE NextId(at[i - 1])
  IN {at[i] : i \in Ids} \ {0}

(* JoinEpoch, a snapshot of a node, and what the call has to do there.  A   *)
(* split and a removal begin on a base page, and the leftmost page is never *)
(* removed; a merge takes what the remove record of the right sibling       *)
(* covers.                                                                  *)
Begin(t, op, id, label) ==
  /\ pc[t] = "out" /\ calls < MaxCalls
  /\ id \in TreeIds /\ ~Removed(id)
  /\ calls' = calls + 1
  /\ To(t, label)
  /\ LET snap == table[id]
         right == IF op = "merge" THEN heap[table[heap[snap].next]].child ELSE Null
     IN call' = [call EXCEPT ![t] = [op |-> op, id |-> id, snap |-> snap, right |-> right,
                                     new |-> Null, newid |-> 0]]
  /\ UNCHANGED <<memVars, table, retired, stackVars, popped, cleanVars>>

BaseOf(p) == heap[p].base

StartPost(t, id) ==
  /\ Begin(t, "post", id, "try")
  /\ chunk' = [chunk EXCEPT ![t] = BaseOf(table[id])]

StartConsolidate(t, id) ==
  /\ Begin(t, "consolidate", id, "cas")
  /\ Kind(table[id]) # "page"
  /\ UNCHANGED chunk

StartSplit(t, id) ==
  /\ Begin(t, "split", id, "pop")
  /\ Kind(table[id]) = "page"
  /\ UNCHANGED chunk

StartRemove(t, id) ==
  /\ Begin(t, "remove", id, "cas")
  /\ Kind(table[id]) = "page" /\ id # 1
  /\ UNCHANGED chunk

(* PostLeafMergeNode: the record is allocated with the branch it merges,    *)
(* because the page it stands on is freed before that branch is.            *)
MergeBase_Left(p, right) == BaseOf(p)
MergeBase(p, right) == BaseOf(right)

StartMerge(t, id) ==
  /\ id \in TreeIds /\ ~Removed(id) /\ Removed(heap[table[id]].next)
  /\ Begin(t, "merge", id, "try")
  /\ chunk' = [chunk EXCEPT ![t] = MergeBase(table[id], call'[t].right)]
-----------------------------------------------------------------------------
(* AllocationMeta *)

(* TryAllocate, the guard: a chunk below its limit is not touched again.    *)
TryAllocate_NoGuard(t) ==
  /\ pc[t] = "try"
  /\ To(t, "sub")
  /\ UNCHANGED <<memVars, table, retired, stackVars, call, chunk, popped, calls, cleanVars>>

TryAllocate(t) ==
  /\ pc[t] = "try"
  /\ To(t, IF tail[chunk[t]] < 0 THEN "grow" ELSE "sub")
  /\ UNCHANGED <<memVars, table, retired, stackVars, call, chunk, popped, calls, cleanVars>>

(* ... and the fetch_sub, which may take the tail below the limit.          *)
Take_OldTail(t) ==
  LET at == tail[chunk[t]] - Size(call[t].op)
  IN /\ pc[t] = "sub"
     /\ tail' = [tail EXCEPT ![chunk[t]] = at]
     /\ IF tail[chunk[t]] < 0
        THEN To(t, "grow") /\ UNCHANGED call
        ELSE To(t, "cas") /\ call' = [call EXCEPT ![t].new = <<chunk[t], at>>]
     /\ UNCHANGED <<next, freed, heap, table, retired, stackVars, chunk, popped, calls, cleanVars>>

Take(t) ==
  LET at == tail[chunk[t]] - Size(call[t].op)
  IN /\ pc[t] = "sub"
     /\ tail' = [tail EXCEPT ![chunk[t]] = at]
     /\ IF at < 0
        THEN To(t, "grow") /\ UNCHANGED call
        ELSE To(t, "cas") /\ call' = [call EXCEPT ![t].new = <<chunk[t], at>>]
     /\ UNCHANGED <<next, freed, heap, table, retired, stackVars, chunk, popped, calls, cleanVars>>

(* GrowChunk: go to the next chunk, if there is one.                        *)
GoOn(t) ==
  /\ pc[t] = "grow"
  /\ IF next[chunk[t]] # NoBlock
     THEN To(t, "try") /\ chunk' = [chunk EXCEPT ![t] = next[@]]
     ELSE To(t, "link") /\ UNCHANGED chunk
  /\ UNCHANGED <<memVars, table, retired, stackVars, call, popped, calls, cleanVars>>

(* Mutant: the new chunk is stored over one that another thread linked.     *)
LinkChunk_Store(t) ==
  /\ pc[t] = "link"
  /\ tail' = Append(tail, ChunkSize)
  /\ next' = Append([next EXCEPT ![chunk[t]] = NewBlock], NoBlock)
  /\ chunk' = [chunk EXCEPT ![t] = NewBlock]
  /\ To(t, "try")
  /\ UNCHANGED <<freed, heap, table, retired, stackVars, call, popped, calls, cleanVars>>

(* ... or CAS a new one behind this; the loser deletes its chunk and goes   *)
(* to the winner's.                                                         *)
LinkChunk(t) ==
  /\ pc[t] = "link"
  /\ IF next[chunk[t]] = NoBlock
     THEN /\ tail' = Append(tail, ChunkSize)
          /\ next' = Append([next EXCEPT ![chunk[t]] = NewBlock], NoBlock)
          /\ chunk' = [chunk EXCEPT ![t] = NewBlock]
     ELSE /\ chunk' = [chunk EXCEPT ![t] = next[@]]
          /\ UNCHANGED <<tail, next>>
  /\ To(t, "try")
  /\ UNCHANGED <<freed, heap, table, retired, stackVars, call, popped, calls, cleanVars>>
-----------------------------------------------------------------------------
(* GetNextNodeID *)

(* Pop: load the top, or load it again after a failed CAS.                  *)
Pop(t) ==
  /\ pc[t] = "pop"
  /\ popped' = [popped EXCEPT ![t] = top]
  /\ To(t, IF top.at < 1 THEN "fresh" ELSE "read")
  /\ UNCHANGED <<memVars, table, retired, stackVars, call, chunk, calls, cleanVars>>

PopRead(t) ==
  /\ pc[t] = "read"
  /\ call' = [call EXCEPT ![t].newid = data[popped[t].at]]
  /\ To(t, "popcas")
  /\ UNCHANGED <<memVars, table, retired, stackVars, chunk, popped, calls, cleanVars>>

(* ToNextVersion: the CAS compares the version with the pointer.            *)
NextVersion_Same(v) == v
NextVersion(v) == v + 1

PopCas(t) ==
  /\ pc[t] = "popcas"
  /\ IF top = popped[t]
     THEN /\ top' = [at |-> top.at - 1, version |-> NextVersion(top.version)]
          /\ To(t, "try")
          /\ chunk' = [chunk EXCEPT ![t] = BaseOf(call[t].snap)]
          /\ UNCHANGED <<call, popped>>
     ELSE /\ popped' = [popped EXCEPT ![t] = top]
          /\ call' = [call EXCEPT ![t].newid = 0]
          /\ To(t, IF top.at < 1 THEN "fresh" ELSE "read")
          /\ UNCHANGED <<top, chunk>>
  /\ UNCHANGED <<memVars, table, retired, data, next_unused, calls, cleanVars>>

(* The stack is empty or being pushed to: fetch_add on the counter.         *)
Fresh(t) ==
  /\ pc[t] = "fresh" /\ next_unused <= NumIds
  /\ next_unused' = next_unused + 1
  /\ call' = [call EXCEPT ![t].newid = next_unused]
  /\ To(t, "try")
  /\ chunk' = [chunk EXCEPT ![t] = BaseOf(call[t].snap)]
  /\ UNCHANGED <<memVars, table, retired, data, top, popped, calls, cleanVars>>
-----------------------------------------------------------------------------
(* Posting *)

Matches(t) == table[call[t].id] = call[t].snap

(* A data record: a failed CAS leaves its room in the chunk unused.         *)
PostData(t) ==
  LET c == call[t]
  IN /\ pc[t] = "cas" /\ c.op = "post"
     /\ IF Matches(t)
        THEN /\ heap' = Put(heap, c.new, Record("data", c.snap, heap[c.snap].next))
             /\ table' = [table EXCEPT ![c.id] = c.new]
        ELSE UNCHANGED <<heap, table>>
     /\ Leave(t, {})
     /\ UNCHANGED <<tail, next, freed, stackVars, calls, cleanVars>>

(* ConsolidateNode: the old chain or the new page becomes garbage.          *)
Consolidate(t) ==
  LET c == call[t]
  IN /\ pc[t] = "cas" /\ c.op = "consolidate"
     /\ tail' = Append(tail, ChunkSize)
     /\ next' = Append(next, NoBlock)
     /\ heap' = Put(heap, End(NewBlock), Page(NewBlock, heap[c.snap].next))
     /\ IF Matches(t)
        THEN table' = [table EXCEPT ![c.id] = End(NewBlock)] /\ Leave(t, {c.snap})
        ELSE UNCHANGED table /\ Leave(t, {End(NewBlock)})
     /\ UNCHANGED <<freed, stackVars, calls, cleanVars>>

(* AdjustNodeSize, the split: the new page goes to its NodeID; if the split *)
(* record cannot be posted both are retired, the NodeID in a fake remove    *)
(* record.                                                                  *)
SplitNode(t) ==
  LET c    == call[t]
      page == NewBlock
      fake == NewBlock + 1
  IN /\ pc[t] = "cas" /\ c.op = "split"
     /\ IF Matches(t)
        THEN /\ tail' = Append(tail, ChunkSize)
             /\ next' = Append(next, NoBlock)
             /\ heap' = Put(Put(heap, End(page), Page(page, heap[c.snap].next)),
                             c.new, Record("split", c.snap, c.newid))
             /\ table' = [table EXCEPT ![c.newid] = End(page), ![c.id] = c.new]
             /\ Leave(t, {})
        ELSE /\ tail' = tail \o <<ChunkSize, 0>>
             /\ next' = next \o <<NoBlock, NoBlock>>
             /\ heap' = Put(Put(heap, End(page), Page(page, heap[c.snap].next)),
                             End(fake), RemoveRecord(c.newid, Null))
             /\ table' = [table EXCEPT ![c.newid] = End(page)]
             /\ Leave(t, {End(page), End(fake)})
     /\ UNCHANGED <<freed, stackVars, calls, cleanVars>>

(* AdjustNodeSize, the removal: a record of its own block, or none at all.  *)
RemoveNode(t) ==
  LET c == call[t]
  IN /\ pc[t] = "cas" /\ c.op = "remove"
     /\ IF Matches(t)
        THEN /\ tail' = Append(tail, 0)
             /\ next' = Append(next, NoBlock)
             /\ heap' = Put(heap, End(NewBlock), RemoveRecord(c.id, c.snap))
             /\ table' = [table EXCEPT ![c.id] = End(NewBlock)]
        ELSE UNCHANGED <<tail, next, heap, table>>
     /\ Leave(t, {})
     /\ UNCHANGED <<freed, stackVars, calls, cleanVars>>

(* PostLeafMergeNode and, in the same step, the PostInnerDeleteNode that     *)
(* whoever finishes the merge does before the chain is touched again: it    *)
(* retires the remove record (BwTreeSMO has the two apart).                 *)
MergeNode(t) ==
  LET c == call[t]
  IN /\ pc[t] = "cas" /\ c.op = "merge"
     /\ IF Matches(t)
        THEN /\ heap' = Put(heap, c.new, Merge(c.snap, c.right))
             /\ table' = [table EXCEPT ![c.id] = c.new]
             /\ Leave(t, {table[heap[c.snap].next]})
        ELSE UNCHANGED <<heap, table>> /\ Leave(t, {})
     /\ UNCHANGED <<tail, next, freed, stackVars, calls, cleanVars>>
-----------------------------------------------------------------------------
(* The cleaner *)

ClearEpoch ==
  /\ todo = <<>>
  /\ \E r \in retired :
       /\ r.until = {}
       /\ retired' = retired \ {r}
       /\ todo' = <<[ptr |-> r.ptr, right |-> FALSE]>>
  /\ UNCHANGED <<memVars, table, stackVars, pc, call, chunk, popped, calls, pushing>>

Visit(p) == [ptr |-> p, right |-> FALSE]
Rest == Tail(todo)

(* AllocationMeta::Destroy: the chunks from this one on.                    *)
ChunksFrom(b) ==
  LET at[i \in 1 .. Len(tail)] ==
        IF i = 1 THEN b ELSE IF at[i - 1] = NoBlock THEN NoBlock ELSE next[at[i - 1]]
  IN {at[i] : i \in 1 .. Len(tail)} \ {NoBlock}

(* FreeEpochDeltaChain, one node of it: a merge record is read again for    *)
(* its right branch when its left one has been freed.                       *)
FreeEpochDeltaChain ==
  /\ todo # <<>> /\ pushing = NoPush
  /\ LET v == Head(todo)
         n == heap[v.ptr]
     IN \/ /\ n.kind \in {"data", "split"}
           /\ todo' = <<Visit(n.child)>> \o Rest
           /\ UNCHANGED <<freed, table, pushing>>
        \/ /\ n.kind = "merge" /\ ~v.right
           /\ todo' = <<Visit(n.child), [v EXCEPT !.right = TRUE]>> \o Rest
           /\ UNCHANGED <<freed, table, pushing>>
        \/ /\ n.kind = "merge" /\ v.right
           /\ todo' = <<Visit(n.right)>> \o Rest
           /\ UNCHANGED <<freed, table, pushing>>
        \/ /\ n.kind = "page"
           /\ freed' = freed \cup ChunksFrom(v.ptr[1])
           /\ todo' = Rest
           /\ UNCHANGED <<table, pushing>>
        \/ /\ n.kind = "remove"
           /\ table' = [table EXCEPT ![n.base] = Null]
           /\ pushing' = [top |-> NoTop, id |-> n.base]
           /\ UNCHANGED <<freed, todo>>
  /\ UNCHANGED <<tail, next, heap, retired, stackVars, pc, call, chunk, popped, calls>>

(* SingleThreadPush: the top becomes nullptr, ...                           *)
PreparePush ==
  /\ pushing.id # 0 /\ pushing.top = NoTop
  /\ top' = NoTop
  /\ pushing' = [pushing EXCEPT !.top = top]
  /\ UNCHANGED <<memVars, table, retired, data, next_unused, pc, call, chunk, popped, calls, todo>>

(* ... and with the NodeID written above it returns; the remove record is   *)
(* deleted after that.                                                      *)
SingleThreadPush ==
  LET up == pushing.top.at + 1
  IN /\ pushing.top # NoTop
     /\ data' = [data EXCEPT ![up] = pushing.id]
     /\ top' = [at |-> up, version |-> NextVersion(pushing.top.version)]
     /\ freed' = freed \cup {Head(todo).ptr[1]}
     /\ todo' = Rest
     /\ pushing' = NoPush
     /\ UNCHANGED <<tail, next, heap, table, retired, next_unused, pc, call, chunk, popped, calls>>

Cleaner == ClearEpoch \/ FreeEpochDeltaChain \/ PreparePush \/ SingleThreadPush

Step(t) ==
  \/ TryAllocate(t) \/ Take(t) \/ GoOn(t) \/ LinkChunk(t)
  \/ Pop(t) \/ PopRead(t) \/ PopCas(t) \/ Fresh(t)
  \/ PostData(t) \/ Consolidate(t) \/ SplitNode(t) \/ RemoveNode(t) \/ MergeNode(t)

Start(t) ==
  \E id \in Ids : StartPost(t, id) \/ StartConsolidate(t, id) \/ StartSplit(t, id)
                    \/ StartRemove(t, id) \/ StartMerge(t, id)

(* The bound on calls is reached and everything retired has been freed.     *)
Done ==
  /\ calls = MaxCalls /\ Inside = {} /\ retired = {} /\ todo = <<>>
  /\ UNCHANGED vars

Next == Cleaner \/ Done \/ \E t \in Threads : Start(t) \/ Step(t)

Spec == Init /\ [][Next]_vars
-----------------------------------------------------------------------------
(* Properties *)

RecordSize(kind) == IF kind = "data" THEN 2 ELSE 1

(* The tail of a chunk stays within reach of its limit: each thread takes   *)
(* it below once at most, however many come (the guard of TryAllocate).     *)
TypeOK ==
  /\ \A b \in Blocks : /\ tail[b] \in -2 * Cardinality(Threads) .. ChunkSize
                       /\ next[b] \in Blocks \cup {NoBlock}
  /\ freed \subseteq Blocks
  /\ \A id \in Ids : table[id] \in DOMAIN heap \cup {Null}
  /\ \A r \in retired : r.ptr \in DOMAIN heap /\ r.until \subseteq Threads
  /\ top.at \in -1 .. NumIds /\ next_unused \in 1 .. NumIds + 1

(* Records never overlap, with each other or with what is around the chunk: *)
(* neither those in the tree nor those a thread is about to post.           *)
Places ==
  {[at |-> p, size |-> RecordSize(heap[p].kind)] :
     p \in {q \in DOMAIN heap : heap[q].kind \notin {"page", "remove"}}}
  \cup {[at |-> call[t].new, size |-> Size(call[t].op)] :
          t \in {u \in Threads : call[u].new # Null}}
RecordsApart ==
  /\ \A x \in Places : 0 <= x.at[2] /\ x.at[2] + x.size <= ChunkSize
  /\ \A x, y \in Places : x # y /\ x.at[1] = y.at[1]
       => x.at[2] + x.size <= y.at[2] \/ y.at[2] + y.size <= x.at[2]
  /\ \A t, u \in Threads : call[t].new = call[u].new /\ call[t].new # Null => t = u
  /\ \A t \in Threads : call[t].new \notin DOMAIN heap

(* What is freed with a pointer: its chain, both branches of a merge, and   *)
(* below a remove record only what no merge record has taken over.          *)
Merged(p) == \E q \in DOMAIN heap : heap[q].right = p
Under ==
  LET under[p \in DOMAIN heap] ==
        LET n == heap[p]
        IN {p} \cup (IF n.child = Null \/ (n.kind = "remove" /\ Merged(n.child))
                     THEN {} ELSE under[n.child])
               \cup (IF n.right = Null THEN {} ELSE under[n.right])
  IN under
BlocksUnder(p) ==
  UNION {ChunksFrom(q[1]) : q \in {x \in Under[p] : heap[x].kind \in {"page", "remove"}}}

(* Who will free what: the tree, the garbage lists and the cleaner's walk.  *)
Holders ==
  {[who |-> "tree", of |-> table[id]] : id \in TreeIds}
  \cup {[who |-> "retired", of |-> r.ptr] : r \in retired}
  \cup {[who |-> "cleaner", of |-> IF todo[i].right THEN heap[todo[i].ptr].right
                                                   ELSE todo[i].ptr] : i \in DOMAIN todo}

(* No page, chunk or remove record is lost or freed twice.                  *)
OneHolder ==
  \A b \in Blocks :
    Cardinality({h \in Holders : b \in BlocksUnder(h.of)}) = IF b \in freed THEN 0 ELSE 1

(* Nobody reads what has been freed: not the threads inside the tree, and   *)
(* not the cleaner, which comes back to a merge record after it has freed   *)
(* the page below (the comment in PostLeafMergeNode).                       *)
NoReadOfFreed ==
  /\ \A t \in Inside : \A p \in Under[call[t].snap] : p[1] \notin freed
  /\ \A i \in DOMAIN todo : todo[i].ptr[1] \notin freed

(* Every NodeID that was ever handed out is in one place: on the stack, in  *)
(* the hands of a thread, in the mapping table, or on its way back.         *)
Stack == LET t == IF pushing.top # NoTop THEN pushing.top ELSE top
         IN {i \in Ids : i <= t.at}
Holds(t, id) ==
  call[t].op = "split" /\ pc[t] \in {"try", "sub", "grow", "link", "cas"} /\ call[t].newid = id
IdsConserved ==
  \A id \in Ids :
    Cardinality({i \in Stack : data[i] = id}) + Cardinality({t \in Threads : Holds(t, id)})
      + (IF table[id] # Null THEN 1 ELSE 0) + (IF pushing.id = id THEN 1 ELSE 0)
      = IF id < next_unused THEN 1 ELSE 0

(* A chunk, a page or a NodeID is neither lost nor given back twice.        *)
NothingLost == OneHolder /\ IdsConserved
=============================================================================
