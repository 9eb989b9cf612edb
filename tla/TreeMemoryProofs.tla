-------------------------- MODULE TreeMemoryProofs --------------------------
(* The memory of the tree for every number of threads, NodeIDs and calls    *)
(* and every chunk size: records stay apart in their chunks, a NodeID is    *)
(* always in one place, nobody reads what has been freed, and each block is *)
(* freed by one.  IdInv goes through what a pointer leads to, what a call has *)
(* read of the tree, the line of the next NodeIDs and the remove records that *)
(* carry NodeIDs to the cleaner; MemInv through who will free what.         *)
EXTENDS TreeMemory, FiniteSetTheorems, SequenceTheorems, WellFoundedInduction, TLAPS

-----------------------------------------------------------------------------
Pc  == {"out", "try", "sub", "grow", "link", "pop", "read", "popcas", "fresh", "cas"}
Ops == {"none", "post", "consolidate", "split", "remove", "merge"}
Kinds == {"page", "data", "split", "merge", "remove"}
Allocating == {"post", "split", "merge"}   \* the calls that need a record
InChunks == {"try", "sub", "grow", "link"} \* the places in the allocation
Pairs == Nat \X Nat
Tops  == [at : -1 .. NumIds, version : Nat]
Calls == [op : Ops, id : 0 .. NumIds, snap : Pairs, right : Pairs, new : Pairs,
          newid : 0 .. NumIds]
Pointers == DOMAIN heap

MemTyped ==
  /\ tail \in Seq(Int) /\ next \in Seq(Nat) /\ Len(next) = Len(tail)
  /\ freed \subseteq Blocks
  /\ \A b \in Blocks : next[b] # NoBlock => next[b] \in Blocks /\ next[b] > b
StackTyped ==
  /\ table \in [Ids -> Pairs] /\ data \in [Ids -> 0 .. NumIds]
  /\ top \in Tops /\ next_unused \in 1 .. NumIds + 1
ThreadTyped ==
  /\ pc \in [Threads -> Pc] /\ call \in [Threads -> Calls]
  /\ chunk \in [Threads -> Nat] /\ popped \in [Threads -> Tops]
CleanTyped ==
  /\ retired \subseteq [ptr : Pairs, until : SUBSET Threads]
  /\ todo \in Seq([ptr : Pairs, right : BOOLEAN])
  /\ pushing \in [top : Tops, id : 0 .. NumIds]
Typed == MemTyped /\ StackTyped /\ ThreadTyped /\ CleanTyped

(* What a pointer leads to, and what is below that. *)
IsNode(p) == p \in Pointers /\ Kind(p) # "remove"
NodeOK(p) ==
  LET n == heap[p] IN
  /\ p \in Pairs /\ p[1] \in Blocks /\ n.kind \in Kinds
  /\ n.kind \in {"page", "remove"} <=> p[2] = ChunkSize
  /\ n.kind = "remove" =>
       n.base \in Ids /\ (n.child = Null \/ IsNode(n.child)) /\ n.right = Null
  /\ n.kind # "remove" => n.next \in 0 .. NumIds /\ n.base \in Blocks
  /\ n.kind = "page" => n.base = p[1] /\ n.child = Null /\ n.right = Null
  /\ n.kind \in {"data", "split", "merge"} => IsNode(n.child) /\ n.base = heap[n.child].base
  /\ n.kind \in {"data", "split"} => n.right = Null
  /\ n.kind = "merge" => IsNode(n.right)
HeapOK == \A p \in Pointers : NodeOK(p)

(* Nodes on their way to the cleaner or in its hands, and the NodeIDs that  *)
(* remove records among them will give back.                                *)
Dead == {r.ptr : r \in retired} \cup {todo[i].ptr : i \in DOMAIN todo}
Dying(id) == \E p \in Dead : Kind(p) = "remove" /\ heap[p].base = id
Live == {id \in Ids : table[id] # Null /\ ~Dying(id)}

PointersOK ==
  /\ \A id \in Ids : table[id] = Null \/ table[id] \in Pointers
  /\ Dead \subseteq Pointers
  /\ \A i \in DOMAIN todo : todo[i].right => Kind(todo[i].ptr) = "merge"

(* What a call has, by where it is. *)
CallOK(t) ==
  LET c == call[t] IN
  /\ pc[t] = "out" => c = NoCall
  /\ pc[t] # "out" => c.op # "none" /\ c.id \in Ids /\ IsNode(c.snap)
  /\ pc[t] \in {"pop", "read", "popcas", "fresh"} => c.op = "split"
  /\ pc[t] \in InChunks => c.op \in Allocating /\ chunk[t] \in Blocks
  /\ c.op \in {"split", "remove"} => Kind(c.snap) = "page"
  /\ c.op = "remove" => c.id # 1
  /\ c.op = "merge" => IsNode(c.right)
  /\ c.new # Null <=> pc[t] = "cas" /\ c.op \in Allocating
CallsOK == \A t \in Threads : CallOK(t)

(* Records lie above the tail of their chunk, beside each other. *)
InChunk(p, size) ==
  p[1] \in Blocks /\ tail[p[1]] <= p[2] /\ 0 <= p[2] /\ p[2] + size <= ChunkSize
Beside(p, m, q, n) == p[1] # q[1] \/ p[2] + m <= q[2] \/ q[2] + n <= p[2]
IsRecord(p) == p \in Pointers /\ Kind(p) \notin {"page", "remove"}
SizeAt(p) == RecordSize(Kind(p))
Taken == {t \in Threads : call[t].new # Null}
SizeOf(t) == Size(call[t].op)
ChunksOK ==
  /\ \A p \in Pointers : IsRecord(p) => InChunk(p, SizeAt(p))
  /\ \A t \in Taken : InChunk(call[t].new, SizeOf(t))
  /\ \A p, q \in Pointers : IsRecord(p) /\ IsRecord(q) /\ p # q => Beside(p, SizeAt(p), q, SizeAt(q))
  /\ \A t \in Taken, p \in Pointers : IsRecord(p) => Beside(call[t].new, SizeOf(t), p, SizeAt(p))
  /\ \A t, u \in Taken : t # u => Beside(call[t].new, SizeOf(t), call[u].new, SizeOf(u))

(* Each thread in the middle of TryAllocate may lower a tail once more. *)
Subtracting(b) == {t \in Threads : pc[t] = "sub" /\ chunk[t] = b}
TailsOK ==
  \A b \in Blocks : /\ tail[b] <= ChunkSize
                    /\ -2 * Cardinality(Threads) <= tail[b] - 2 * Cardinality(Subtracting(b))

(* The nodes of the tree form a line that begins with the first. *)
Reached ==
  \A S \in SUBSET Ids :
    1 \in S /\ (\A id \in Live : id \in S /\ NextId(id) # 0 => NextId(id) \in S) => Live \subseteq S
TreeOK ==
  /\ 1 \in Live /\ ~Removed(1)
  /\ \A id \in Live : NextId(id) \in (Live \ {1}) \cup {0}
  /\ \A x, y \in Live : NextId(x) = NextId(y) /\ NextId(x) # 0 => x = y
  /\ \A id \in Live : Removed(id) => heap[table[id]].base = id /\ IsNode(heap[table[id]].child)
  /\ Reached

(* What a call has read of the tree, while its CAS can still succeed. *)
SnapOK(t) ==
  LET c == call[t] IN
  pc[t] # "out" /\ Matches(t) =>
    /\ c.id \in Live
    /\ c.op = "merge" => /\ Removed(heap[c.snap].next)
                         /\ heap[table[heap[c.snap].next]].child = c.right
SnapsOK == \A t \in Threads : SnapOK(t)

(* The remove records that the cleaner will meet: one for a NodeID. *)
IsRemove(p) == Kind(p) = "remove"
DyingOK ==
  /\ \A r, q \in retired : IsRemove(r.ptr) /\ IsRemove(q.ptr) /\ heap[r.ptr].base = heap[q.ptr].base
                             => r = q
  /\ \A i \in DOMAIN todo : IsRemove(todo[i].ptr) =>
       /\ Len(todo) = 1
       /\ \A r \in retired : IsRemove(r.ptr) => heap[r.ptr].base # heap[todo[i].ptr].base
  /\ \A p \in Dead : IsRemove(p) => table[heap[p].base] # Null \/ heap[p].base = pushing.id

(* The top of the stack, or what the cleaner has taken away to put a new    *)
(* one in its place.                                                        *)
CurTop == IF pushing.top # NoTop THEN pushing.top ELSE top
PushOK ==
  /\ top = NoTop <=> pushing.top # NoTop
  /\ CurTop.at >= 0
  /\ pushing.top # NoTop => pushing.id # 0
  /\ pushing.id # 0 => /\ todo # <<>> /\ IsRemove(Head(todo).ptr)
                       /\ heap[Head(todo).ptr].base = pushing.id
                       /\ table[pushing.id] = Null

(* A snapshot of the top with the version of the top is the top. *)
PopOK(t) ==
  /\ popped[t].version <= CurTop.version
  /\ pc[t] \in {"read", "popcas"} =>
       popped[t].at >= 1 /\ (popped[t].version = CurTop.version => popped[t] = CurTop)
  /\ pc[t] = "popcas" /\ popped[t] = CurTop => call[t].newid = data[CurTop.at]
PopsOK == \A t \in Threads : PopOK(t)

(* A NodeID is in one place. *)
HeldBy(t)   == call[t].op = "split" /\ pc[t] \in InChunks \cup {"cas"}
OnStack(id) == \E i \in 1 .. CurTop.at : data[i] = id
InHand(id)  == \E t \in Threads : HeldBy(t) /\ call[t].newid = id
IdsOK ==
  /\ \A i \in 1 .. CurTop.at : data[i] \in Ids
  /\ \A i, j \in 1 .. CurTop.at : data[i] = data[j] => i = j
  /\ \A t \in Threads : HeldBy(t) => call[t].newid \in Ids
  /\ \A t, u \in Threads : HeldBy(t) /\ HeldBy(u) /\ call[t].newid = call[u].newid => t = u
  /\ \A id \in Ids :
       /\ OnStack(id) => ~InHand(id) /\ table[id] = Null /\ pushing.id # id
       /\ InHand(id) => table[id] = Null /\ pushing.id # id
       /\ id < next_unused <=> OnStack(id) \/ InHand(id) \/ table[id] # Null \/ pushing.id = id

IdInv ==
  /\ Typed /\ HeapOK /\ PointersOK /\ CallsOK /\ ChunksOK /\ TailsOK
  /\ TreeOK /\ SnapsOK /\ DyingOK /\ PushOK /\ PopsOK /\ IdsOK

-----------------------------------------------------------------------------
LEMMA Constants ==
  /\ ChunkSize \in Nat /\ ChunkSize >= 2 /\ NumIds \in Nat /\ NumIds >= 4
  /\ IsFiniteSet(Threads) /\ Cardinality(Threads) \in Nat
  /\ Ids = 1 .. NumIds /\ 0 \notin Ids /\ 1 \in Ids
  /\ Null = <<0, 0>> /\ Null \in Pairs /\ NoTop \in Tops /\ NoCall \in Calls
  /\ NoTop.at = -1 /\ NoTop.version = 0 /\ NoCall.new = Null
BY SizeAssumption, ThreadAssumption, FS_CardinalityType
   DEF Ids, Null, Pairs, NoTop, Tops, NoCall, Calls, Ops

LEMMA PutIs ==
  ASSUME NEW h, NEW p, NEW n
  PROVE  /\ DOMAIN Put(h, p, n) = DOMAIN h \cup {p}
         /\ Put(h, p, n)[p] = n
         /\ \A q \in DOMAIN h : q # p => Put(h, p, n)[q] = h[q]
BY DEF Put

LEMMA BlocksAre == MemTyped => /\ Blocks = 1 .. Len(tail) /\ Len(tail) \in Nat
                               /\ NewBlock = Len(tail) + 1 /\ NewBlock \in Nat
                               /\ NewBlock \notin Blocks /\ 0 \notin Blocks
                               /\ \A b \in Blocks : b \in Nat /\ tail[b] \in Int /\ next[b] \in Nat
BY DEF MemTyped, Blocks, NewBlock

-----------------------------------------------------------------------------
(* The beginning. *)

LEMMA InitHeap ==
  ASSUME Init
  PROVE  /\ Blocks = 1 .. 3 /\ First = <<1, ChunkSize - 2>>
         /\ tail[1] = ChunkSize - 2 /\ tail[2] = ChunkSize /\ tail[3] = 0
         /\ Pointers = {End(1), First, End(2), End(3)}
         /\ heap[End(1)] = Page(1, 2) /\ heap[End(2)] = Page(2, 0)
         /\ heap[End(3)] = RemoveRecord(4, Null)
         /\ heap[First] = [kind |-> "data", base |-> 1, child |-> End(1), right |-> Null, next |-> 2]
         /\ End(1) # First /\ End(1) # End(2) /\ End(1) # End(3) /\ End(2) # First
         /\ End(3) # First /\ End(2) # End(3)
         /\ \A p \in Pointers : p # Null
<1>1. First = <<1, ChunkSize - 2>>
  BY DEF First, Size
<1>2. /\ End(1) # First /\ End(1) # End(2) /\ End(1) # End(3) /\ End(2) # First
      /\ End(3) # First /\ End(2) # End(3)
      /\ End(1) # Null /\ End(2) # Null /\ End(3) # Null /\ First # Null
  BY <1>1, Constants DEF End
<1>3. /\ Pointers = {End(1), First, End(2), End(3)}
      /\ heap[End(1)] = Page(1, 2) /\ heap[End(2)] = Page(2, 0)
      /\ heap[End(3)] = RemoveRecord(4, Null)
      /\ heap[First] = [Page(1, 2) EXCEPT !.kind = "data", !.child = End(1)]
  BY <1>2 DEF Init, Pointers
<1>4. heap[First] = [kind |-> "data", base |-> 1, child |-> End(1), right |-> Null, next |-> 2]
  BY <1>3 DEF Page
<1>5. Blocks = 1 .. 3 /\ tail[1] = ChunkSize - 2 /\ tail[2] = ChunkSize /\ tail[3] = 0
  BY <1>1 DEF Init, Blocks
<1> QED BY <1>1, <1>2, <1>3, <1>4, <1>5

LEMMA InitTable ==
  ASSUME Init
  PROVE  /\ table \in [Ids -> Pairs] /\ table[1] = First /\ table[2] = End(2) /\ table[4] = End(3)
         /\ \A id \in Ids \ {1, 2, 4} : table[id] = Null
         /\ Dead = {End(3)} /\ Live = {1, 2} /\ 2 \in Ids /\ 4 \in Ids
<1>1. First \in Pairs /\ End(2) \in Pairs /\ End(3) \in Pairs /\ 2 \in Ids /\ 4 \in Ids /\ 1 \in Ids
  BY InitHeap, Constants DEF End, Pairs
<1>2. /\ table \in [Ids -> Pairs] /\ table[1] = First /\ table[2] = End(2) /\ table[4] = End(3)
      /\ \A id \in Ids \ {1, 2, 4} : table[id] = Null
  <2>1. table = [[id \in Ids |-> Null] EXCEPT ![1] = First, ![2] = End(2), ![4] = End(3)]
    BY DEF Init
  <2>2. Null \in Pairs
    BY Constants
  <2> QED BY ONLY <2>1, <2>2, <1>1
<1>3. Dead = {End(3)}
  BY DEF Init, Dead
<1>4. \A id : Dying(id) <=> id = 4
  BY <1>3, InitHeap DEF Dying, Kind, RemoveRecord
<1>5. Live = {1, 2}
  BY <1>1, <1>2, <1>4, InitHeap DEF Live
<1> QED BY <1>1, <1>2, <1>3, <1>5

LEMMA InitTyped == Init => Typed
<1> SUFFICES ASSUME Init PROVE Typed
  OBVIOUS
<1>1. MemTyped
  BY Constants, InitHeap DEF Init, MemTyped, Blocks, NoBlock
<1>2. StackTyped
  <2>1. 3 \in 0 .. NumIds /\ 0 \in 0 .. NumIds /\ 1 \in -1 .. NumIds /\ 5 \in 1 .. NumIds + 1
    BY Constants
  <2>2. data \in [Ids -> 0 .. NumIds] /\ top \in Tops /\ next_unused \in 1 .. NumIds + 1
    BY <2>1 DEF Init, Tops
  <2> QED BY <2>2, InitTable DEF StackTyped
<1>3. ThreadTyped
  BY Constants DEF Init, ThreadTyped, Pc, NoBlock
<1>4. CleanTyped
  BY Constants, InitHeap DEF Init, CleanTyped, NoPush, End, Pairs
<1> QED BY <1>1, <1>2, <1>3, <1>4 DEF Typed

LEMMA InitHeapOK == Init => HeapOK /\ PointersOK
<1> SUFFICES ASSUME Init PROVE HeapOK /\ PointersOK
  OBVIOUS
<1>1. NodeOK(End(1)) /\ NodeOK(End(2))
  BY InitHeap, Constants DEF NodeOK, Page, Kinds, End, Pairs
<1>2. NodeOK(End(3))
  <2>1. heap[End(3)] = [kind |-> "remove", base |-> 4, child |-> Null, right |-> Null, next |-> 0]
    BY InitHeap DEF RemoveRecord
  <2>2. End(3) \in Pairs /\ End(3)[1] = 3 /\ End(3)[2] = ChunkSize /\ 3 \in Blocks
    BY InitHeap, Constants DEF End, Pairs
  <2> QED BY <2>1, <2>2, InitTable DEF NodeOK, Kinds
<1>3. NodeOK(First)
  <2>1. IsNode(End(1)) /\ heap[End(1)].base = 1
    BY InitHeap DEF IsNode, Kind, Page
  <2> QED BY <2>1, InitHeap, InitTable, Constants DEF NodeOK, Kinds, Pairs
<1>4. PointersOK
  BY InitHeap, InitTable DEF PointersOK, Init
<1> QED BY <1>1, <1>2, <1>3, <1>4, InitHeap DEF HeapOK

LEMMA InitRest == Init => CallsOK /\ ChunksOK /\ TailsOK
<1> SUFFICES ASSUME Init PROVE CallsOK /\ ChunksOK /\ TailsOK
  OBVIOUS
<1>1. CallsOK
  BY Constants DEF Init, CallsOK, CallOK, NoCall, InChunks
<1>2. ChunksOK
  <2>1. Taken = {}
    BY Constants DEF Init, Taken
  <2>2. \A p \in Pointers : IsRecord(p) => p = First
    BY InitHeap DEF IsRecord, Kind, Page, RemoveRecord
  <2>3. InChunk(First, SizeAt(First))
    BY InitHeap, Constants DEF InChunk, SizeAt, Kind, RecordSize
  <2> QED BY <2>1, <2>2, <2>3 DEF ChunksOK
<1>3. TailsOK
  <2>1. \A b \in Blocks : Subtracting(b) = {}
    BY DEF Init, Subtracting
  <2>2. Cardinality({}) = 0
    BY FS_EmptySet
  <2>3. PICK n \in Nat : n = Cardinality(Threads)
    BY Constants
  <2>4. \A b \in Blocks : tail[b] <= ChunkSize /\ -2 * n <= tail[b] - 2 * 0
    BY InitHeap, Constants
  <2> QED BY <2>1, <2>2, <2>3, <2>4 DEF TailsOK
<1> QED BY <1>1, <1>2, <1>3

LEMMA InitIds == Init => TreeOK /\ SnapsOK /\ DyingOK /\ PushOK /\ PopsOK /\ IdsOK
<1> SUFFICES ASSUME Init PROVE TreeOK /\ SnapsOK /\ DyingOK /\ PushOK /\ PopsOK /\ IdsOK
  OBVIOUS
<1>1. TreeOK
  <2>1. ~Removed(1) /\ ~Removed(2)
    BY InitHeap, InitTable DEF Removed, Kind, Page
  <2>2. NextId(1) = 2 /\ NextId(2) = 0
    BY <2>1, InitHeap, InitTable DEF NextId, Page
  <2>3. Live = {1, 2}
    BY InitTable
  <2>4. Reached
    BY <2>2, <2>3 DEF Reached
  <2> QED BY <2>1, <2>2, <2>4, InitTable DEF TreeOK
<1>2. SnapsOK
  BY DEF Init, SnapsOK, SnapOK
<1>3. CurTop = [at |-> 1, version |-> 0] /\ CurTop.at = 1 /\ CurTop.version = 0 /\ top # NoTop
      /\ pushing.top = NoTop /\ pushing.id = 0
  BY Constants DEF Init, CurTop, NoPush
<1>4. DyingOK
  <2>1. retired = {[ptr |-> End(3), until |-> {}]} /\ DOMAIN todo = {}
    BY DEF Init
  <2>2. heap[End(3)].base = 4 /\ table[4] # Null
    BY InitHeap, InitTable DEF RemoveRecord
  <2> QED BY <2>1, <2>2, InitTable DEF DyingOK
<1>5. PushOK
  BY <1>3 DEF PushOK
<1>6. PopsOK
  BY <1>3, Constants DEF Init, PopsOK, PopOK
<1>7. IdsOK
  <2>1. \A i : i \in 1 .. CurTop.at <=> i = 1
    BY <1>3
  <2>2. data[1] = 3 /\ 3 \in Ids /\ next_unused = 5
    BY Constants DEF Init
  <2>3. \A t \in Threads : ~HeldBy(t)
    BY DEF Init, HeldBy, InChunks
  <2>4. \A id \in Ids : (OnStack(id) <=> id = 3) /\ ~InHand(id) /\ pushing.id # id
    BY <1>3, <2>1, <2>2, <2>3, Constants DEF OnStack, InHand
  <2>5. \A id \in Ids : table[id] = Null <=> id \notin {1, 2, 4}
    BY InitTable, InitHeap
  <2>6. \A id \in Ids : id < 5 <=> id \in {1, 2, 3, 4}
    BY Constants
  <2> QED BY <2>1, <2>2, <2>3, <2>4, <2>5, <2>6 DEF IdsOK
<1> QED BY <1>1, <1>2, <1>4, <1>5, <1>6, <1>7

LEMMA InitIdInv == Init => IdInv
BY InitTyped, InitHeapOK, InitRest, InitIds DEF IdInv

-----------------------------------------------------------------------------
(* The chunks from one on. *)

LEMMA LeastOf ==
  ASSUME NEW S \in SUBSET Nat, S # {}
  PROVE  \E x \in S : \A y \in S : x <= y
<1>1. \E x \in S : \A y \in S : ~(<<y, x>> \in OpToRel(<, Nat))
  BY NatLessThanWellFounded, WFMin
<1>2. \A x, y \in Nat : y < x => <<y, x>> \in OpToRel(<, Nat)
  BY DEF OpToRel
<1>3. PICK x \in S : \A y \in S : ~(y < x)
  BY <1>1, <1>2
<1>4. \A y \in S : x <= y
  BY <1>3
<1> QED BY <1>4

(* The first n chunks from b on, and 0 after the last. *)
Walk(f, b, n) ==
  f = [i \in 1 .. n |-> IF i = 1 THEN b ELSE IF f[i - 1] = NoBlock THEN NoBlock ELSE next[f[i - 1]]]

LEMMA WalkExists ==
  ASSUME NEW b, NEW m \in Nat
  PROVE  \E f : Walk(f, b, m)
<1> DEFINE Bad == {n \in Nat : ~\E f : Walk(f, b, n)}
<1> SUFFICES ASSUME Bad # {} PROVE FALSE
  OBVIOUS
<1>1. PICK n \in Bad : \A k \in Bad : n <= k
  <2>1. Bad \in SUBSET Nat
    OBVIOUS
  <2> HIDE DEF Bad
  <2> QED BY <2>1, LeastOf
<1>2. CASE n = 0
  <2>1. Walk([i \in 1 .. 0 |-> b], b, 0)
    BY DEF Walk
  <2> QED BY <1>1, <1>2, <2>1
<1>3. CASE n # 0
  <2>1. n - 1 \in Nat /\ n - 1 \notin Bad
    BY <1>1, <1>3
  <2>2. PICK f : Walk(f, b, n - 1)
    BY <2>1
  <2> DEFINE g == [i \in 1 .. n |-> IF i = 1 THEN b ELSE IF f[i - 1] = NoBlock THEN NoBlock
                                                                        ELSE next[f[i - 1]]]
  <2>3. \A i \in 1 .. n - 1 : g[i] = f[i]
    BY <2>1, <2>2 DEF Walk
  <2>4. \A i \in 1 .. n : i # 1 => i - 1 \in 1 .. n - 1
    BY <2>1
  <2>5. Walk(g, b, n)
    BY <2>3, <2>4 DEF Walk
  <2> QED BY <1>1, <2>5
<1> QED BY <1>2, <1>3

LEMMA ChunksWalk ==
  ASSUME MemTyped, NEW b
  PROVE  \E f : Walk(f, b, Len(tail)) /\ ChunksFrom(b) = {f[i] : i \in 1 .. Len(tail)} \ {NoBlock}
<1>1. \E f : Walk(f, b, Len(tail))
  BY WalkExists, BlocksAre
<1> DEFINE w == CHOOSE at : at = [i \in 1 .. Len(tail) |->
              IF i = 1 THEN b ELSE IF at[i - 1] = NoBlock THEN NoBlock ELSE next[at[i - 1]]]
<1>2. Walk(w, b, Len(tail))
  BY <1>1, Zenon DEF Walk
<1>3. ChunksFrom(b) = {w[i] : i \in 1 .. Len(tail)} \ {NoBlock}
  BY Zenon DEF ChunksFrom
<1> QED BY <1>2, <1>3

(* ChunksFrom(b) is the least set that has b and is closed under next. *)
LEMMA WalkIs ==
  ASSUME MemTyped, NEW b \in Blocks, NEW f, Walk(f, b, Len(tail))
  PROVE  /\ f[1] = b /\ 1 \in 1 .. Len(tail)
         /\ \A i \in 1 .. Len(tail) : f[i] # NoBlock => f[i] \in Blocks /\ f[i] >= i
         /\ \A i \in 1 .. Len(tail) : i # 1 =>
              f[i] = IF f[i - 1] = NoBlock THEN NoBlock ELSE next[f[i - 1]]
<1>1. 1 \in 1 .. Len(tail) /\ b \in Nat /\ b >= 1 /\ Len(tail) \in Nat
  BY BlocksAre
<1>2. f[1] = b /\ \A i \in 1 .. Len(tail) : i # 1 =>
                    f[i] = IF f[i - 1] = NoBlock THEN NoBlock ELSE next[f[i - 1]]
  BY <1>1 DEF Walk
<1> DEFINE Bad == {i \in 1 .. Len(tail) : ~(f[i] # NoBlock => f[i] \in Blocks /\ f[i] >= i)}
<1>3. Bad = {}
  <2> SUFFICES ASSUME Bad # {} PROVE FALSE
    OBVIOUS
  <2>1. PICK i \in Bad : \A j \in Bad : i <= j
    <3>1. Bad \in SUBSET Nat
      OBVIOUS
    <3> HIDE DEF Bad
    <3> QED BY <3>1, LeastOf
  <2>2. i # 1
    BY <1>1, <1>2, <2>1
  <2>3. i - 1 \in 1 .. Len(tail) /\ i - 1 \notin Bad
    BY <1>1, <2>1, <2>2
  <2>4. f[i] # NoBlock => f[i - 1] # NoBlock /\ f[i] = next[f[i - 1]]
    BY <1>2, <2>1, <2>2
  <2>5. f[i - 1] # NoBlock => f[i - 1] \in Blocks /\ f[i - 1] >= i - 1
    BY <2>3
  <2>6. f[i] # NoBlock => f[i] \in Blocks /\ f[i] > f[i - 1] /\ f[i] \in Nat /\ f[i - 1] \in Nat
    BY <2>4, <2>5, BlocksAre DEF MemTyped
  <2>7. f[i] # NoBlock => f[i] >= i
    BY <2>5, <2>4, <2>6, <2>1
  <2> QED BY <2>1, <2>6, <2>7
<1> QED BY <1>1, <1>2, <1>3

LEMMA ChunksAre ==
  ASSUME MemTyped, NEW b \in Blocks
  PROVE  /\ b \in ChunksFrom(b) /\ ChunksFrom(b) \subseteq Blocks
         /\ \A a \in ChunksFrom(b) : next[a] # NoBlock => next[a] \in ChunksFrom(b)
<1>1. PICK f : Walk(f, b, Len(tail)) /\ ChunksFrom(b) = {f[i] : i \in 1 .. Len(tail)} \ {NoBlock}
  BY ChunksWalk
<1>2. /\ f[1] = b /\ 1 \in 1 .. Len(tail)
      /\ \A i \in 1 .. Len(tail) : f[i] # NoBlock => f[i] \in Blocks /\ f[i] >= i
      /\ \A i \in 1 .. Len(tail) : i # 1 =>
           f[i] = IF f[i - 1] = NoBlock THEN NoBlock ELSE next[f[i - 1]]
  BY <1>1, WalkIs
<1>3. b # NoBlock
  BY BlocksAre DEF NoBlock
<1>4. ASSUME NEW a \in ChunksFrom(b), next[a] # NoBlock PROVE next[a] \in ChunksFrom(b)
  <2>1. PICK i \in 1 .. Len(tail) : a = f[i] /\ f[i] # NoBlock
    BY <1>1
  <2>2. a \in Blocks /\ a >= i /\ next[a] \in Blocks /\ next[a] > a
    BY <1>2, <1>4, <2>1 DEF MemTyped
  <2>3. i + 1 \in 1 .. Len(tail) /\ i + 1 # 1 /\ (i + 1) - 1 = i
    BY <2>2, BlocksAre
  <2>4. f[i + 1] = next[a]
    BY <1>2, <2>1, <2>3
  <2> QED BY <1>1, <1>4, <2>3, <2>4
<1> QED BY <1>1, <1>2, <1>3, <1>4

LEMMA ChunksLeast ==
  ASSUME MemTyped, NEW b \in Blocks, NEW S, b \in S,
         \A a \in Blocks : a \in S /\ next[a] # NoBlock => next[a] \in S
  PROVE  ChunksFrom(b) \subseteq S
<1>1. PICK f : Walk(f, b, Len(tail)) /\ ChunksFrom(b) = {f[i] : i \in 1 .. Len(tail)} \ {NoBlock}
  BY ChunksWalk
<1>2. /\ f[1] = b /\ 1 \in 1 .. Len(tail)
      /\ \A i \in 1 .. Len(tail) : f[i] # NoBlock => f[i] \in Blocks /\ f[i] >= i
      /\ \A i \in 1 .. Len(tail) : i # 1 =>
           f[i] = IF f[i - 1] = NoBlock THEN NoBlock ELSE next[f[i - 1]]
  BY <1>1, WalkIs
<1> DEFINE Bad == {i \in 1 .. Len(tail) : ~(f[i] # NoBlock => f[i] \in S)}
<1> SUFFICES ASSUME Bad # {} PROVE FALSE
  BY <1>1
<1>3. PICK i \in Bad : \A j \in Bad : i <= j
  <2>1. Bad \in SUBSET Nat
    OBVIOUS
  <2> HIDE DEF Bad
  <2> QED BY <2>1, LeastOf
<1>4. i # 1
  BY <1>2, <1>3
<1>5. i - 1 \in 1 .. Len(tail) /\ i - 1 \notin Bad
  BY <1>3, <1>4, BlocksAre
<1>6. f[i] # NoBlock /\ f[i] \notin S /\ f[i - 1] # NoBlock /\ f[i] = next[f[i - 1]]
  BY <1>2, <1>3, <1>4
<1>7. f[i - 1] \in S /\ f[i - 1] \in Blocks
  BY <1>2, <1>5, <1>6
<1> QED BY <1>6, <1>7

(* Both, of every block, now and after a step. *)
ChunksFact ==
  MemTyped => \A b \in Blocks :
    /\ b \in ChunksFrom(b) /\ ChunksFrom(b) \subseteq Blocks
    /\ \A a \in ChunksFrom(b) : next[a] # NoBlock => next[a] \in ChunksFrom(b)
    /\ \A S : b \in S /\ (\A a \in Blocks : a \in S /\ next[a] # NoBlock => next[a] \in S)
                => ChunksFrom(b) \subseteq S

LEMMA ChunksNow == ChunksFact
BY ChunksAre, ChunksLeast DEF ChunksFact

LEMMA ChunksThen == ChunksFact'
BY ChunksNow, PTL

-----------------------------------------------------------------------------
(* The nodes of the tree. *)

(* The first n NodeIDs of the tree, and 0 after the last. *)
Line(f, n) ==
  f = [i \in 1 .. n |-> IF i = 1 THEN 1 ELSE IF f[i - 1] = 0 THEN 0 ELSE NextId(f[i - 1])]

LEMMA LineExists == ASSUME NEW m \in Nat PROVE \E f : Line(f, m)
<1> DEFINE Bad == {n \in Nat : ~\E f : Line(f, n)}
<1> SUFFICES ASSUME Bad # {} PROVE FALSE
  OBVIOUS
<1>1. PICK n \in Bad : \A k \in Bad : n <= k
  <2>1. Bad \in SUBSET Nat
    OBVIOUS
  <2> HIDE DEF Bad
  <2> QED BY <2>1, LeastOf
<1>2. CASE n = 0
  <2>1. Line([i \in 1 .. 0 |-> 1], 0)
    BY DEF Line
  <2> QED BY <1>1, <1>2, <2>1
<1>3. CASE n # 0
  <2>1. n - 1 \in Nat /\ n - 1 \notin Bad
    BY <1>1, <1>3
  <2>2. PICK f : Line(f, n - 1)
    BY <2>1
  <2> DEFINE g == [i \in 1 .. n |-> IF i = 1 THEN 1 ELSE IF f[i - 1] = 0 THEN 0
                                                                    ELSE NextId(f[i - 1])]
  <2>3. \A i \in 1 .. n - 1 : g[i] = f[i]
    BY <2>1, <2>2 DEF Line
  <2>4. \A i \in 1 .. n : i # 1 => i - 1 \in 1 .. n - 1
    BY <2>1
  <2>5. Line(g, n)
    BY <2>3, <2>4 DEF Line
  <2> QED BY <1>1, <2>5
<1> QED BY <1>2, <1>3

LEMMA TreeLine == \E f : Line(f, NumIds) /\ TreeIds = {f[i] : i \in 1 .. NumIds} \ {0}
<1>1. \E f : Line(f, NumIds)
  BY LineExists, Constants
<1> DEFINE w == CHOOSE at : at = [i \in 1 .. NumIds |->
              IF i = 1 THEN 1 ELSE IF at[i - 1] = 0 THEN 0 ELSE NextId(at[i - 1])]
<1>2. Line(w, NumIds)
  BY <1>1, Zenon DEF Line
<1>3. TreeIds = {w[i] : i \in 1 .. NumIds} \ {0}
  BY Zenon DEF TreeIds, Ids
<1> QED BY <1>2, <1>3

LEMMA LineLive ==
  ASSUME TreeOK, NEW f, Line(f, NumIds)
  PROVE  /\ f[1] = 1
         /\ \A i \in 1 .. NumIds : f[i] \in Live \cup {0}
         /\ \A i \in 1 .. NumIds : i # 1 => f[i] = IF f[i - 1] = 0 THEN 0 ELSE NextId(f[i - 1])
<1>1. f[1] = 1 /\ \A i \in 1 .. NumIds : i # 1 => f[i] = IF f[i - 1] = 0 THEN 0 ELSE NextId(f[i - 1])
  BY Constants DEF Line
<1> DEFINE Bad == {i \in 1 .. NumIds : f[i] \notin Live \cup {0}}
<1>2. Bad = {}
  <2> SUFFICES ASSUME Bad # {} PROVE FALSE
    OBVIOUS
  <2>1. PICK i \in Bad : \A j \in Bad : i <= j
    <3>1. Bad \in SUBSET Nat
      OBVIOUS
    <3> HIDE DEF Bad
    <3> QED BY <3>1, LeastOf
  <2>2. i # 1
    BY <1>1, <2>1 DEF TreeOK
  <2>3. i - 1 \in 1 .. NumIds /\ i - 1 \notin Bad
    BY <2>1, <2>2, Constants
  <2>4. f[i - 1] # 0 /\ f[i] = NextId(f[i - 1]) /\ f[i - 1] \in Live
    BY <1>1, <2>1, <2>2, <2>3
  <2> QED BY <2>1, <2>4 DEF TreeOK
<1> QED BY <1>1, <1>2

LEMMA TreeIdsLive == TreeOK => TreeIds \subseteq Live
BY TreeLine, LineLive

-----------------------------------------------------------------------------
(* What the places of a call say. *)

LEMMA LiveIs ==
  ASSUME Typed, HeapOK, PointersOK, NEW id \in Live
  PROVE  /\ id \in Ids /\ id # 0 /\ table[id] \in Pointers /\ table[id] # Null /\ ~Dying(id)
         /\ NodeOK(table[id])
         /\ ~Removed(id) => IsNode(table[id]) /\ heap[table[id]].next = NextId(id)
BY Constants DEF Live, PointersOK, HeapOK, Removed, IsNode, NextId, Kind

LEMMA NullNowhere == HeapOK /\ MemTyped => Null \notin Pointers
BY BlocksAre, Constants DEF HeapOK, NodeOK

LEMMA NewPlace ==
  ASSUME Typed, HeapOK, CallsOK, ChunksOK, NEW t \in Taken
  PROVE  /\ call[t].new \notin Pointers /\ call[t].new # Null /\ call[t].new \in Pairs
         /\ call[t].new[1] \in Blocks /\ call[t].new[2] # ChunkSize
         /\ pc[t] = "cas" /\ call[t].op \in Allocating
<1>1. /\ t \in Threads /\ call[t] \in Calls /\ call[t].new \in Pairs /\ call[t].new # Null
      /\ pc[t] = "cas" /\ call[t].op \in Allocating
  BY DEF Taken, Typed, ThreadTyped, Calls, CallsOK, CallOK
<1>2. SizeOf(t) \in {1, 2}
  BY DEF SizeOf, Size
<1>3. InChunk(call[t].new, SizeOf(t))
  BY DEF ChunksOK
<1>4. PICK a \in Nat, b \in Nat : call[t].new = <<a, b>>
  BY <1>1 DEF Pairs
<1>5. a \in Blocks /\ b + SizeOf(t) <= ChunkSize /\ b # ChunkSize
  BY <1>2, <1>3, <1>4, Constants DEF InChunk
<1>6. ASSUME call[t].new \in Pointers PROVE FALSE
  <2>1. IsRecord(call[t].new)
    BY <1>4, <1>5, <1>6 DEF HeapOK, NodeOK, IsRecord, Kind
  <2>2. SizeAt(call[t].new) \in {1, 2}
    BY DEF SizeAt, RecordSize
  <2>3. Beside(call[t].new, SizeOf(t), call[t].new, SizeAt(call[t].new))
    BY <1>6, <2>1 DEF ChunksOK
  <2> QED BY <1>2, <1>4, <2>2, <2>3 DEF Beside
<1> QED BY <1>1, <1>4, <1>5, <1>6

LEMMA BlockPlace ==
  ASSUME Typed, HeapOK, NEW b, b \notin Blocks, b \in Nat
  PROVE  End(b) \notin Pointers /\ End(b) \in Pairs /\ (b # 0 => End(b) # Null)
         /\ End(b)[1] = b /\ End(b)[2] = ChunkSize
BY Constants DEF End, Pairs, HeapOK, NodeOK

(* The stack has room for the NodeID that is being pushed. *)
LEMMA StackRoom ==
  ASSUME Typed, PushOK, IdsOK, pushing.id # 0
  PROVE  CurTop.at + 1 \in Ids
<1>1. PICK n \in Nat : n = CurTop.at
  BY Constants DEF Typed, StackTyped, CleanTyped, PushOK, CurTop, Tops
<1>2. pushing.id \in Ids
  BY Constants DEF Typed, CleanTyped
<1> DEFINE f == [i \in 1 .. n |-> data[i]]
<1>3. f \in Injection(1 .. n, Ids \ {pushing.id})
  <2>1. \A i \in 1 .. n : data[i] \in Ids \ {pushing.id}
    BY <1>1, <1>2 DEF IdsOK, OnStack
  <2>2. \A i, j \in 1 .. n : data[i] = data[j] => i = j
    BY <1>1 DEF IdsOK
  <2> QED BY <2>1, <2>2 DEF Injection, IsInjective
<1>4. IsFiniteSet(Ids) /\ Cardinality(Ids) = NumIds
  BY FS_Interval, Constants
<1>5. IsFiniteSet(Ids \ {pushing.id}) /\ Cardinality(Ids \ {pushing.id}) = NumIds - 1
  BY <1>2, <1>4, FS_RemoveElement
<1>6. IsFiniteSet(1 .. n) /\ Cardinality(1 .. n) = n
  BY FS_Interval
<1>7. n <= NumIds - 1
  <2> HIDE DEF f
  <2> QED BY <1>3, <1>5, <1>6, FS_Injection
<1> QED BY <1>1, <1>7, Constants

-----------------------------------------------------------------------------
(* What stays as it is. *)

(* Nothing that stands in memory is overwritten. *)
Grows ==
  /\ Pointers \subseteq Pointers' /\ Blocks \subseteq Blocks'
  /\ \A p \in Pointers : heap'[p] = heap[p]

(* Neither the thread's place nor what it has changes. *)
Quiet(u) ==
  /\ pc'[u] = pc[u] /\ call'[u] = call[u] /\ chunk'[u] = chunk[u] /\ popped'[u] = popped[u]

LEMMA SameGrows == heap' = heap /\ Blocks \subseteq Blocks' => Grows
BY DEF Grows, Pointers

LEMMA NodeKept ==
  ASSUME Grows, NEW p \in Pointers
  PROVE  (NodeOK(p) => NodeOK(p)') /\ (IsNode(p) => IsNode(p)') /\ Kind(p)' = Kind(p)
         /\ SizeAt(p)' = SizeAt(p) /\ (IsRecord(p)' <=> IsRecord(p))
<1>1. heap'[p] = heap[p] /\ p \in Pointers'
  BY DEF Grows
<1>2. \A q : IsNode(q) => IsNode(q)' /\ heap'[q] = heap[q]
  BY DEF Grows, IsNode, Kind
<1>3. NodeOK(p) => NodeOK(p)'
  <2> SUFFICES ASSUME NodeOK(p) PROVE NodeOK(p)'
    OBVIOUS
  <2>1. heap[p].kind \in {"data", "split", "merge"} => heap'[heap[p].child].base = heap[heap[p].child].base
    BY <1>2 DEF NodeOK
  <2> QED BY <1>1, <1>2, <2>1 DEF NodeOK, Grows
<1> QED BY <1>1, <1>2, <1>3 DEF Kind, SizeAt, IsRecord

LEMMA HeapKept ==
  ASSUME HeapOK, heap' = heap, Blocks \subseteq Blocks'
  PROVE  HeapOK'
<1>1. Grows /\ Pointers' = Pointers
  BY SameGrows DEF Pointers
<1> QED BY <1>1, NodeKept DEF HeapOK

LEMMA ReachedSame ==
  ASSUME Reached, Live' = Live, \A id \in Live : NextId(id)' = NextId(id)
  PROVE  Reached'
BY DEF Reached

LEMMA TreeKept ==
  ASSUME heap' = heap, table' = table, Dead' = Dead
  PROVE  /\ Pointers' = Pointers /\ (TreeOK => TreeOK') /\ Live' = Live
         /\ \A id : (Dying(id)' <=> Dying(id)) /\ (Removed(id)' <=> Removed(id)) /\ NextId(id)' = NextId(id)
<1>1. Pointers' = Pointers
  BY DEF Pointers
<1>2. \A id : (Dying(id)' <=> Dying(id)) /\ (Removed(id)' <=> Removed(id)) /\ NextId(id)' = NextId(id)
  BY DEF Dying, Kind, Removed, NextId
<1>3. Live' = Live
  BY <1>2 DEF Live
<1>4. TreeOK => TreeOK'
  BY <1>1, <1>2, <1>3, ReachedSame DEF TreeOK, IsNode, Kind
<1> QED BY <1>1, <1>2, <1>3, <1>4

LEMMA DeadKept ==
  ASSUME heap' = heap, table' = table, retired' = retired, todo' = todo
  PROVE  /\ Dead' = Dead /\ (PointersOK => PointersOK')
         /\ (pushing' = pushing => (DyingOK => DyingOK') /\ (top' = top => (PushOK => PushOK')))
<1>1. Dead' = Dead /\ Pointers' = Pointers
  BY DEF Dead, Pointers
<1>2. PointersOK => PointersOK'
  BY <1>1 DEF PointersOK, Kind
<1>3. ASSUME pushing' = pushing PROVE DyingOK => DyingOK'
  BY <1>1, <1>3 DEF DyingOK, IsRemove, Kind
<1>4. ASSUME pushing' = pushing, top' = top PROVE PushOK => PushOK'
  BY <1>1, <1>4 DEF PushOK, IsRemove, Kind, CurTop
<1> QED BY <1>1, <1>2, <1>3, <1>4

LEMMA CallKept ==
  ASSUME Grows, NEW u \in Threads, Quiet(u), CallOK(u)
  PROVE  CallOK(u)'
<1>1. \A q : IsNode(q) => IsNode(q)' /\ Kind(q)' = Kind(q)
  BY DEF Grows, IsNode, Kind
<1>2. pc[u] = "out" => call[u].op \notin {"split", "remove"}
  BY DEF CallOK, NoCall
<1> QED BY <1>1, <1>2 DEF CallOK, Quiet, Grows

LEMMA SnapKept ==
  ASSUME heap' = heap, table' = table, Dead' = Dead, NEW u \in Threads,
         pc'[u] = pc[u] \/ pc[u] # "out", 
         call'[u] = call[u] \/ \E n, d : call'[u] = [call[u] EXCEPT !.new = n, !.newid = d],
         SnapOK(u), call \in [Threads -> Calls]
  PROVE  SnapOK(u)'
<1>1. Live' = Live /\ \A id : (Removed(id)' <=> Removed(id))
  BY TreeKept
<1>2. /\ call'[u].id = call[u].id /\ call'[u].snap = call[u].snap /\ call'[u].op = call[u].op
      /\ call'[u].right = call[u].right
  BY DEF Calls
<1> QED BY <1>1, <1>2 DEF SnapOK, Matches

LEMMA PopKept ==
  ASSUME data' = data, top' = top, pushing' = pushing, NEW u \in Threads, PopOK(u),
         popped'[u] = popped[u], pc'[u] \notin {"read", "popcas"} \/ (pc'[u] = pc[u] /\ call'[u] = call[u])
  PROVE  PopOK(u)'
BY DEF PopOK, CurTop

LEMMA IdsKept ==
  ASSUME data' = data, CurTop' = CurTop, pushing'.id = pushing.id, table' = table,
         next_unused' = next_unused, IdsOK,
         \A u \in Threads : (HeldBy(u)' <=> HeldBy(u)) /\ (HeldBy(u) => call'[u].newid = call[u].newid)
  PROVE  IdsOK'
<1>1. \A id : (OnStack(id)' <=> OnStack(id)) /\ (InHand(id)' <=> InHand(id))
  BY DEF OnStack, InHand
<1> QED BY <1>1 DEF IdsOK

(* Records stay apart when the only new ones are those that were taken for. *)
LEMMA ChunksKept ==
  ASSUME Grows, ChunksOK, MemTyped, MemTyped', HeapOK, CallsOK, ThreadTyped,
         \A b \in Blocks : tail'[b] <= tail[b],
         \A t \in Taken' : t \in Taken /\ call'[t].new = call[t].new /\ call'[t].op = call[t].op,
         \A p \in Pointers' \ Pointers : IsRecord(p)' =>
            \E t \in Taken \ Taken' : p = call[t].new /\ SizeAt(p)' = SizeOf(t)
  PROVE  ChunksOK'
<1> DEFINE Was(p, n) == \/ IsRecord(p) /\ n = SizeAt(p)
                        \/ \E t \in Taken : p = call[t].new /\ n = SizeOf(t)
<1>1. \A p, n : Was(p, n) => InChunk(p, n) /\ p \in Pairs /\ n \in {1, 2}
  BY DEF ChunksOK, IsRecord, HeapOK, NodeOK, Taken, ThreadTyped, Calls, SizeAt, RecordSize, SizeOf, Size
<1>2. ASSUME NEW p, NEW n, Was(p, n)
      PROVE  p[1] \in Blocks' /\ tail'[p[1]] <= p[2] /\ 0 <= p[2] /\ p[2] + n <= ChunkSize
  <2> HIDE DEF Was
  <2>1. PICK b \in Nat, a \in Nat : p = <<b, a>>
    BY <1>1, <1>2 DEF Pairs
  <2>2. b \in Blocks /\ tail[b] <= a /\ 0 <= a /\ a + n <= ChunkSize
    BY <1>1, <1>2, <2>1 DEF InChunk
  <2>3. b \in Blocks' /\ tail'[b] <= tail[b] /\ tail[b] \in Int /\ tail'[b] \in Int
    <3>1. b \in Blocks' /\ tail'[b] <= tail[b]
      BY <2>2 DEF Grows
    <3>2. tail' \in Seq(Int) /\ tail \in Seq(Int)
      BY DEF MemTyped
    <3> QED BY <2>2, <3>1, <3>2 DEF Blocks
  <2> QED BY <2>1, <2>2, <2>3
<1>3. \A p \in Pointers' : IsRecord(p)' =>
        \/ IsRecord(p) /\ p \in Pointers /\ SizeAt(p)' = SizeAt(p)
        \/ \E t \in Taken \ Taken' : p = call[t].new /\ SizeAt(p)' = SizeOf(t)
  BY NodeKept
<1>4. \A t \in Taken' : t \in Taken /\ call'[t].new = call[t].new /\ SizeOf(t)' = SizeOf(t)
  BY DEF SizeOf
<1>5. \A p \in Pointers' : IsRecord(p)' => InChunk(p, SizeAt(p))'
  BY <1>2, <1>3 DEF InChunk
<1>6. \A t \in Taken' : InChunk(call[t].new, SizeOf(t))'
  BY <1>2, <1>4 DEF InChunk
<1>7. \A p, q, m, n : Beside(p, m, q, n) <=> Beside(q, n, p, m)
  BY DEF Beside
<1>8. \A p, q \in Pointers' : IsRecord(p)' /\ IsRecord(q)' /\ p # q => Beside(p, SizeAt(p)', q, SizeAt(q)')
  BY <1>3, <1>7 DEF ChunksOK
<1>9. \A t \in Taken', p \in Pointers' : IsRecord(p)' => Beside(call'[t].new, SizeOf(t)', p, SizeAt(p)')
  BY <1>3, <1>4 DEF ChunksOK
<1>10. \A t, u \in Taken' : t # u => Beside(call'[t].new, SizeOf(t)', call'[u].new, SizeOf(u)')
  BY <1>4 DEF ChunksOK
<1> QED BY <1>5, <1>6, <1>8, <1>9, <1>10 DEF ChunksOK, Beside

LEMMA TailsKept ==
  ASSUME TailsOK, Typed,
         \A b \in Blocks : tail'[b] = tail[b] /\ Subtracting(b)' \subseteq Subtracting(b),
         \A b \in Blocks' \ Blocks : tail'[b] \in 0 .. ChunkSize /\ Subtracting(b)' = {}
  PROVE  TailsOK'
<1>1. PICK n \in Nat : n = Cardinality(Threads)
  BY Constants
<1>2. ASSUME NEW b \in Blocks
      PROVE  tail'[b] <= ChunkSize /\ -2 * n <= tail'[b] - 2 * Cardinality(Subtracting(b)')
  <2>1. Subtracting(b) \subseteq Threads /\ Subtracting(b)' \subseteq Subtracting(b) /\ tail'[b] = tail[b]
    BY DEF Subtracting
  <2>2. IsFiniteSet(Subtracting(b))
    BY <2>1, Constants, FS_Subset
  <2>3. IsFiniteSet(Subtracting(b)') /\ Cardinality(Subtracting(b)') <= Cardinality(Subtracting(b))
    BY <2>1, <2>2, FS_Subset
  <2>4. PICK i \in Nat, j \in Nat : i = Cardinality(Subtracting(b)) /\ j = Cardinality(Subtracting(b)')
    BY <2>2, <2>3, FS_CardinalityType
  <2>5. PICK a \in Int : a = tail[b]
    BY DEF Typed, MemTyped, Blocks
  <2>6. a <= ChunkSize /\ -2 * n <= a - 2 * i /\ j <= i
    BY <1>1, <2>3, <2>4, <2>5 DEF TailsOK
  <2> QED BY <2>1, <2>4, <2>5, <2>6
<1>3. ASSUME NEW b \in Blocks' \ Blocks
      PROVE  tail'[b] <= ChunkSize /\ -2 * n <= tail'[b] - 2 * Cardinality(Subtracting(b)')
  <2>1. tail'[b] \in 0 .. ChunkSize /\ Cardinality(Subtracting(b)') = 0
    BY FS_EmptySet
  <2> QED BY <2>1, Constants
<1> QED BY <1>1, <1>2, <1>3 DEF TailsOK

-----------------------------------------------------------------------------
(* The beginning of a call. *)

Begun(t, id, op, label, right, b) ==
  /\ pc[t] = "out" /\ id \in Live /\ ~Removed(id)
  /\ pc' = [pc EXCEPT ![t] = label] /\ chunk' = [chunk EXCEPT ![t] = b]
  /\ call' = [call EXCEPT ![t] = [op |-> op, id |-> id, snap |-> table[id], right |-> right,
                                  new |-> Null, newid |-> 0]]
  /\ UNCHANGED <<memVars, table, retired, stackVars, popped, cleanVars>>
  /\ \/ op = "post" /\ label = "try" /\ b = BaseOf(table[id])
     \/ op = "consolidate" /\ label = "cas" /\ b = chunk[t]
     \/ op = "split" /\ label = "pop" /\ Kind(table[id]) = "page" /\ b = chunk[t]
     \/ op = "remove" /\ label = "cas" /\ Kind(table[id]) = "page" /\ id # 1 /\ b = chunk[t]
     \/ op = "merge" /\ label = "try" /\ b = BaseOf(right)
  /\ IF op = "merge" THEN /\ Removed(heap[table[id]].next)
                          /\ right = heap[table[heap[table[id]].next]].child
                     ELSE right = Null

LEMMA StartBegins ==
  ASSUME IdInv, NEW t \in Threads, Start(t)
  PROVE  \E id, op, label, right, b : Begun(t, id, op, label, right, b)
<1>1. PICK id \in Ids : \/ StartPost(t, id) \/ StartConsolidate(t, id) \/ StartSplit(t, id)
                        \/ StartRemove(t, id) \/ StartMerge(t, id)
  BY DEF Start
<1>2. TreeIds \subseteq Live /\ chunk \in [Threads -> Nat] /\ call \in [Threads -> Calls]
  BY TreeIdsLive DEF IdInv, Typed, ThreadTyped
<1> DEFINE Called(op, right) ==
      call' = [call EXCEPT ![t] = [op |-> op, id |-> id, snap |-> table[id], right |-> right,
                                   new |-> Null, newid |-> 0]]
<1>3. ASSUME NEW op, NEW label, op # "merge", Begin(t, op, id, label)
      PROVE  /\ Called(op, Null) /\ pc[t] = "out" /\ id \in Live /\ ~Removed(id)
             /\ pc' = [pc EXCEPT ![t] = label]
             /\ UNCHANGED <<memVars, table, retired, stackVars, popped, cleanVars>>
  BY <1>2, <1>3 DEF Begin, To
<1>4. ASSUME NEW label, Begin(t, "merge", id, label)
      PROVE  /\ Called("merge", heap[table[heap[table[id]].next]].child)
             /\ pc[t] = "out" /\ id \in Live /\ ~Removed(id)
             /\ pc' = [pc EXCEPT ![t] = label]
             /\ UNCHANGED <<memVars, table, retired, stackVars, popped, cleanVars>>
  BY <1>2, <1>4 DEF Begin, To
<1>5. chunk' = chunk => chunk' = [chunk EXCEPT ![t] = chunk[t]]
  BY <1>2
<1>6. CASE StartPost(t, id)
  <2>1. Begun(t, id, "post", "try", Null, BaseOf(table[id]))
    BY <1>3, <1>6 DEF StartPost, Begun
  <2> QED BY <2>1
<1>7. CASE StartConsolidate(t, id)
  <2>1. Begun(t, id, "consolidate", "cas", Null, chunk[t])
    BY <1>3, <1>5, <1>7 DEF StartConsolidate, Begun
  <2> QED BY <2>1
<1>8. CASE StartSplit(t, id)
  <2>1. Begun(t, id, "split", "pop", Null, chunk[t])
    BY <1>3, <1>5, <1>8 DEF StartSplit, Begun
  <2> QED BY <2>1
<1>9. CASE StartRemove(t, id)
  <2>1. Begun(t, id, "remove", "cas", Null, chunk[t])
    BY <1>3, <1>5, <1>9 DEF StartRemove, Begun
  <2> QED BY <2>1
<1>10. CASE StartMerge(t, id)
  <2> DEFINE R == heap[table[heap[table[id]].next]].child
  <2>1. Called("merge", R) /\ Begin(t, "merge", id, "try")
    BY <1>4, <1>10 DEF StartMerge
  <2>2. call'[t].right = R
    BY <2>1, <1>2
  <2>3. chunk' = [chunk EXCEPT ![t] = BaseOf(R)]
    BY <2>2, <1>10 DEF StartMerge, MergeBase
  <2>4. Removed(heap[table[id]].next)
    BY <1>10 DEF StartMerge
  <2> HIDE DEF R
  <2>5. R = heap[table[heap[table[id]].next]].child
    BY DEF R
  <2>6. Begun(t, id, "merge", "try", R, BaseOf(R))
    BY <1>4, <2>1, <2>3, <2>4, <2>5 DEF Begun
  <2> QED BY <2>6
<1> QED BY <1>1, <1>6, <1>7, <1>8, <1>9, <1>10

(* What the call has got is in memory. *)
LEMMA BegunIs ==
  ASSUME IdInv, NEW t \in Threads, NEW id, NEW op, NEW label, NEW right, NEW b,
         Begun(t, id, op, label, right, b)
  PROVE  /\ id \in Ids /\ IsNode(table[id]) /\ table[id] \in Pairs /\ heap[table[id]].next = NextId(id)
         /\ right \in Pairs /\ b \in Nat /\ op \in Ops \ {"none"} /\ label \in {"try", "pop", "cas"}
         /\ op \in {"post", "merge"} => label = "try" /\ b \in Blocks
         /\ op = "merge" => IsNode(right) /\ NextId(id) \in Live
<1> USE DEF IdInv
<1>1. /\ id \in Ids /\ IsNode(table[id]) /\ heap[table[id]].next = NextId(id) /\ NodeOK(table[id])
      /\ table[id] \in Pairs
  BY LiveIs DEF Begun, Typed, StackTyped
<1>2. heap[table[id]].base \in Blocks /\ BaseOf(table[id]) \in Blocks
  BY <1>1 DEF IsNode, NodeOK, Kind, BaseOf
<1>3. chunk[t] \in Nat /\ \A a \in Blocks : a \in Nat
  BY BlocksAre DEF Typed, ThreadTyped
<1>4. ASSUME op = "merge" PROVE IsNode(right) /\ NextId(id) \in Live /\ right \in Pairs /\ BaseOf(right) \in Blocks
  <2>1. /\ Removed(heap[table[id]].next)
        /\ right = heap[table[heap[table[id]].next]].child
    BY <1>4 DEF Begun
  <2>2. NextId(id) \in Live
    BY <1>1, <2>1 DEF Begun, TreeOK, Removed
  <2>3. IsNode(right)
    BY <1>1, <2>1, <2>2 DEF TreeOK
  <2>4. NodeOK(right)
    BY <2>3 DEF HeapOK, IsNode
  <2> QED BY <2>2, <2>3, <2>4 DEF NodeOK, IsNode, Kind, BaseOf
<1>5. right \in Pairs
  BY <1>4, Constants DEF Begun
<1> QED BY <1>1, <1>2, <1>3, <1>4, <1>5 DEF Begun, Ops

(* A step of one thread that leaves what stands in memory and the table     *)
(* alone, or at most appends a chunk.                                       *)
Alone(t) ==
  /\ UNCHANGED <<heap, table, retired, cleanVars>>
  /\ UNCHANGED <<tail, next, freed>> \/ MemTyped'
  /\ Blocks \subseteq Blocks' /\ \A b \in Blocks : tail'[b] = tail[b]
  /\ \A b \in Blocks' \ Blocks : tail'[b] = ChunkSize
  /\ \A u \in Threads \ {t} : Quiet(u)
  /\ pc[t] # "cas" /\ call'[t].new = Null

LEMMA AloneKeeps ==
  ASSUME IdInv, NEW t \in Threads, Alone(t), call' \in [Threads -> Calls]
  PROVE  /\ MemTyped' /\ HeapOK' /\ PointersOK' /\ TreeOK' /\ DyingOK'
         /\ ChunksOK' /\ Dead' = Dead /\ Live' = Live
         /\ CallOK(t)' => CallsOK'
         /\ SnapOK(t)' => SnapsOK'
         /\ pc'[t] # "sub" \/ (0 <= tail[chunk[t]] /\ chunk'[t] = chunk[t] /\ pc[t] \in InChunks) => TailsOK'
         /\ top' = top => PushOK'
<1> USE DEF IdInv
<1>1. /\ heap' = heap /\ table' = table /\ retired' = retired /\ todo' = todo /\ pushing' = pushing
      /\ \A b \in Blocks : tail'[b] = tail[b]
  BY DEF Alone, cleanVars
<1>2. Blocks \subseteq Blocks' /\ MemTyped'
  BY <1>1 DEF Alone, Typed, MemTyped, Blocks
<1>3. Grows /\ HeapOK'
  BY <1>1, <1>2, HeapKept, SameGrows
<1>4. Dead' = Dead /\ PointersOK' /\ DyingOK' /\ (top' = top => PushOK')
  BY <1>1, DeadKept
<1>5. TreeOK' /\ Live' = Live /\ Pointers' = Pointers
  BY <1>1, <1>4, TreeKept
<1>6. Taken' = Taken \ {t} /\ t \notin Taken /\ \A u \in Taken : call'[u] = call[u]
  <2>1. call[t].new = Null
    BY DEF Alone, CallsOK, CallOK
  <2> QED BY <2>1 DEF Alone, Taken, Quiet
<1>7. ChunksOK'
  <2>1. \A b \in Blocks : tail'[b] <= tail[b]
    <3>1. \A b \in Blocks : tail[b] \in Int
      BY BlocksAre DEF Typed
    <3> QED BY <1>1, <3>1
  <2>2. MemTyped /\ ThreadTyped /\ MemTyped'
    BY <1>2 DEF Typed
  <2> QED BY <1>3, <1>5, <1>6, <2>1, <2>2, ChunksKept
<1>8. \A u \in Threads \ {t} : CallOK(u)' /\ SnapOK(u)'
  <2> SUFFICES ASSUME NEW u \in Threads \ {t} PROVE CallOK(u)' /\ SnapOK(u)'
    OBVIOUS
  <2>1. Quiet(u) /\ CallOK(u) /\ SnapOK(u)
    BY DEF Alone, CallsOK, SnapsOK
  <2>2. CallOK(u)'
    BY <1>3, <2>1, CallKept
  <2>3. SnapOK(u)'
    BY <1>1, <1>4, <2>1, SnapKept DEF Quiet, Typed, ThreadTyped
  <2> QED BY <2>2, <2>3
<1>9. ASSUME pc'[t] # "sub" PROVE TailsOK'
  <2>1. \A b \in Blocks : tail'[b] = tail[b] /\ Subtracting(b)' \subseteq Subtracting(b)
    BY <1>1, <1>9 DEF Alone, Quiet, Subtracting
  <2>2. ASSUME NEW b \in Blocks' \ Blocks PROVE tail'[b] \in 0 .. ChunkSize /\ Subtracting(b)' = {}
    <3>1. \A u \in Threads \ {t} : pc[u] = "sub" => chunk[u] \in Blocks
      BY DEF CallsOK, CallOK, InChunks
    <3>2. Subtracting(b)' = {}
      BY <1>9, <3>1 DEF Alone, Quiet, Subtracting
    <3> QED BY <3>2, Constants DEF Alone
  <2> QED BY <2>1, <2>2, TailsKept
<1>10. ASSUME 0 <= tail[chunk[t]], chunk'[t] = chunk[t], pc[t] \in InChunks PROVE TailsOK'
  <2>1. PICK n \in Nat : n = Cardinality(Threads)
    BY Constants
  <2>2. ASSUME NEW b \in Blocks
        PROVE  tail[b] <= ChunkSize /\ -2 * n <= tail[b] - 2 * Cardinality(Subtracting(b)')
    <3>1. Subtracting(b)' \subseteq Threads /\ Subtracting(b) \subseteq Threads
      BY DEF Subtracting
    <3>2. IsFiniteSet(Subtracting(b)') /\ IsFiniteSet(Subtracting(b)) /\ Cardinality(Subtracting(b)') <= n
      BY <2>1, <3>1, Constants, FS_Subset
    <3>3. PICK i \in Nat, j \in Nat : i = Cardinality(Subtracting(b)) /\ j = Cardinality(Subtracting(b)')
      BY <3>2, FS_CardinalityType
    <3>4. PICK a \in Int : a = tail[b]
      BY BlocksAre DEF Typed
    <3>5. a <= ChunkSize /\ -2 * n <= a - 2 * i
      BY <2>1, <3>3, <3>4 DEF TailsOK
    <3>6. CASE b = chunk[t]
      BY <1>10, <2>1, <3>2, <3>3, <3>4, <3>5, <3>6
    <3>7. CASE b # chunk[t]
      <4>1. Subtracting(b)' \subseteq Subtracting(b)
        BY <1>10, <3>7 DEF Alone, Quiet, Subtracting
      <4>2. j <= i
        BY <3>2, <3>3, <4>1, FS_Subset
      <4> QED BY <3>3, <3>4, <3>5, <4>2
    <3> QED BY <3>6, <3>7
  <2>3. ASSUME NEW b \in Blocks' \ Blocks
        PROVE  tail'[b] <= ChunkSize /\ -2 * n <= tail'[b] - 2 * Cardinality(Subtracting(b)')
    <3>1. \A u \in Threads : pc[u] \in InChunks => chunk[u] \in Blocks
      BY DEF CallsOK, CallOK
    <3>2. Subtracting(b)' = {}
      BY <1>10, <3>1 DEF Alone, Quiet, Subtracting, InChunks
    <3>3. Cardinality(Subtracting(b)') = 0 /\ tail'[b] = ChunkSize
      BY <3>2, FS_EmptySet DEF Alone
    <3> QED BY <3>3, Constants
  <2> QED BY <1>1, <1>2, <2>1, <2>2, <2>3 DEF TailsOK
<1> QED BY <1>2, <1>3, <1>4, <1>5, <1>7, <1>8, <1>9, <1>10 DEF CallsOK, SnapsOK

LEMMA BegunInv ==
  ASSUME IdInv, NEW t \in Threads, NEW id, NEW op, NEW label, NEW right, NEW b,
         Begun(t, id, op, label, right, b)
  PROVE  IdInv'
<1> USE DEF IdInv
<1>1. /\ id \in Ids /\ IsNode(table[id]) /\ table[id] \in Pairs /\ heap[table[id]].next = NextId(id)
      /\ right \in Pairs /\ b \in Nat /\ op \in Ops \ {"none"} /\ label \in {"try", "pop", "cas"}
      /\ op \in {"post", "merge"} => label = "try" /\ b \in Blocks
      /\ op = "merge" => IsNode(right) /\ NextId(id) \in Live
  BY BegunIs
<1>2. /\ pc[t] = "out" /\ id \in Live /\ ~Removed(id)
      /\ pc' = [pc EXCEPT ![t] = label] /\ chunk' = [chunk EXCEPT ![t] = b]
      /\ UNCHANGED <<memVars, table, retired, stackVars, popped, cleanVars>>
  BY DEF Begun
<1> DEFINE c == [op |-> op, id |-> id, snap |-> table[id], right |-> right, new |-> Null, newid |-> 0]
<1>3. call' = [call EXCEPT ![t] = c] /\ c \in Calls
  BY <1>1, Constants DEF Begun, Calls
<1>4. ThreadTyped'
  BY <1>1, <1>2, <1>3 DEF Typed, ThreadTyped, Pc
<1>5. /\ call'[t] = c /\ pc'[t] = label /\ chunk'[t] = b /\ \A u \in Threads \ {t} : Quiet(u)
  BY <1>2, <1>3 DEF Typed, ThreadTyped, Quiet
<1> HIDE DEF c
<1>6. /\ c.op = op /\ c.id = id /\ c.snap = table[id] /\ c.right = right /\ c.new = Null
  BY DEF c
<1>7. Alone(t)
  BY <1>2, <1>5, <1>6 DEF Alone, memVars, Blocks
<1>8. /\ heap' = heap /\ table' = table /\ pushing' = pushing /\ data' = data /\ top' = top /\ Blocks' = Blocks
      /\ next_unused' = next_unused
  BY <1>2 DEF memVars, stackVars, cleanVars, Blocks
<1>9. CallOK(t)'
  BY <1>1, <1>2, <1>5, <1>6, <1>8 DEF CallOK, Begun, IsNode, Kind, Pointers, InChunks, Allocating, Ops
<1>10. SnapOK(t)'
  <2>1. Live' = Live /\ \A i : (Removed(i)' <=> Removed(i))
    BY <1>3, <1>4, <1>7, <1>8, AloneKeeps, TreeKept DEF ThreadTyped
  <2> QED BY <1>1, <1>2, <1>5, <1>6, <1>8, <2>1 DEF SnapOK, Begun
<1>11. PopsOK'
  BY <1>1, <1>2, <1>5, <1>8, PopKept DEF PopsOK, Quiet, Typed, ThreadTyped
<1>12. IdsOK'
  <2>1. ~HeldBy(t) /\ ~HeldBy(t)'
    BY <1>1, <1>2, <1>5, <1>6 DEF HeldBy, CallsOK, CallOK, NoCall, Begun, InChunks
  <2>2. \A u \in Threads : (HeldBy(u)' <=> HeldBy(u)) /\ (HeldBy(u) => call'[u].newid = call[u].newid)
    BY <1>5, <2>1 DEF HeldBy, Quiet
  <2> QED BY <1>8, <2>2, IdsKept DEF CurTop
<1>13. StackTyped' /\ CleanTyped'
  BY <1>2 DEF Typed, StackTyped, CleanTyped, stackVars, cleanVars
<1> QED BY <1>1, <1>4, <1>5, <1>7, <1>8, <1>9, <1>10, <1>11, <1>12, <1>13, AloneKeeps DEF ThreadTyped, Typed

-----------------------------------------------------------------------------
(* Looking for a chunk. *)

(* What t has does not change but for the record and the NodeID it is given. *)
LEMMA AloneSnap ==
  ASSUME IdInv, NEW t \in Threads, Alone(t), call' \in [Threads -> Calls], pc[t] # "out",
         call'[t] = call[t] \/ \E d : call'[t] = [call[t] EXCEPT !.newid = d]
  PROVE  SnapOK(t)'
<1>1. heap' = heap /\ table' = table /\ Dead' = Dead /\ SnapOK(t) /\ call \in [Threads -> Calls]
  BY AloneKeeps DEF Alone, IdInv, SnapsOK, Typed, ThreadTyped
<1>2. call'[t] = call[t] \/ \E n, d : call'[t] = [call[t] EXCEPT !.new = n, !.newid = d]
  <2>1. ASSUME NEW d, call'[t] = [call[t] EXCEPT !.newid = d]
        PROVE  call'[t] = [call[t] EXCEPT !.new = call[t].new, !.newid = d]
    BY <1>1, <2>1 DEF Calls
  <2> QED BY <2>1
<1> QED BY <1>1, <1>2, SnapKept

(* TryAllocate, and GrowChunk when there is a next chunk. *)
LEMMA SeekInv ==
  ASSUME IdInv, NEW t \in Threads, NEW label, NEW b, pc[t] \in InChunks, label \in InChunks, b \in Blocks,
         label = "sub" => 0 <= tail[chunk[t]] /\ b = chunk[t],
         pc' = [pc EXCEPT ![t] = label], chunk' = [chunk EXCEPT ![t] = b],
         UNCHANGED <<memVars, table, retired, stackVars, call, popped, calls, cleanVars>>
  PROVE  IdInv'
<1> USE DEF IdInv
<1>1. /\ heap' = heap /\ table' = table /\ pushing' = pushing /\ data' = data /\ top' = top /\ Blocks' = Blocks
      /\ next_unused' = next_unused /\ call' = call /\ popped' = popped
  BY DEF memVars, stackVars, cleanVars, Blocks
<1>2. b \in Nat /\ label \in Pc /\ pc[t] \notin {"out", "cas", "read", "popcas"}
      /\ label \notin {"out", "cas", "read", "popcas", "pop", "fresh"}
  BY BlocksAre DEF Typed, InChunks, Pc
<1>3. ThreadTyped'
  BY <1>1, <1>2 DEF Typed, ThreadTyped
<1>4. pc'[t] = label /\ chunk'[t] = b /\ \A u \in Threads \ {t} : Quiet(u)
  BY <1>1 DEF Typed, ThreadTyped, Quiet
<1>5. CallOK(t)
  BY DEF CallsOK
<1>6. Alone(t)
  BY <1>1, <1>2, <1>4, <1>5 DEF Alone, CallOK, memVars, Blocks
<1>7. CallOK(t)'
  BY <1>1, <1>2, <1>4, <1>5 DEF CallOK, IsNode, Kind, Pointers
<1>8. SnapOK(t)'
  BY <1>1, <1>2, <1>3, <1>6, AloneSnap DEF ThreadTyped
<1>9. PopsOK'
  BY <1>1, <1>2, <1>4, PopKept DEF PopsOK, Quiet
<1>10. IdsOK'
  <2>1. \A u \in Threads : (HeldBy(u)' <=> HeldBy(u)) /\ (HeldBy(u) => call'[u].newid = call[u].newid)
    BY <1>1, <1>4 DEF HeldBy, Quiet
  <2> QED BY <1>1, <2>1, IdsKept DEF CurTop
<1>11. StackTyped' /\ CleanTyped'
  BY <1>1 DEF Typed, StackTyped, CleanTyped, stackVars, cleanVars
<1> QED BY <1>1, <1>3, <1>4, <1>6, <1>7, <1>8, <1>9, <1>10, <1>11, AloneKeeps DEF ThreadTyped, Typed

LEMMA TryGoOnInv ==
  ASSUME IdInv, NEW t \in Threads, TryAllocate(t) \/ GoOn(t)
  PROVE  IdInv'
<1>1. pc[t] \in InChunks /\ chunk[t] \in Blocks /\ chunk \in [Threads -> Nat]
  BY DEF IdInv, CallsOK, CallOK, TryAllocate, GoOn, InChunks, Typed, ThreadTyped
<1>2. tail[chunk[t]] \in Int /\ (next[chunk[t]] # NoBlock => next[chunk[t]] \in Blocks)
  BY <1>1, BlocksAre DEF IdInv, Typed, MemTyped
<1>3. chunk' = chunk => chunk' = [chunk EXCEPT ![t] = chunk[t]]
  BY <1>1
<1>4. CASE TryAllocate(t)
  <2>1. PICK label : /\ label \in InChunks /\ (label = "sub" => 0 <= tail[chunk[t]])
                     /\ pc' = [pc EXCEPT ![t] = label]
    <3>1. pc' = [pc EXCEPT ![t] = IF tail[chunk[t]] < 0 THEN "grow" ELSE "sub"]
      BY <1>4 DEF TryAllocate, To
    <3>2. CASE tail[chunk[t]] < 0
      BY <3>1, <3>2 DEF InChunks
    <3>3. CASE ~(tail[chunk[t]] < 0)
      <4>1. 0 <= tail[chunk[t]]
        BY <1>2, <3>3
      <4> QED BY <3>1, <3>3, <4>1 DEF InChunks
    <3> QED BY <3>2, <3>3
  <2> QED BY <1>1, <1>3, <1>4, <2>1, SeekInv DEF TryAllocate
<1>5. CASE GoOn(t)
  <2>1. PICK label, b : /\ label \in {"try", "link"} /\ b \in Blocks
                        /\ pc' = [pc EXCEPT ![t] = label] /\ chunk' = [chunk EXCEPT ![t] = b]
    BY <1>1, <1>2, <1>3, <1>5 DEF GoOn, To
  <2>2. label \in InChunks /\ label # "sub"
    BY <2>1 DEF InChunks
  <2> QED BY <1>1, <1>5, <2>1, <2>2, SeekInv DEF GoOn
<1> QED BY <1>4, <1>5

LEMMA AppendIs ==
  ASSUME NEW S, NEW s \in Seq(S), NEW x \in S
  PROVE  /\ Append(s, x) \in Seq(S) /\ Len(Append(s, x)) = Len(s) + 1
         /\ DOMAIN Append(s, x) = DOMAIN s \cup {Len(s) + 1} /\ Append(s, x)[Len(s) + 1] = x
         /\ \A i \in DOMAIN s : Append(s, x)[i] = s[i]
         /\ DOMAIN s = 1 .. Len(s) /\ Len(s) \in Nat
OBVIOUS

LEMMA LinkIs ==
  ASSUME Typed, NEW a \in Blocks, next[a] = NoBlock,
         tail' = Append(tail, ChunkSize), next' = Append([next EXCEPT ![a] = NewBlock], NoBlock),
         freed' = freed
  PROVE  /\ MemTyped' /\ Blocks' = Blocks \cup {NewBlock} /\ NewBlock \notin Blocks /\ NewBlock \in Nat
         /\ \A b \in Blocks : tail'[b] = tail[b] /\ next'[b] = IF b = a THEN NewBlock ELSE next[b]
         /\ tail'[NewBlock] = ChunkSize /\ next'[NewBlock] = NoBlock
<1>1. /\ tail \in Seq(Int) /\ next \in Seq(Nat) /\ Len(next) = Len(tail) /\ freed \subseteq Blocks
      /\ Blocks = 1 .. Len(tail) /\ Len(tail) \in Nat /\ NewBlock = Len(tail) + 1 /\ NewBlock \notin Blocks
      /\ \A b \in Blocks : b \in Nat
  BY BlocksAre DEF Typed, MemTyped
<1> DEFINE nx == [next EXCEPT ![a] = NewBlock]
<1>2. nx \in Seq(Nat) /\ Len(nx) = Len(tail) /\ \A b \in Blocks : nx[b] = IF b = a THEN NewBlock ELSE next[b]
  BY <1>1
<1>3. /\ tail' \in Seq(Int) /\ Len(tail') = Len(tail) + 1 /\ DOMAIN tail' = Blocks \cup {NewBlock}
      /\ tail'[NewBlock] = ChunkSize /\ \A b \in Blocks : tail'[b] = tail[b]
  BY <1>1, AppendIs, Constants DEF Blocks
<1>4. /\ next' \in Seq(Nat) /\ Len(next') = Len(tail) + 1
      /\ next'[NewBlock] = NoBlock /\ \A b \in Blocks : next'[b] = nx[b]
  <2> HIDE DEF nx
  <2>1. NoBlock \in Nat /\ next' = Append(nx, NoBlock)
    BY DEF NoBlock, nx
  <2> QED BY <1>1, <1>2, <2>1, AppendIs
<1>5. \A b \in Blocks' : next'[b] # NoBlock => next'[b] \in Blocks' /\ next'[b] > b
  <2>1. \A b \in Blocks : next[b] # NoBlock => next[b] \in Blocks /\ next[b] > b
    BY DEF Typed, MemTyped
  <2> QED BY <1>1, <1>2, <1>3, <1>4, <2>1 DEF Blocks
<1>6. MemTyped'
  BY <1>1, <1>3, <1>4, <1>5 DEF MemTyped, Blocks
<1> QED BY <1>1, <1>2, <1>3, <1>4, <1>6 DEF Blocks

LEMMA LinkInv ==
  ASSUME IdInv, NEW t \in Threads, LinkChunk(t)
  PROVE  IdInv'
<1> USE DEF IdInv
<1>1. /\ pc[t] = "link" /\ chunk[t] \in Blocks /\ chunk \in [Threads -> Nat]
      /\ pc' = [pc EXCEPT ![t] = "try"]
      /\ UNCHANGED <<freed, heap, table, retired, stackVars, call, popped, calls, cleanVars>>
  BY DEF CallsOK, CallOK, LinkChunk, InChunks, Typed, ThreadTyped, To
<1>2. CASE next[chunk[t]] # NoBlock
  <2>1. next[chunk[t]] \in Blocks
    BY <1>1, <1>2 DEF Typed, MemTyped
  <2>2. chunk' = [chunk EXCEPT ![t] = next[chunk[t]]] /\ UNCHANGED <<tail, next>>
    BY <1>1, <1>2 DEF LinkChunk
  <2>3. pc[t] \in InChunks /\ "try" \in InChunks
    BY <1>1 DEF InChunks
  <2>4. UNCHANGED <<memVars, table, retired, stackVars, call, popped, calls, cleanVars>>
    BY <1>1, <2>2 DEF memVars
  <2> HIDE DEF IdInv
  <2> QED BY <1>1, <2>1, <2>2, <2>3, <2>4, SeekInv
<1>3. CASE next[chunk[t]] = NoBlock
  <2>1. /\ tail' = Append(tail, ChunkSize)
        /\ next' = Append([next EXCEPT ![chunk[t]] = NewBlock], NoBlock)
        /\ chunk' = [chunk EXCEPT ![t] = NewBlock]
    BY <1>3 DEF LinkChunk
  <2>2. /\ MemTyped' /\ Blocks' = Blocks \cup {NewBlock} /\ NewBlock \notin Blocks /\ NewBlock \in Nat
        /\ \A b \in Blocks : tail'[b] = tail[b] /\ tail'[NewBlock] = ChunkSize
    BY <1>1, <1>3, <2>1, LinkIs
  <2>3. /\ heap' = heap /\ table' = table /\ pushing' = pushing /\ data' = data /\ top' = top
        /\ next_unused' = next_unused /\ call' = call /\ popped' = popped
    BY <1>1 DEF stackVars, cleanVars
  <2>4. ThreadTyped'
    BY <1>1, <2>1, <2>2, <2>3 DEF Typed, ThreadTyped, Pc
  <2>5. pc'[t] = "try" /\ chunk'[t] = NewBlock /\ \A u \in Threads \ {t} : Quiet(u)
    BY <1>1, <2>1, <2>3 DEF Typed, ThreadTyped, Quiet
  <2>6. CallOK(t)
    BY DEF CallsOK
  <2>7. Alone(t)
    BY <1>1, <2>2, <2>3, <2>5, <2>6 DEF Alone, CallOK
  <2>8. CallOK(t)'
    BY <1>1, <2>2, <2>3, <2>5, <2>6 DEF CallOK, IsNode, Kind, Pointers, InChunks
  <2>9. SnapOK(t)'
    BY <1>1, <2>3, <2>4, <2>7, AloneSnap DEF ThreadTyped
  <2>10. PopsOK'
    BY <1>1, <2>3, <2>5, PopKept DEF PopsOK, Quiet
  <2>11. IdsOK'
    <3>1. \A u \in Threads : (HeldBy(u)' <=> HeldBy(u)) /\ (HeldBy(u) => call'[u].newid = call[u].newid)
      BY <1>1, <2>3, <2>5 DEF HeldBy, Quiet, InChunks
    <3> QED BY <2>3, <3>1, IdsKept DEF CurTop
  <2>12. StackTyped' /\ CleanTyped'
    BY <1>1 DEF Typed, StackTyped, CleanTyped, stackVars, cleanVars
  <2> QED BY <2>2, <2>3, <2>4, <2>5, <2>7, <2>8, <2>9, <2>10, <2>11, <2>12, AloneKeeps
          DEF ThreadTyped, Typed
<1> QED BY <1>2, <1>3

-----------------------------------------------------------------------------
(* Taking room for a record. *)

LEMMA TakeIs ==
  ASSUME IdInv, NEW t \in Threads, Take(t)
  PROVE  \E b \in Blocks, s \in {1, 2}, a \in Int :
           /\ b = chunk[t] /\ s = SizeOf(t) /\ a = tail[b] - s /\ tail[b] \in Int
           /\ pc[t] = "sub" /\ call[t].op \in Allocating /\ call[t].new = Null
           /\ tail' = [tail EXCEPT ![b] = a]
           /\ \/ a < 0 /\ pc' = [pc EXCEPT ![t] = "grow"] /\ call' = call
              \/ 0 <= a /\ pc' = [pc EXCEPT ![t] = "cas"] /\ call' = [call EXCEPT ![t].new = <<b, a>>]
           /\ UNCHANGED <<next, freed, heap, table, retired, stackVars, chunk, popped, calls, cleanVars>>
<1>1. /\ pc[t] = "sub" /\ call[t].op \in Allocating /\ chunk[t] \in Blocks /\ call[t].new = Null
  BY DEF IdInv, CallsOK, CallOK, Take, InChunks
<1>2. SizeOf(t) \in {1, 2} /\ SizeOf(t) = Size(call[t].op)
  BY DEF SizeOf, Size
<1>3. tail[chunk[t]] \in Int
  BY <1>1, BlocksAre DEF IdInv, Typed
<1>4. PICK a \in Int : a = tail[chunk[t]] - SizeOf(t)
  BY <1>2, <1>3
<1>5. a < 0 \/ 0 <= a
  BY <1>4
<1> QED BY <1>1, <1>2, <1>3, <1>4, <1>5 DEF Take, To

LEMMA TakeChunks ==
  ASSUME IdInv, MemTyped', NEW t \in Threads, Take(t)
  PROVE  ChunksOK'
<1> USE DEF IdInv
<1>1. PICK b \in Blocks, s \in {1, 2}, a \in Int :
           /\ b = chunk[t] /\ s = SizeOf(t) /\ a = tail[b] - s /\ tail[b] \in Int
           /\ pc[t] = "sub" /\ call[t].op \in Allocating /\ call[t].new = Null
           /\ tail' = [tail EXCEPT ![b] = a]
           /\ \/ a < 0 /\ pc' = [pc EXCEPT ![t] = "grow"] /\ call' = call
              \/ 0 <= a /\ pc' = [pc EXCEPT ![t] = "cas"] /\ call' = [call EXCEPT ![t].new = <<b, a>>]
           /\ UNCHANGED <<next, freed, heap, table, retired, stackVars, chunk, popped, calls, cleanVars>>
  BY TakeIs
<1>2. Blocks' = Blocks /\ tail'[b] = a /\ \A d \in Blocks \ {b} : tail'[d] = tail[d]
  BY <1>1 DEF Typed, MemTyped, Blocks
<1>3. \A d \in Blocks : tail'[d] <= tail[d] /\ tail[d] \in Int
  <2>1. \A d \in Blocks : tail[d] \in Int
    BY BlocksAre DEF Typed
  <2> QED BY <1>1, <1>2, <2>1
<1>4. CASE call' = call
  <2>1. Taken' = Taken
    BY <1>4 DEF Taken
  <2> QED BY <1>1, <1>2, <1>3, <1>4, <2>1, ChunksKept, SameGrows DEF Typed, Pointers
<1>5. CASE 0 <= a /\ call' = [call EXCEPT ![t].new = <<b, a>>]
  <2>1. /\ Taken' = Taken \cup {t} /\ t \notin Taken /\ call'[t].new = <<b, a>> /\ call'[t].op = call[t].op
        /\ \A u \in Taken : call'[u] = call[u]
    <3>1. \A u \in Threads \ {t} : call'[u] = call[u]
      BY <1>5 DEF Typed, ThreadTyped
    <3>2. call'[t].new = <<b, a>> /\ call'[t].op = call[t].op
      BY <1>5 DEF Typed, ThreadTyped, Calls
    <3>3. <<b, a>> # Null
      BY BlocksAre, Constants DEF Typed
    <3> QED BY <1>1, <3>1, <3>2, <3>3 DEF Taken
  <2>2. a + s = tail[b] /\ 0 <= a /\ a + s <= ChunkSize
    <3>1. tail[b] <= ChunkSize
      <4>1. tail[b] <= ChunkSize
        BY DEF TailsOK
      <4> QED BY <4>1
    <3> QED BY <1>1, <1>5, <3>1, Constants
  <2> DEFINE Was(p, n) == \/ IsRecord(p) /\ n = SizeAt(p)
                          \/ \E u \in Taken : p = call[u].new /\ n = SizeOf(u)
  <2>3. \A p, n : Was(p, n) => InChunk(p, n) /\ p \in Pairs /\ n \in {1, 2}
    BY DEF ChunksOK, IsRecord, HeapOK, NodeOK, Taken, Typed, ThreadTyped, Calls, SizeAt, RecordSize, SizeOf, Size
  <2>4. ASSUME NEW p, NEW n, Was(p, n)
        PROVE  InChunk(p, n)' /\ Beside(<<b, a>>, s, p, n)
    <3> HIDE DEF Was
    <3>1. PICK d \in Nat, e \in Nat : p = <<d, e>>
      BY <2>3, <2>4 DEF Pairs
    <3>2. d \in Blocks /\ tail[d] <= e /\ 0 <= e /\ e + n <= ChunkSize
      BY <2>3, <2>4, <3>1 DEF InChunk
    <3>3. tail'[d] <= e
      <4>1. tail'[d] <= tail[d] /\ tail[d] \in Int /\ tail'[d] \in Int
        BY <1>1, <1>2, <1>3, <3>2
      <4> QED BY <3>2, <4>1
    <3>4. d # b \/ a + s <= e
      BY <2>2, <3>2
    <3> QED BY <1>2, <3>1, <3>2, <3>3, <3>4 DEF InChunk, Beside
  <2>5. InChunk(<<b, a>>, s)'
    BY <1>1, <1>2, <2>2 DEF InChunk
  <2>6. /\ \A p : SizeAt(p)' = SizeAt(p) /\ (IsRecord(p)' <=> IsRecord(p))
        /\ \A u \in Taken : SizeOf(u)' = SizeOf(u) /\ call'[u].new = call[u].new
        /\ SizeOf(t)' = s /\ Pointers' = Pointers
    BY <1>1, <2>1 DEF SizeAt, Kind, IsRecord, Pointers, SizeOf
  <2>7. \A p \in Pointers : IsRecord(p) => Was(p, SizeAt(p))
    OBVIOUS
  <2>8. \A u \in Taken : Was(call[u].new, SizeOf(u))
    OBVIOUS
  <2> HIDE DEF Was
  <2>9. \A p \in Pointers' : IsRecord(p)' => InChunk(p, SizeAt(p))'
    BY <2>4, <2>6, <2>7 DEF InChunk
  <2>10. \A u \in Taken' : InChunk(call[u].new, SizeOf(u))'
    <3>1. \A u \in Taken : InChunk(call[u].new, SizeOf(u))'
      BY <2>4, <2>6, <2>8 DEF InChunk
    <3>2. InChunk(call[t].new, SizeOf(t))'
      BY <2>1, <2>5, <2>6 DEF InChunk
    <3> QED BY <2>1, <3>1, <3>2
  <2>11. \A p, q, m, n : Beside(p, m, q, n) <=> Beside(q, n, p, m)
    BY DEF Beside
  <2>12. \A p, q \in Pointers' : IsRecord(p)' /\ IsRecord(q)' /\ p # q
            => Beside(p, SizeAt(p)', q, SizeAt(q)')
    BY <2>6 DEF ChunksOK
  <2>13. \A u \in Taken', p \in Pointers' : IsRecord(p)' => Beside(call'[u].new, SizeOf(u)', p, SizeAt(p)')
    <3>1. \A p \in Pointers : IsRecord(p) => Beside(<<b, a>>, s, p, SizeAt(p))
      BY <2>4, <2>7
    <3> QED BY <2>1, <2>6, <3>1 DEF ChunksOK
  <2>14. \A u, v \in Taken' : u # v => Beside(call'[u].new, SizeOf(u)', call'[v].new, SizeOf(v)')
    <3>1. \A u \in Taken : Beside(<<b, a>>, s, call[u].new, SizeOf(u))
      BY <2>4, <2>8
    <3> QED BY <2>1, <2>6, <2>11, <3>1 DEF ChunksOK
  <2> QED BY <2>9, <2>10, <2>12, <2>13, <2>14 DEF ChunksOK, Beside
<1> QED BY <1>1, <1>4, <1>5

LEMMA TakeTails ==
  ASSUME IdInv, NEW t \in Threads, Take(t)
  PROVE  TailsOK'
<1> USE DEF IdInv
<1>1. PICK b \in Blocks, s \in {1, 2}, a \in Int :
           /\ b = chunk[t] /\ s = SizeOf(t) /\ a = tail[b] - s /\ tail[b] \in Int
           /\ pc[t] = "sub" /\ call[t].op \in Allocating /\ call[t].new = Null
           /\ tail' = [tail EXCEPT ![b] = a]
           /\ \/ a < 0 /\ pc' = [pc EXCEPT ![t] = "grow"] /\ call' = call
              \/ 0 <= a /\ pc' = [pc EXCEPT ![t] = "cas"] /\ call' = [call EXCEPT ![t].new = <<b, a>>]
           /\ UNCHANGED <<next, freed, heap, table, retired, stackVars, chunk, popped, calls, cleanVars>>
  BY TakeIs
<1>2. Blocks' = Blocks /\ tail'[b] = a /\ \A d \in Blocks \ {b} : tail'[d] = tail[d]
  BY <1>1 DEF Typed, MemTyped, Blocks
<1>3. /\ \A d \in Blocks : Subtracting(d)' \subseteq Subtracting(d)
      /\ t \in Subtracting(b) /\ Subtracting(b)' = Subtracting(b) \ {t}
  <2>1. pc'[t] # "sub" /\ \A u \in Threads \ {t} : pc'[u] = pc[u]
    BY <1>1 DEF Typed, ThreadTyped
  <2> QED BY <1>1, <2>1 DEF Subtracting
<1>4. PICK n \in Nat : n = Cardinality(Threads)
  BY Constants
<1>5. ASSUME NEW d \in Blocks
      PROVE  tail'[d] <= ChunkSize /\ -2 * n <= tail'[d] - 2 * Cardinality(Subtracting(d)')
  <2>1. IsFiniteSet(Subtracting(d)) /\ IsFiniteSet(Subtracting(d)')
    <3>1. Subtracting(d) \subseteq Threads
      BY DEF Subtracting
    <3>2. IsFiniteSet(Subtracting(d))
      BY <3>1, Constants, FS_Subset
    <3> QED BY <1>3, <3>2, FS_Subset
  <2>2. PICK i \in Nat, j \in Nat : i = Cardinality(Subtracting(d)) /\ j = Cardinality(Subtracting(d)')
    BY <2>1, FS_CardinalityType
  <2>3. PICK e \in Int : e = tail[d]
    BY BlocksAre DEF Typed
  <2>4. e <= ChunkSize /\ -2 * n <= e - 2 * i
    BY <1>4, <2>2, <2>3 DEF TailsOK
  <2>5. CASE d = b
    <3>1. j = i - 1
      BY <1>3, <2>1, <2>2, <2>5, FS_RemoveElement
    <3>2. tail'[d] = e - s
      BY <1>1, <1>2, <2>3, <2>5
    <3> QED BY <2>2, <2>4, <3>1, <3>2, Constants
  <2>6. CASE d # b
    <3>1. j <= i
      BY <1>3, <2>1, <2>2, FS_Subset
    <3>2. tail'[d] = e
      BY <1>2, <2>3, <2>6
    <3> QED BY <2>2, <2>4, <3>1, <3>2
  <2> QED BY <2>5, <2>6
<1> QED BY <1>2, <1>4, <1>5 DEF TailsOK

LEMMA TakeInv ==
  ASSUME IdInv, NEW t \in Threads, Take(t)
  PROVE  IdInv'
<1> USE DEF IdInv
<1>1. PICK b \in Blocks, s \in {1, 2}, a \in Int :
           /\ b = chunk[t] /\ s = SizeOf(t) /\ a = tail[b] - s /\ tail[b] \in Int
           /\ pc[t] = "sub" /\ call[t].op \in Allocating /\ call[t].new = Null
           /\ tail' = [tail EXCEPT ![b] = a]
           /\ \/ a < 0 /\ pc' = [pc EXCEPT ![t] = "grow"] /\ call' = call
              \/ 0 <= a /\ pc' = [pc EXCEPT ![t] = "cas"] /\ call' = [call EXCEPT ![t].new = <<b, a>>]
           /\ UNCHANGED <<next, freed, heap, table, retired, stackVars, chunk, popped, calls, cleanVars>>
  BY TakeIs
<1>2. Blocks' = Blocks /\ MemTyped'
  <2>1. tail' \in Seq(Int) /\ Len(tail') = Len(tail) /\ DOMAIN tail' = DOMAIN tail
    <3>1. tail \in Seq(Int) /\ tail' = [tail EXCEPT ![b] = a] /\ a \in Int /\ b \in DOMAIN tail
      BY <1>1 DEF Typed, MemTyped, Blocks
    <3> QED BY ONLY <3>1
  <2> QED BY <1>1, <2>1 DEF Typed, MemTyped, Blocks
<1>3. /\ heap' = heap /\ table' = table /\ retired' = retired /\ todo' = todo /\ pushing' = pushing
      /\ data' = data /\ top' = top /\ next_unused' = next_unused /\ popped' = popped /\ chunk' = chunk
  BY <1>1 DEF stackVars, cleanVars
<1>4. /\ call[t] \in Calls /\ call \in [Threads -> Calls] /\ pc \in [Threads -> Pc] /\ b \in Nat
  BY BlocksAre DEF Typed, ThreadTyped
<1>5. /\ \A u \in Threads \ {t} : Quiet(u)
      /\ \/ pc'[t] = "grow" /\ call'[t] = call[t]
         \/ /\ pc'[t] = "cas" /\ call'[t] = [call[t] EXCEPT !.new = <<b, a>>] /\ 0 <= a
            /\ call'[t].new = <<b, a>> /\ call'[t].op = call[t].op /\ call'[t].id = call[t].id
            /\ call'[t].snap = call[t].snap /\ call'[t].right = call[t].right
            /\ call'[t].newid = call[t].newid
  BY <1>1, <1>3, <1>4 DEF Quiet, Calls
<1>6. ThreadTyped'
  <2>1. call' = call \/ call' \in [Threads -> Calls]
    <3>1. ASSUME 0 <= a, call' = [call EXCEPT ![t].new = <<b, a>>] PROVE call' \in [Threads -> Calls]
      <4>1. [call[t] EXCEPT !.new = <<b, a>>] \in Calls
        BY <1>4, <3>1 DEF Calls, Pairs
      <4> QED BY <1>4, <3>1, <4>1
    <3> QED BY <1>1, <3>1
  <2> QED BY <1>1, <1>3, <1>4, <2>1 DEF Typed, ThreadTyped, Pc
<1>7. HeapOK' /\ PointersOK' /\ TreeOK' /\ DyingOK' /\ PushOK' /\ Dead' = Dead /\ Grows
  BY <1>2, <1>3, HeapKept, DeadKept, TreeKept, SameGrows
<1>8. CallsOK'
  <2>1. CallOK(t)
    BY DEF CallsOK
  <2>2. <<b, a>> # Null
    BY BlocksAre, Constants DEF Typed
  <2>3. CallOK(t)'
    BY <1>1, <1>2, <1>3, <1>5, <2>1, <2>2 DEF CallOK, IsNode, Kind, Pointers, InChunks, Allocating
  <2> QED BY <1>5, <1>7, <2>3, CallKept DEF CallsOK
<1>9. SnapsOK'
  <2>1. ASSUME NEW u \in Threads PROVE SnapOK(u)'
    <3>1. SnapOK(u)
      BY DEF SnapsOK
    <3>2. pc'[u] = pc[u] \/ pc[u] # "out"
      BY <1>1, <1>5 DEF Quiet
    <3>3. call'[u] = call[u] \/ \E n, d : call'[u] = [call[u] EXCEPT !.new = n, !.newid = d]
      <4>1. ASSUME call'[t] = [call[t] EXCEPT !.new = <<b, a>>]
            PROVE  \E n, d : call'[t] = [call[t] EXCEPT !.new = n, !.newid = d]
        <5>1. call'[t] = [call[t] EXCEPT !.new = <<b, a>>, !.newid = call[t].newid]
          BY <1>4, <4>1 DEF Calls
        <5> QED BY <5>1
      <4>2. CASE u # t
        BY <1>5, <4>2 DEF Quiet
      <4>3. CASE u = t
        <5>1. call'[t] = call[t] \/ call'[t] = [call[t] EXCEPT !.new = <<b, a>>]
          BY <1>5
        <5>2. call'[t] = call[t] \/ \E n, d : call'[t] = [call[t] EXCEPT !.new = n, !.newid = d]
          BY <4>1, <5>1, Zenon
        <5> QED BY <4>3, <5>2, Zenon
      <4> QED BY <4>2, <4>3
    <3> QED BY <1>3, <1>4, <1>7, <3>1, <3>2, <3>3, SnapKept
  <2> QED BY <2>1 DEF SnapsOK
<1>10. PopsOK'
  <2>1. pc'[t] \notin {"read", "popcas"}
    BY <1>5, <1>1
  <2> QED BY <1>3, <1>5, <2>1, PopKept DEF PopsOK, Quiet
<1>11. IdsOK'
  <2>1. \A u \in Threads : (HeldBy(u)' <=> HeldBy(u)) /\ (HeldBy(u) => call'[u].newid = call[u].newid)
    BY <1>1, <1>5 DEF HeldBy, Quiet, InChunks
  <2> QED BY <1>3, <2>1, IdsKept DEF CurTop
<1>12. StackTyped' /\ CleanTyped'
  BY <1>3 DEF Typed, StackTyped, CleanTyped
<1> QED BY <1>2, <1>6, <1>7, <1>8, <1>9, <1>10, <1>11, <1>12, TakeChunks, TakeTails DEF Typed

-----------------------------------------------------------------------------
(* Taking a NodeID. *)

LEMMA PopInv ==
  ASSUME IdInv, NEW t \in Threads, Pop(t) \/ PopRead(t) \/ (PopCas(t) /\ top # popped[t])
  PROVE  IdInv'
<1> USE DEF IdInv
<1>1. /\ heap' = heap /\ table' = table /\ retired' = retired /\ todo' = todo /\ pushing' = pushing
      /\ data' = data /\ top' = top /\ next_unused' = next_unused /\ chunk' = chunk
      /\ UNCHANGED <<tail, next, freed>>
  BY DEF stackVars, cleanVars, memVars, Pop, PopRead, PopCas
<1>2. /\ call[t] \in Calls /\ call \in [Threads -> Calls] /\ pc \in [Threads -> Pc] /\ popped \in [Threads -> Tops]
      /\ top \in Tops /\ data \in [Ids -> 0 .. NumIds] /\ CallOK(t) /\ PopOK(t)
  BY DEF Typed, ThreadTyped, StackTyped, CallsOK, PopsOK
<1>3. call[t].op = "split" /\ pc[t] \notin InChunks \cup {"cas", "out"}
  BY <1>2 DEF CallOK, Pop, PopRead, PopCas, InChunks
<1>4. /\ \A u \in Threads \ {t} : Quiet(u)
      /\ pc'[t] \in {"fresh", "read", "popcas"} /\ pc' \in [Threads -> Pc]
  BY <1>1, <1>2 DEF Quiet, Pop, PopRead, PopCas, To, Pc
<1>5. \/ /\ call' = call \/ call' = [call EXCEPT ![t].newid = 0]
         /\ popped' = [popped EXCEPT ![t] = top] /\ (pc'[t] = "read" => top.at >= 1) /\ pc'[t] # "popcas"
      \/ /\ call' = [call EXCEPT ![t].newid = data[popped[t].at]] /\ popped' = popped
         /\ pc[t] = "read" /\ pc'[t] = "popcas"
  BY <1>2 DEF Pop, PopRead, PopCas, To, Tops
<1>6. ThreadTyped'
  <2>1. ASSUME pc[t] = "read" PROVE data[popped[t].at] \in 0 .. NumIds
    <3>1. popped[t].at \in Ids
      BY <1>2, <2>1, Constants DEF PopOK, Tops
    <3> QED BY <1>2, <3>1
  <2>2. pc[t] = "read" => [call EXCEPT ![t].newid = data[popped[t].at]] \in [Threads -> Calls]
    BY <1>2, <2>1 DEF Calls
  <2>3. [call EXCEPT ![t].newid = 0] \in [Threads -> Calls]
    <3>1. 0 \in 0 .. NumIds
      BY Constants
    <3> QED BY <1>2, <3>1 DEF Calls
  <2> QED BY <1>1, <1>2, <1>4, <1>5, <2>2, <2>3 DEF Typed, ThreadTyped
<1>7. /\ call'[t] = call[t] \/ \E d : call'[t] = [call[t] EXCEPT !.newid = d]
      /\ call'[t].op = call[t].op /\ call'[t].new = call[t].new /\ call'[t].id = call[t].id
      /\ call'[t].snap = call[t].snap /\ call'[t].right = call[t].right
  <2>1. CASE call' = call
    BY <2>1
  <2>2. CASE \E d : call' = [call EXCEPT ![t].newid = d]
    <3>1. PICK d : call' = [call EXCEPT ![t].newid = d]
      BY <2>2
    <3>2. call'[t] = [call[t] EXCEPT !.newid = d]
      BY <1>2, <2>2, <3>1
    <3>3. /\ call'[t].op = call[t].op /\ call'[t].new = call[t].new /\ call'[t].id = call[t].id
          /\ call'[t].snap = call[t].snap /\ call'[t].right = call[t].right
      BY <1>2, <3>2 DEF Calls
    <3> QED BY <3>2, <3>3
  <2> QED BY <1>5, <2>1, <2>2
<1>8. Alone(t)
  BY <1>1, <1>2, <1>3, <1>4, <1>7 DEF Alone, cleanVars, Blocks, CallOK
<1>9. CallOK(t)'
  BY <1>1, <1>2, <1>3, <1>4, <1>7 DEF CallOK, IsNode, Kind, Pointers, InChunks
<1>10. SnapOK(t)'
  BY <1>3, <1>6, <1>7, <1>8, AloneSnap DEF ThreadTyped
<1>11. CurTop' = CurTop
  BY <1>1 DEF CurTop
<1>12. PopsOK'
  <2>1. PopOK(t)'
    <3>1. CASE popped' = [popped EXCEPT ![t] = top] /\ (pc'[t] = "read" => top.at >= 1) /\ pc'[t] # "popcas"
      <4>1. popped'[t] = top
        BY <1>2, <3>1
      <4>2. top.version <= CurTop.version /\ (top.at >= 1 => CurTop = top)
        <5>1. pushing.top \in Tops /\ top.version \in Nat
          BY DEF Typed, CleanTyped, StackTyped, Tops
        <5> QED BY <5>1, Constants DEF CurTop, PushOK, Tops
      <4> QED BY <1>11, <3>1, <4>1, <4>2 DEF PopOK
    <3>2. CASE /\ call' = [call EXCEPT ![t].newid = data[popped[t].at]] /\ popped' = popped
               /\ pc[t] = "read" /\ pc'[t] = "popcas"
      <4>1. call'[t].newid = data[popped[t].at]
        BY <1>2, <3>2 DEF Calls
      <4> QED BY <1>1, <1>2, <1>11, <3>2, <4>1 DEF PopOK
    <3> QED BY <1>5, <3>1, <3>2
  <2>2. \A u \in Threads \ {t} : popped'[u] = popped[u]
    BY <1>2, <1>5
  <2> QED BY <1>1, <1>4, <2>1, <2>2, PopKept DEF PopsOK, Quiet
<1>13. IdsOK'
  <2>1. \A u \in Threads : (HeldBy(u)' <=> HeldBy(u)) /\ (HeldBy(u) => call'[u].newid = call[u].newid)
    BY <1>3, <1>4 DEF HeldBy, Quiet, InChunks
  <2> QED BY <1>1, <1>11, <2>1, IdsKept
<1>14. StackTyped' /\ CleanTyped'
  BY <1>1 DEF Typed, StackTyped, CleanTyped
<1> QED BY <1>1, <1>4, <1>6, <1>8, <1>9, <1>10, <1>12, <1>13, <1>14, AloneKeeps DEF ThreadTyped, Typed

(* A thread gets a NodeID, from the stack or from the counter. *)
Given(t, d) ==
  /\ pc[t] \in {"popcas", "fresh"} /\ pc' = [pc EXCEPT ![t] = "try"]
  /\ chunk' = [chunk EXCEPT ![t] = BaseOf(call[t].snap)]
  /\ call' = call \/ call' = [call EXCEPT ![t].newid = d]
  /\ call'[t].newid = d
  /\ UNCHANGED <<memVars, table, retired, data, popped, cleanVars>>

LEMMA GivenIs ==
  ASSUME IdInv, NEW t \in Threads, NEW d \in Ids, Given(t, d)
  PROVE  /\ ThreadTyped' /\ Alone(t) /\ CallsOK' /\ SnapsOK' /\ TailsOK' /\ ~HeldBy(t) /\ HeldBy(t)'
         /\ \A u \in Threads \ {t} : Quiet(u)
<1> USE DEF IdInv
<1>1. /\ heap' = heap /\ table' = table /\ retired' = retired /\ todo' = todo /\ pushing' = pushing
      /\ data' = data /\ popped' = popped /\ UNCHANGED <<tail, next, freed>>
  BY DEF cleanVars, memVars, Given
<1>2. /\ call[t] \in Calls /\ call \in [Threads -> Calls] /\ pc \in [Threads -> Pc] /\ popped \in [Threads -> Tops]
      /\ chunk \in [Threads -> Nat] /\ CallOK(t) /\ d \in 0 .. NumIds
  BY Constants DEF Typed, ThreadTyped, CallsOK
<1>3. /\ call[t].op = "split" /\ pc[t] \notin InChunks \cup {"cas", "out"} /\ call[t].new = Null
      /\ IsNode(call[t].snap)
  BY <1>2 DEF CallOK, Given, InChunks
<1>4. PICK b \in Blocks : b = BaseOf(call[t].snap)
  BY <1>3 DEF IsNode, HeapOK, NodeOK, Kind, BaseOf
<1>5. b \in Nat
  BY BlocksAre DEF Typed
<1>6. /\ \A u \in Threads \ {t} : Quiet(u)
      /\ pc'[t] = "try" /\ chunk'[t] = b /\ pc' \in [Threads -> Pc] /\ chunk' \in [Threads -> Nat]
  <2>1. \A u \in Threads \ {t} : call'[u] = call[u]
    BY <1>2 DEF Given
  <2> QED BY <1>1, <1>2, <1>4, <1>5, <2>1 DEF Quiet, Given, Pc
<1>7. call' \in [Threads -> Calls]
  <2>1. [call EXCEPT ![t].newid = d] \in [Threads -> Calls]
    BY <1>2 DEF Calls
  <2> QED BY <1>2, <2>1 DEF Given
<1>8. /\ call'[t] = call[t] \/ \E e : call'[t] = [call[t] EXCEPT !.newid = e]
      /\ call'[t].op = call[t].op /\ call'[t].new = call[t].new /\ call'[t].id = call[t].id
      /\ call'[t].snap = call[t].snap /\ call'[t].right = call[t].right
  <2>1. CASE call' = call
    BY <2>1
  <2>2. CASE call' = [call EXCEPT ![t].newid = d]
    <3>1. call'[t] = [call[t] EXCEPT !.newid = d]
      BY <1>2, <2>2
    <3>2. /\ call'[t].op = call[t].op /\ call'[t].new = call[t].new /\ call'[t].id = call[t].id
          /\ call'[t].snap = call[t].snap /\ call'[t].right = call[t].right
      BY <1>2, <3>1 DEF Calls
    <3> QED BY <3>1, <3>2
  <2> QED BY <2>1, <2>2 DEF Given
<1>9. Alone(t)
  BY <1>1, <1>3, <1>6, <1>8 DEF Alone, cleanVars, Blocks
<1>10. CallOK(t)'
  BY <1>1, <1>2, <1>3, <1>4, <1>6, <1>8 DEF CallOK, IsNode, Kind, Pointers, InChunks, Allocating, Blocks
<1>11. SnapOK(t)'
  BY <1>3, <1>7, <1>8, <1>9, AloneSnap
<1>12. ~HeldBy(t) /\ HeldBy(t)'
  BY <1>3, <1>6, <1>8 DEF HeldBy, InChunks
<1> QED BY <1>1, <1>2, <1>6, <1>7, <1>9, <1>10, <1>11, <1>12, AloneKeeps DEF ThreadTyped

LEMMA GivenIds ==
  ASSUME IdsOK, NEW t \in Threads, NEW d \in Ids,
         data' = data, table' = table, pushing' = pushing,
         ~HeldBy(t), HeldBy(t)', call'[t].newid = d, \A u \in Threads \ {t} : Quiet(u),
         \A i : i \in 1 .. CurTop'.at => i \in 1 .. CurTop.at,
         \A id \in Ids : OnStack(id)' <=> OnStack(id) /\ id # d,
         ~InHand(d), table[d] = Null, pushing.id # d,
         \A id \in Ids : id < next_unused' <=> id < next_unused \/ id = d,
         OnStack(d) \/ ~(d < next_unused)
  PROVE  IdsOK'
<1>1. \A u \in Threads \ {t} : (HeldBy(u)' <=> HeldBy(u)) /\ call'[u] = call[u]
  BY DEF HeldBy, Quiet
<1>2. \A id \in Ids : InHand(id)' <=> InHand(id) \/ id = d
  BY <1>1 DEF InHand
<1>3. /\ \A i \in 1 .. CurTop'.at : data'[i] \in Ids
      /\ \A i, j \in 1 .. CurTop'.at : data'[i] = data'[j] => i = j
  BY DEF IdsOK
<1>4. \A u \in Threads : HeldBy(u)' => call'[u].newid \in Ids
  BY <1>1 DEF IdsOK
<1>5. \A u, v \in Threads : HeldBy(u)' /\ HeldBy(v)' /\ call'[u].newid = call'[v].newid => u = v
  BY <1>1 DEF IdsOK, InHand
<1>6. ASSUME NEW id \in Ids
      PROVE /\ OnStack(id)' => ~InHand(id)' /\ table'[id] = Null /\ pushing'.id # id
            /\ InHand(id)' => table'[id] = Null /\ pushing'.id # id
            /\ id < next_unused' <=> OnStack(id)' \/ InHand(id)' \/ table'[id] # Null \/ pushing'.id = id
  BY <1>2 DEF IdsOK
<1> QED BY <1>3, <1>4, <1>5, <1>6 DEF IdsOK

LEMMA FreshInv ==
  ASSUME IdInv, NEW t \in Threads, Fresh(t)
  PROVE  IdInv'
<1> USE DEF IdInv
<1>1. PICK d : d = next_unused
  OBVIOUS
<1>2. /\ call \in [Threads -> Calls] /\ next_unused \in 1 .. NumIds + 1 /\ d \in Ids
      /\ d \in Nat /\ next_unused' = d + 1 /\ d + 1 \in 1 .. NumIds + 1
  BY <1>1, Constants DEF Fresh, Typed, StackTyped, ThreadTyped
<1>3. Given(t, d)
  <2>1. call' = [call EXCEPT ![t].newid = d] /\ call'[t].newid = d
    BY <1>1, <1>2 DEF Fresh, Calls
  <2> QED BY <2>1 DEF Fresh, Given, To
<1>4. /\ ThreadTyped' /\ Alone(t) /\ CallsOK' /\ SnapsOK' /\ TailsOK' /\ ~HeldBy(t) /\ HeldBy(t)'
      /\ \A u \in Threads \ {t} : Quiet(u)
  BY <1>2, <1>3, GivenIs
<1>5. /\ data' = data /\ top' = top /\ table' = table /\ pushing' = pushing /\ CurTop' = CurTop
      /\ popped' = popped /\ call'[t].newid = d
  BY <1>3 DEF Fresh, Given, cleanVars, CurTop
<1>6. PopsOK'
  <2>1. pc'[t] \notin {"read", "popcas"}
    BY <1>3 DEF Given, Typed, ThreadTyped
  <2> QED BY <1>4, <1>5, <2>1, PopKept DEF PopsOK, Quiet
<1>7. IdsOK'
  <2>1. ~(d < next_unused)
    BY <1>1, <1>2
  <2>2. ~OnStack(d) /\ ~InHand(d) /\ table[d] = Null /\ pushing.id # d
    BY <1>2, <2>1 DEF IdsOK
  <2>3. \A id \in Ids : id < next_unused' <=> id < next_unused \/ id = d
    BY <1>1, <1>2 DEF Ids
  <2>4. \A id : OnStack(id)' <=> OnStack(id)
    BY <1>5 DEF OnStack
  <2> QED BY <1>2, <1>4, <1>5, <2>1, <2>2, <2>3, <2>4, GivenIds
<1>8. StackTyped' /\ CleanTyped'
  BY <1>2, <1>3, <1>5 DEF Typed, StackTyped, CleanTyped, Given, cleanVars
<1> QED BY <1>4, <1>5, <1>6, <1>7, <1>8, AloneKeeps DEF Typed, ThreadTyped

LEMMA PopWon ==
  ASSUME IdInv, NEW t \in Threads, PopCas(t), top = popped[t]
  PROVE  IdInv'
<1> USE DEF IdInv
<1>1. /\ pc[t] = "popcas" /\ top.at >= 1 /\ top \in Tops /\ pushing.top = NoTop /\ CurTop = top
      /\ call[t].newid = data[top.at] /\ call \in [Threads -> Calls] /\ call[t].op = "split"
  BY Constants DEF PopCas, PopsOK, PopOK, PushOK, CurTop, Typed, StackTyped, ThreadTyped, CallsOK, CallOK
<1>2. PICK n \in Nat, v \in Nat : n + 1 = top.at /\ v = top.version
  <2>1. top.at - 1 \in Nat /\ top.version \in Nat /\ (top.at - 1) + 1 = top.at
    BY <1>1, Constants DEF Tops
  <2> QED BY <2>1
<1>3. /\ top' = [at |-> n, version |-> v + 1] /\ top'.at = n /\ top'.version = v + 1
      /\ n + 1 \in Ids /\ n \in -1 .. NumIds
  BY <1>1, <1>2, Constants DEF PopCas, NextVersion, Tops
<1>4. PICK d : d = data[top.at]
  OBVIOUS
<1>5. d \in Ids /\ OnStack(d)
  BY <1>1, <1>2, <1>4 DEF IdsOK, OnStack
<1>6. Given(t, d)
  BY <1>1, <1>4 DEF Given, PopCas, To
<1>7. /\ ThreadTyped' /\ Alone(t) /\ CallsOK' /\ SnapsOK' /\ TailsOK' /\ ~HeldBy(t) /\ HeldBy(t)'
      /\ \A u \in Threads \ {t} : Quiet(u)
  BY <1>5, <1>6, GivenIs
<1>8. /\ data' = data /\ table' = table /\ pushing' = pushing /\ popped' = popped /\ call'[t].newid = d
      /\ next_unused' = next_unused /\ todo' = todo /\ heap' = heap
  BY <1>6 DEF PopCas, Given, cleanVars, memVars
<1>9. CurTop' = top'
  BY <1>1, <1>8 DEF CurTop
<1>10. PushOK'
  BY <1>1, <1>3, <1>8, <1>9, Constants DEF PushOK, IsRemove, Kind
<1>11. PopsOK'
  <2>1. \A u \in Threads : popped[u].version \in Nat /\ popped[u].version <= v
    BY <1>1, <1>2 DEF PopsOK, PopOK, Typed, ThreadTyped, Tops
  <2>2. ASSUME NEW u \in Threads
        PROVE  popped'[u].version <= CurTop'.version /\ popped'[u].version # CurTop'.version
    BY <1>3, <1>8, <1>9, <2>1
  <2>3. \A u \in Threads : pc'[u] \in {"read", "popcas"} => pc'[u] = pc[u]
    BY <1>6, <1>7 DEF Given, Quiet, Typed, ThreadTyped
  <2> QED BY <1>8, <2>2, <2>3 DEF PopsOK, PopOK
<1>12. IdsOK'
  <2>1. ~InHand(d) /\ table[d] = Null /\ pushing.id # d
    BY <1>5 DEF IdsOK
  <2>2. \A i : i \in 1 .. n => i \in 1 .. CurTop.at /\ i # n + 1
    BY <1>1, <1>2
  <2>3. \A i : i \in 1 .. CurTop.at <=> i \in 1 .. n \/ i = n + 1
    BY <1>1, <1>2
  <2>4. \A id \in Ids : OnStack(id)' <=> OnStack(id) /\ id # d
    <3>1. \A id : OnStack(id)' <=> \E i \in 1 .. n : data[i] = id
      BY <1>3, <1>8, <1>9 DEF OnStack
    <3>2. d = data[n + 1]
      BY <1>2, <1>4
    <3>3. \A i, j \in 1 .. CurTop.at : data[i] = data[j] => i = j
      BY DEF IdsOK
    <3> QED BY <2>2, <2>3, <3>1, <3>2, <3>3 DEF OnStack
  <2>5. \A id \in Ids : id < next_unused <=> id < next_unused \/ id = d
    BY <1>5 DEF IdsOK
  <2>6. \A i : i \in 1 .. CurTop'.at => i \in 1 .. CurTop.at
    BY <1>3, <1>9, <2>2
  <2> QED BY <1>5, <1>7, <1>8, <2>1, <2>4, <2>5, <2>6, GivenIds
<1>13. StackTyped' /\ CleanTyped'
  <2>1. top' \in Tops
    BY <1>2, <1>3 DEF Tops
  <2> QED BY <1>8, <2>1, <1>6 DEF Typed, StackTyped, CleanTyped, Given, cleanVars
<1> QED BY <1>7, <1>10, <1>11, <1>12, <1>13, AloneKeeps DEF Typed, ThreadTyped

-----------------------------------------------------------------------------
(* Posting: what all the CASes do, with what they retire. *)

Posted(t, G) ==
  /\ pc[t] = "cas" /\ Leave(t, G) /\ G \subseteq Pointers'
  /\ Grows /\ MemTyped'
  /\ \A b \in Blocks : tail'[b] = tail[b]
  /\ \A b \in Blocks' \ Blocks : tail'[b] \in 0 .. ChunkSize
  /\ \A p \in Pointers' \ Pointers :
       NodeOK(p)' /\ (IsRecord(p)' => t \in Taken /\ p = call[t].new /\ SizeAt(p)' = SizeOf(t))
  /\ table' = [id \in Ids |-> table'[id]]
  /\ \A id \in Ids : table'[id] # table[id] =>
       table'[id] \in Pointers' \ Pointers /\ ~Removed(id) /\ id # pushing.id
  /\ \A id \in Ids : table'[id] # Null <=> table[id] # Null \/ (HeldBy(t) /\ id = call[t].newid)
  /\ \A p \in G : IsRemove(p)' =>
       ~Dying(heap'[p].base) /\ table'[heap'[p].base] # Null
         /\ (Removed(heap'[p].base) \/ heap'[p].base \notin Live)
  /\ \A p, q \in G : IsRemove(p)' /\ IsRemove(q)' => p = q
  /\ UNCHANGED <<freed, stackVars, calls, cleanVars>>

(* Retired by a call that leaves. *)
LEMMA LeaveIs ==
  ASSUME Typed, NEW t \in Threads, NEW G \in SUBSET Pairs, Leave(t, G)
  PROVE  /\ retired' \subseteq [ptr : Pairs, until : SUBSET Threads]
         /\ \A r \in retired' : \/ \E q \in retired : r = [q EXCEPT !.until = @ \ {t}] /\ r.ptr = q.ptr
                                \/ r.ptr \in G /\ r = [ptr |-> r.ptr, until |-> Inside \ {t}]
         /\ \A q \in retired : \E r \in retired' : r.ptr = q.ptr
         /\ \A p \in G : \E r \in retired' : r.ptr = p
         /\ ThreadTyped' /\ pc'[t] = "out" /\ call'[t] = NoCall /\ popped'[t] = NoTop
         /\ \A u \in Threads \ {t} : Quiet(u)
<1>1. retired \subseteq [ptr : Pairs, until : SUBSET Threads] /\ Inside \subseteq Threads
  BY DEF Typed, CleanTyped, Inside
<1> DEFINE Less(r) == [r EXCEPT !.until = @ \ {t}]
<1>2. retired' = {Less(r) : r \in retired \cup {Garbage(p) : p \in G}}
  BY DEF Leave
<1>3. \A q \in retired : Less(q) \in [ptr : Pairs, until : SUBSET Threads] /\ Less(q).ptr = q.ptr
  BY <1>1
<1>4. \A p \in G : Less(Garbage(p)) = [ptr |-> p, until |-> Inside \ {t}]
  BY DEF Garbage
<1>5. \A p \in G : [ptr |-> p, until |-> Inside \ {t}] \in [ptr : Pairs, until : SUBSET Threads]
  BY <1>1
<1>6. ThreadTyped' /\ pc'[t] = "out" /\ call'[t] = NoCall /\ popped'[t] = NoTop
      /\ \A u \in Threads \ {t} : Quiet(u)
  <2>1. NoBlock \in Nat /\ NoTop \in Tops /\ NoCall \in Calls
    BY Constants DEF NoBlock
  <2> QED BY <2>1 DEF Leave, To, Typed, ThreadTyped, Quiet, Pc
<1> HIDE DEF Less
<1>7. ASSUME NEW r \in retired'
      PROVE  /\ \/ \E q \in retired : r = Less(q) /\ r.ptr = q.ptr
                \/ r.ptr \in G /\ r = [ptr |-> r.ptr, until |-> Inside \ {t}]
             /\ r \in [ptr : Pairs, until : SUBSET Threads]
  <2>1. (\E q \in retired : r = Less(q)) \/ (\E p \in G : r = Less(Garbage(p)))
    BY <1>2
  <2>2. CASE \E q \in retired : r = Less(q)
    BY <1>3, <2>2
  <2>3. CASE \E p \in G : r = Less(Garbage(p))
    <3>1. PICK p \in G : r = [ptr |-> p, until |-> Inside \ {t}]
      BY <1>4, <2>3
    <3>2. r.ptr = p
      BY <3>1
    <3> QED BY <1>5, <3>1, <3>2
  <2> QED BY <2>1, <2>2, <2>3
<1>8. \A q \in retired : \E r \in retired' : r.ptr = q.ptr
  BY <1>2, <1>3
<1>9. \A p \in G : \E r \in retired' : r.ptr = p
  <2>1. \A p \in G : Less(Garbage(p)) \in retired' /\ Less(Garbage(p)).ptr = p
    BY <1>2, <1>4
  <2> QED BY <2>1
<1> QED BY <1>6, <1>7, <1>8, <1>9 DEF Less

LEMMA PostedDead ==
  ASSUME IdInv, NEW t \in Threads, NEW G, Posted(t, G)
  PROVE  /\ G \in SUBSET Pairs /\ Dead' = Dead \cup G /\ HeapOK' /\ DyingOK'
         /\ \A id : Dying(id)' <=> Dying(id) \/ \E p \in G : IsRemove(p)' /\ heap'[p].base = id
         /\ \A id \in Ids : id \in Live' <=>
              /\ id \in Live \/ (HeldBy(t) /\ id = call[t].newid)
              /\ ~\E p \in G : IsRemove(p)' /\ heap'[p].base = id
<1> USE DEF IdInv
<1>1. HeapOK'
  BY NodeKept DEF HeapOK, Posted
<1>2. G \in SUBSET Pairs
  BY <1>1 DEF HeapOK, NodeOK, Posted
<1>3. Leave(t, G) /\ todo' = todo /\ pushing' = pushing
  BY DEF Posted, cleanVars
<1>4. /\ \A r \in retired' : \/ \E q \in retired : r = [q EXCEPT !.until = @ \ {t}] /\ r.ptr = q.ptr
                             \/ r.ptr \in G /\ r = [ptr |-> r.ptr, until |-> Inside \ {t}]
      /\ \A q \in retired : \E r \in retired' : r.ptr = q.ptr
      /\ \A p \in G : \E r \in retired' : r.ptr = p
  BY <1>2, <1>3, LeaveIs
<1>5. Dead' = Dead \cup G
  BY <1>3, <1>4 DEF Dead
<1>6. \A p \in Dead : p \in Pointers /\ heap'[p] = heap[p] /\ (IsRemove(p)' <=> IsRemove(p))
  BY DEF PointersOK, Posted, Grows, IsRemove, Kind
<1>7. \A id : Dying(id)' <=> Dying(id) \/ \E p \in G : IsRemove(p)' /\ heap'[p].base = id
  BY <1>5, <1>6 DEF Dying, IsRemove
<1>8. ASSUME HeldBy(t) PROVE ~Dying(call[t].newid) /\ call[t].newid \in Ids
  <2>1. PICK d \in Ids : d = call[t].newid
    BY <1>8 DEF IdsOK
  <2>2. InHand(d)
    BY <1>8, <2>1 DEF InHand
  <2> QED BY <2>1, <2>2 DEF IdsOK, DyingOK, Dying, IsRemove
<1>9. \A id \in Ids : id \in Live' <=>
              /\ id \in Live \/ (HeldBy(t) /\ id = call[t].newid)
              /\ ~\E p \in G : IsRemove(p)' /\ heap'[p].base = id
  BY <1>7, <1>8 DEF Live, Posted
<1>10. ASSUME NEW r \in retired', NEW q \in retired', IsRemove(r.ptr)', IsRemove(q.ptr)',
              heap'[r.ptr].base = heap'[q.ptr].base
       PROVE  r = q
  <2>1. CASE r.ptr \in G /\ q.ptr \in G /\ r = [ptr |-> r.ptr, until |-> Inside \ {t}]
                                        /\ q = [ptr |-> q.ptr, until |-> Inside \ {t}]
    BY <1>10, <2>1 DEF Posted
  <2>2. \A x \in retired : x.ptr \in Dead
    BY DEF Dead
  <2>3. ASSUME NEW x \in retired, NEW p \in G, IsRemove(x.ptr)', IsRemove(p)' PROVE heap'[x.ptr].base # heap'[p].base
    <3>1. Dying(heap[x.ptr].base)
      BY <1>6, <2>2, <2>3 DEF Dying, IsRemove
    <3> QED BY <1>6, <2>2, <2>3, <3>1 DEF Posted
  <2>4. CASE (\E x \in retired : r = [x EXCEPT !.until = @ \ {t}] /\ r.ptr = x.ptr)
          /\ (\E x \in retired : q = [x EXCEPT !.until = @ \ {t}] /\ q.ptr = x.ptr)
    <3>1. PICK x \in retired : r = [x EXCEPT !.until = @ \ {t}] /\ r.ptr = x.ptr
      BY <2>4
    <3>2. PICK y \in retired : q = [y EXCEPT !.until = @ \ {t}] /\ q.ptr = y.ptr
      BY <2>4
    <3>3. x = y
      BY <1>6, <1>10, <2>2, <3>1, <3>2 DEF DyingOK
    <3> QED BY <3>1, <3>2, <3>3
  <2> QED BY <1>4, <1>10, <2>1, <2>3, <2>4
<1>11. ASSUME NEW i \in DOMAIN todo', IsRemove(todo[i].ptr)'
       PROVE  /\ Len(todo') = 1
              /\ \A r \in retired' : IsRemove(r.ptr)' => heap'[r.ptr].base # heap'[todo'[i].ptr].base
  <2>1. i \in DOMAIN todo /\ todo[i].ptr \in Dead /\ IsRemove(todo[i].ptr) /\ todo' = todo
    BY <1>3, <1>6, <1>11 DEF Dead
  <2>2. Dying(heap[todo[i].ptr].base)
    BY <2>1 DEF Dying, IsRemove
  <2>3. ASSUME NEW r \in retired', IsRemove(r.ptr)' PROVE heap'[r.ptr].base # heap'[todo'[i].ptr].base
    <3>1. CASE r.ptr \in G
      BY <1>6, <2>1, <2>2, <2>3, <3>1 DEF Posted
    <3>2. CASE \E q \in retired : r.ptr = q.ptr
      <4>1. PICK q \in retired : r.ptr = q.ptr
        BY <3>2
      <4>2. q.ptr \in Dead
        BY DEF Dead
      <4> QED BY <1>6, <2>1, <2>3, <4>1, <4>2 DEF DyingOK
    <3> QED BY <1>4, <3>1, <3>2
  <2> QED BY <2>1, <2>3 DEF DyingOK
<1>12. ASSUME NEW p \in Dead', IsRemove(p)'
       PROVE  table'[heap'[p].base] # Null \/ heap'[p].base = pushing'.id
  <2>1. CASE p \in G
    BY <1>12, <2>1 DEF Posted
  <2>2. CASE p \in Dead
    <3>1. table[heap[p].base] # Null \/ heap[p].base = pushing.id
      BY <1>6, <1>12, <2>2 DEF DyingOK
    <3>2. heap[p].base \in Ids
      BY <1>6, <1>12, <2>2 DEF HeapOK, NodeOK, IsRemove, Kind
    <3> QED BY <1>3, <1>6, <2>2, <3>1, <3>2 DEF Posted
  <2> QED BY <1>5, <2>1, <2>2
<1>13. DyingOK'
  BY <1>10, <1>11, <1>12 DEF DyingOK
<1> QED BY <1>1, <1>2, <1>5, <1>7, <1>9, <1>13

LEMMA PostedKeeps ==
  ASSUME IdInv, NEW t \in Threads, NEW G, Posted(t, G)
  PROVE  Typed' /\ PointersOK' /\ CallsOK' /\ ChunksOK' /\ TailsOK' /\ PushOK' /\ PopsOK' /\ IdsOK'
<1> USE DEF IdInv
<1>1. /\ G \in SUBSET Pairs /\ Dead' = Dead \cup G /\ HeapOK'
  BY PostedDead
<1>2. /\ Leave(t, G) /\ todo' = todo /\ pushing' = pushing /\ data' = data /\ top' = top
      /\ next_unused' = next_unused /\ CurTop' = CurTop
  BY DEF Posted, cleanVars, stackVars, CurTop
<1>3. /\ retired' \subseteq [ptr : Pairs, until : SUBSET Threads]
      /\ ThreadTyped' /\ pc'[t] = "out" /\ call'[t] = NoCall /\ popped'[t] = NoTop
      /\ \A u \in Threads \ {t} : Quiet(u)
  BY <1>1, <1>2, LeaveIs
<1>4. Grows /\ Pointers \subseteq Pointers' /\ Blocks \subseteq Blocks'
  BY DEF Posted, Grows
<1>5. table' \in [Ids -> Pairs]
  <2>1. \A id \in Ids : table'[id] \in Pairs
    BY <1>1 DEF Posted, HeapOK, NodeOK, Typed, StackTyped
  <2> QED BY <2>1 DEF Posted
<1>6. Typed'
  BY <1>2, <1>3, <1>5 DEF Typed, StackTyped, CleanTyped, Posted
<1>7. PointersOK'
  <2>1. \A id \in Ids : table'[id] = Null \/ table'[id] \in Pointers'
    BY <1>4 DEF PointersOK, Posted
  <2>2. Dead' \subseteq Pointers'
    BY <1>1, <1>4 DEF PointersOK, Posted
  <2>3. \A i \in DOMAIN todo : todo[i].ptr \in Pointers /\ heap'[todo[i].ptr] = heap[todo[i].ptr]
    BY <1>4 DEF PointersOK, Dead, Grows
  <2> QED BY <1>2, <2>1, <2>2, <2>3 DEF PointersOK, Kind
<1>8. CallsOK'
  <2>1. CallOK(t)'
    BY <1>3, Constants DEF CallOK, NoCall, InChunks
  <2>2. \A u \in Threads \ {t} : CallOK(u)'
    BY <1>3, <1>4, CallKept DEF CallsOK
  <2> QED BY <2>1, <2>2 DEF CallsOK
<1>9. ChunksOK'
  <2>1. Taken' = Taken \ {t} /\ \A u \in Taken' : call'[u] = call[u]
    BY <1>3, Constants DEF Taken, Quiet
  <2>2. \A b \in Blocks : tail'[b] <= tail[b]
    <3>1. \A b \in Blocks : tail[b] \in Int
      BY BlocksAre DEF Typed
    <3> QED BY <3>1 DEF Posted
  <2>3. \A p \in Pointers' \ Pointers : IsRecord(p)' =>
            \E u \in Taken \ Taken' : p = call[u].new /\ SizeAt(p)' = SizeOf(u)
    BY <2>1 DEF Posted
  <2>4. MemTyped /\ ThreadTyped /\ MemTyped'
    BY DEF Typed, Posted
  <2> QED BY <1>4, <2>1, <2>2, <2>3, <2>4, ChunksKept
<1>10. TailsOK'
  <2>1. \A u \in Threads : pc'[u] = "sub" => pc[u] = "sub" /\ chunk'[u] = chunk[u] /\ chunk[u] \in Blocks
    BY <1>3 DEF Quiet, CallsOK, CallOK, InChunks
  <2>2. \A b \in Blocks : Subtracting(b)' \subseteq Subtracting(b)
    BY <2>1 DEF Subtracting
  <2>3. \A b \in Blocks' \ Blocks : Subtracting(b)' = {}
    BY <2>1 DEF Subtracting
  <2> QED BY <2>2, <2>3, TailsKept DEF Posted
<1>11. PushOK'
  <2>1. pushing.id # 0 => /\ todo # <<>> /\ IsRemove(Head(todo).ptr) /\ heap[Head(todo).ptr].base = pushing.id
                          /\ table[pushing.id] = Null /\ pushing.id \in Ids
    BY Constants DEF PushOK, Typed, CleanTyped
  <2>2. pushing.id # 0 => Head(todo).ptr \in Pointers
    <3>1. pushing.id # 0 => Head(todo) = todo[1] /\ 1 \in DOMAIN todo
      BY <2>1 DEF Typed, CleanTyped
    <3> QED BY <3>1 DEF PointersOK, Dead
  <2>3. pushing.id # 0 => IsRemove(Head(todo).ptr)' /\ heap'[Head(todo).ptr].base = pushing.id
    BY <1>2, <1>4, <2>1, <2>2 DEF Grows, IsRemove, Kind
  <2>4. pushing.id # 0 => table'[pushing.id] = Null
    BY <2>1 DEF Posted
  <2> QED BY <1>2, <2>1, <2>3, <2>4 DEF PushOK
<1>12. PopsOK'
  <2>1. PopOK(t)'
    <3>1. CurTop.version \in Nat
      BY DEF Typed, CleanTyped, StackTyped, CurTop, Tops
    <3> QED BY <1>2, <1>3, <3>1, Constants DEF PopOK
  <2>2. \A u \in Threads \ {t} : PopOK(u)'
    BY <1>2, <1>3, PopKept DEF Quiet, PopsOK
  <2> QED BY <2>1, <2>2 DEF PopsOK
<1>13. IdsOK'
  <2>1. ~HeldBy(t)'
    BY <1>3 DEF HeldBy, InChunks
  <2>2. \A u \in Threads \ {t} : (HeldBy(u)' <=> HeldBy(u)) /\ call'[u] = call[u]
    BY <1>3 DEF HeldBy, Quiet
  <2>3. \A id : OnStack(id)' <=> OnStack(id)
    BY <1>2 DEF OnStack
  <2>4. \A id : InHand(id) <=> InHand(id)' \/ (HeldBy(t) /\ call[t].newid = id)
    BY <2>1, <2>2 DEF InHand
  <2>5. \A id : HeldBy(t) /\ call[t].newid = id => ~InHand(id)'
    BY <2>1, <2>2 DEF InHand, IdsOK
  <2>6. /\ \A u \in Threads : HeldBy(u)' => call'[u].newid \in Ids
        /\ \A u, v \in Threads : HeldBy(u)' /\ HeldBy(v)' /\ call'[u].newid = call'[v].newid => u = v
    BY <2>1, <2>2 DEF IdsOK
  <2>7. /\ \A i \in 1 .. CurTop'.at : data'[i] \in Ids
        /\ \A i, j \in 1 .. CurTop'.at : data'[i] = data'[j] => i = j
    BY <1>2 DEF IdsOK
  <2>8. \A id \in Ids : table'[id] # Null <=> table[id] # Null \/ (HeldBy(t) /\ call[t].newid = id)
    BY DEF Posted
  <2>9. ASSUME NEW id \in Ids
        PROVE  /\ OnStack(id)' => ~InHand(id)' /\ table'[id] = Null /\ pushing'.id # id
               /\ InHand(id)' => table'[id] = Null /\ pushing'.id # id
               /\ id < next_unused' <=> OnStack(id)' \/ InHand(id)' \/ table'[id] # Null \/ pushing'.id = id
    BY <1>2, <2>3, <2>4, <2>5, <2>8 DEF IdsOK
  <2> QED BY <2>6, <2>7, <2>9 DEF IdsOK
<1> QED BY <1>6, <1>7, <1>8, <1>9, <1>10, <1>11, <1>12, <1>13

LEMMA PostedSnaps ==
  ASSUME IdInv, NEW t \in Threads, NEW G, Posted(t, G)
  PROVE  SnapsOK'
<1> USE DEF IdInv
<1>1. /\ G \in SUBSET Pairs /\ Dead' = Dead \cup G /\ HeapOK'
      /\ \A id \in Ids : id \in Live' <=>
              /\ id \in Live \/ (HeldBy(t) /\ id = call[t].newid)
              /\ ~\E p \in G : IsRemove(p)' /\ heap'[p].base = id
  BY PostedDead
<1>2. pc'[t] = "out" /\ \A u \in Threads \ {t} : Quiet(u)
  BY <1>1, LeaveIs DEF Posted
<1>3. \A id : Removed(id) => Removed(id)' \/ id \notin Ids
  <2>1. ASSUME NEW id \in Ids, Removed(id) PROVE Removed(id)'
    <3>1. table'[id] = table[id] /\ table[id] \in Pointers
      BY <2>1 DEF Posted, PointersOK, Removed
    <3> QED BY <2>1, <3>1 DEF Posted, Grows, Removed, Kind
  <2> QED BY <2>1
<1> SUFFICES ASSUME NEW u \in Threads \ {t}, pc[u] # "out", call'[u] = call[u], Matches(u)'
             PROVE  /\ call[u].id \in Live'
                    /\ call[u].op = "merge" =>
                         \E j : /\ j = heap'[call[u].snap].next /\ Removed(j)'
                                /\ heap'[table'[j]].child = call[u].right
  BY <1>2 DEF SnapsOK, SnapOK, Quiet
<1>4. call[u].id \in Ids /\ IsNode(call[u].snap)
  BY DEF CallsOK, CallOK
<1>5. table'[call[u].id] = table[call[u].id] /\ Matches(u)
  BY <1>4 DEF Matches, Posted, IsNode
<1>6. call[u].id \in Live /\ ~Removed(call[u].id)
  BY <1>4, <1>5 DEF SnapsOK, SnapOK, Removed, IsNode, Matches
<1>7. call[u].id \in Live'
  BY <1>1, <1>4, <1>6 DEF Posted
<1>8. ASSUME call[u].op = "merge"
      PROVE  \E j : /\ j = heap'[call[u].snap].next /\ Removed(j)'
                    /\ heap'[table'[j]].child = call[u].right
  <2>1. /\ Removed(heap[call[u].snap].next)
        /\ heap[table[heap[call[u].snap].next]].child = call[u].right
    BY <1>5, <1>8 DEF SnapsOK, SnapOK
  <2>2. heap[call[u].snap].next \in 0 .. NumIds /\ heap[call[u].snap].next # 0
    BY <1>4, <2>1 DEF IsNode, HeapOK, NodeOK, Kind, Removed
  <2>3. PICK j \in Ids : j = heap[call[u].snap].next
    BY <2>2 DEF Ids
  <2>4. heap'[call[u].snap] = heap[call[u].snap]
    BY <1>4 DEF Posted, Grows, IsNode
  <2>5. Removed(j)' /\ table'[j] = table[j] /\ table[j] \in Pointers
    BY <1>3, <2>1, <2>3 DEF Posted, Removed, PointersOK
  <2>6. heap'[table'[j]] = heap[table[j]]
    BY <2>5 DEF Posted, Grows
  <2> QED BY <2>1, <2>3, <2>4, <2>5, <2>6
<1> QED BY <1>7, <1>8

-----------------------------------------------------------------------------
(* Each of the CASes. *)

LEMMA NewChunk ==
  ASSUME Typed, NEW x \in 0 .. ChunkSize,
         tail' = Append(tail, x), next' = Append(next, NoBlock), freed' = freed
  PROVE  /\ MemTyped' /\ Blocks' = Blocks \cup {NewBlock} /\ NewBlock \notin Blocks
         /\ NewBlock \in Nat \ {0} /\ NewBlock = Len(tail) + 1 /\ Len(tail') = Len(tail) + 1
         /\ \A b \in Blocks : tail'[b] = tail[b] /\ next'[b] = next[b]
         /\ tail'[NewBlock] = x /\ next'[NewBlock] = NoBlock
<1>1. /\ tail \in Seq(Int) /\ next \in Seq(Nat) /\ Len(next) = Len(tail) /\ freed \subseteq Blocks
      /\ Blocks = 1 .. Len(tail) /\ Len(tail) \in Nat /\ NewBlock = Len(tail) + 1 /\ NewBlock \notin Blocks
      /\ \A b \in Blocks : b \in Nat
  BY BlocksAre DEF Typed, MemTyped
<1>2. x \in Int /\ NoBlock \in Nat
  BY Constants DEF NoBlock
<1>3. /\ tail' \in Seq(Int) /\ Len(tail') = Len(tail) + 1 /\ DOMAIN tail' = Blocks \cup {NewBlock}
      /\ tail'[NewBlock] = x /\ \A b \in Blocks : tail'[b] = tail[b]
  BY <1>1, <1>2, AppendIs DEF Blocks
<1>4. /\ next' \in Seq(Nat) /\ Len(next') = Len(tail) + 1
      /\ next'[NewBlock] = NoBlock /\ \A b \in Blocks : next'[b] = next[b]
  BY <1>1, <1>2, AppendIs
<1>5. \A b \in Blocks' : next'[b] # NoBlock => next'[b] \in Blocks' /\ next'[b] > b
  <2>1. \A b \in Blocks : next[b] # NoBlock => next[b] \in Blocks /\ next[b] > b
    BY DEF Typed, MemTyped
  <2> QED BY <1>1, <1>3, <1>4, <2>1 DEF Blocks
<1>6. MemTyped'
  BY <1>1, <1>3, <1>4, <1>5 DEF MemTyped, Blocks
<1> QED BY <1>1, <1>3, <1>4, <1>6 DEF Blocks

LEMMA PutGrows ==
  ASSUME NEW p, NEW n, p \notin Pointers, heap' = Put(heap, p, n), Blocks \subseteq Blocks'
  PROVE  Grows /\ Pointers' = Pointers \cup {p} /\ heap'[p] = n
<1>1. /\ DOMAIN heap' = DOMAIN heap \cup {p} /\ heap'[p] = n
      /\ \A q \in DOMAIN heap : q # p => heap'[q] = heap[q]
  <2>1. /\ DOMAIN Put(heap, p, n) = DOMAIN heap \cup {p} /\ Put(heap, p, n)[p] = n
        /\ \A q \in DOMAIN heap : q # p => Put(heap, p, n)[q] = heap[q]
    BY DEF Put
  <2> QED BY <2>1
<1> QED BY <1>1 DEF Grows, Pointers

(* A NodeID of the tree of which nothing changes. *)
LEMMA KeptId ==
  ASSUME Typed, HeapOK, PointersOK, TreeOK, Grows, NEW id \in Live, table'[id] = table[id]
  PROVE  /\ (Removed(id)' <=> Removed(id)) /\ NextId(id)' = NextId(id)
         /\ Removed(id)' => heap'[table'[id]].base = id /\ IsNode(heap[table[id]].child)'
<1>1. table[id] \in Pointers /\ heap'[table[id]] = heap[table[id]]
  BY LiveIs DEF Grows
<1>2. Removed(id)' <=> Removed(id)
  BY <1>1 DEF Removed, Kind
<1>3. Removed(id) => /\ IsNode(heap[table[id]].child) /\ heap[table[id]].base = id
                     /\ heap'[heap[table[id]].child] = heap[heap[table[id]].child]
                     /\ heap[table[id]].child \in Pointers'
  BY DEF TreeOK, Grows, IsNode
<1> QED BY <1>1, <1>2, <1>3 DEF NextId, IsNode, Kind

LEMMA TreeSame ==
  ASSUME TreeOK, Live' = Live, ~Removed(1)',
         \A id \in Live : /\ NextId(id)' = NextId(id)
                          /\ Removed(id)' => heap'[table'[id]].base = id /\ IsNode(heap[table[id]].child)'
  PROVE  TreeOK'
BY ReachedSame DEF TreeOK

(* A CAS that succeeds and puts one thing on top of a node. *)
Replaces(t, p, n, G) ==
  /\ pc[t] = "cas" /\ Matches(t) /\ ~HeldBy(t) /\ Leave(t, G)
  /\ p \notin Pointers /\ heap' = Put(heap, p, n) /\ table' = [table EXCEPT ![call[t].id] = p]
  /\ NodeOK(p)'
  /\ IsRecord(p)' => t \in Taken /\ p = call[t].new /\ SizeAt(p)' = SizeOf(t)
  /\ MemTyped' /\ Blocks \subseteq Blocks'
  /\ \A b \in Blocks : tail'[b] = tail[b]
  /\ \A b \in Blocks' \ Blocks : tail'[b] \in 0 .. ChunkSize
  /\ G \subseteq Pointers
  /\ \A q \in G : Kind(q) = "remove" => Removed(heap[q].base) /\ heap[q].base \in Ids /\ ~Dying(heap[q].base)
  /\ \A q, r \in G : q = r
  /\ UNCHANGED <<freed, stackVars, calls, cleanVars>>

LEMMA ReplacesIs ==
  ASSUME IdInv, NEW t \in Threads, NEW p, NEW n, NEW G, Replaces(t, p, n, G)
  PROVE  /\ Posted(t, G) /\ call[t].id \in Live /\ ~Removed(call[t].id) /\ call[t].snap = table[call[t].id]
         /\ heap[call[t].snap].next = NextId(call[t].id) /\ heap'[p] = n /\ table'[call[t].id] = p
         /\ Grows /\ \A id \in Ids \ {call[t].id} : table'[id] = table[id]
         /\ p # Null
<1> USE DEF IdInv
<1>1. PICK id : id = call[t].id
  OBVIOUS
<1>2. /\ id \in Live /\ table[id] = call[t].snap /\ IsNode(table[id]) /\ ~Removed(id) /\ id \in Ids
      /\ table[id] # Null /\ table \in [Ids -> Pairs]
  <2>1. IsNode(call[t].snap) /\ id \in Ids /\ table[id] = call[t].snap
    BY <1>1 DEF CallsOK, CallOK, Replaces, Matches
  <2>2. id \in Live
    BY <1>1 DEF SnapsOK, SnapOK, Replaces
  <2> QED BY <2>1, <2>2 DEF Removed, IsNode, Live, Typed, StackTyped
<1>3. Grows /\ Pointers' = Pointers \cup {p} /\ heap'[p] = n
  BY PutGrows DEF Replaces
<1>4. table'[id] = p /\ \A x \in Ids \ {id} : table'[x] = table[x]
  BY <1>1, <1>2 DEF Replaces
<1>5. id # pushing.id
  BY <1>2, Constants DEF PushOK
<1>6. p # Null
  <2>1. p[1] \in Blocks'
    BY <1>3 DEF Replaces, NodeOK
  <2> QED BY <2>1, Constants DEF Replaces, MemTyped, Blocks
<1>7. \A q \in G : IsRemove(q)' =>
       ~Dying(heap'[q].base) /\ table'[heap'[q].base] # Null
         /\ (Removed(heap'[q].base) \/ heap'[q].base \notin Live)
  <2> SUFFICES ASSUME NEW q \in G, IsRemove(q)'
               PROVE  ~Dying(heap'[q].base) /\ table'[heap'[q].base] # Null /\ Removed(heap'[q].base)
    OBVIOUS
  <2>1. q \in Pointers /\ heap'[q] = heap[q] /\ Kind(q) = "remove"
    BY <1>3 DEF Replaces, Grows, IsRemove, Kind
  <2>2. PICK x \in Ids : x = heap[q].base
    BY <2>1 DEF Replaces
  <2>3. Removed(x) /\ ~Dying(x)
    BY <2>1, <2>2 DEF Replaces
  <2>4. table'[x] = table[x] /\ table[x] # Null
    BY <1>2, <1>4, <2>3 DEF Removed
  <2> QED BY <2>1, <2>2, <2>3, <2>4
<1>8. /\ \A x \in Ids : table'[x] # table[x] =>
           table'[x] \in Pointers' \ Pointers /\ ~Removed(x) /\ x # pushing.id
      /\ \A x \in Ids : table'[x] # Null <=> table[x] # Null \/ (HeldBy(t) /\ x = call[t].newid)
      /\ table' = [x \in Ids |-> table'[x]]
  BY <1>2, <1>3, <1>4, <1>5, <1>6 DEF Replaces
<1>9. \A q \in Pointers' \ Pointers :
       NodeOK(q)' /\ (IsRecord(q)' => t \in Taken /\ q = call[t].new /\ SizeAt(q)' = SizeOf(t))
  <2>1. \A q \in Pointers' \ Pointers : q = p
    BY <1>3
  <2> QED BY <2>1 DEF Replaces
<1>10. G \subseteq Pointers' /\ \A q, r \in G : q = r
  BY <1>3 DEF Replaces
<1>11. Posted(t, G)
  BY <1>3, <1>7, <1>8, <1>9, <1>10 DEF Posted, Replaces
<1> QED BY <1>1, <1>2, <1>3, <1>4, <1>6, <1>11 DEF NextId

(* ... and what stays of the tree, when that is not a remove record. *)
LEMMA ReplacedInv ==
  ASSUME IdInv, NEW t \in Threads, NEW p, NEW n, NEW G, Replaces(t, p, n, G),
         n.kind # "remove", n.next = heap[call[t].snap].next, \A q \in G : Kind(q) # "remove"
  PROVE  IdInv'
<1>1. PICK id : id = call[t].id
  OBVIOUS
<1>2. /\ Posted(t, G) /\ id \in Live /\ ~Removed(id) /\ call[t].snap = table[id]
      /\ heap[call[t].snap].next = NextId(id) /\ heap'[p] = n /\ table'[id] = p
      /\ Grows /\ \A x \in Ids \ {id} : table'[x] = table[x]
      /\ p # Null
  BY <1>1, ReplacesIs
<1>3. Live' = Live
  <2>1. \A q \in G : ~IsRemove(q)'
    BY <1>2 DEF Replaces, Grows, IsRemove, Kind
  <2>2. \A x \in Ids : x \in Live' <=> x \in Live
    BY <1>2, <2>1, PostedDead DEF Replaces
  <2> QED BY <2>2 DEF Live
<1>4. ~Removed(id)' /\ NextId(id)' = NextId(id)
  BY <1>2 DEF Removed, NextId, Kind
<1>5. \A x \in Live \ {id} : /\ (Removed(x)' <=> Removed(x)) /\ NextId(x)' = NextId(x)
                             /\ Removed(x)' => heap'[table'[x]].base = x /\ IsNode(heap[table[x]].child)'
  <2>1. \A x \in Live \ {id} : table'[x] = table[x]
    BY <1>2 DEF Live
  <2> QED BY <1>2, <2>1, KeptId DEF IdInv
<1>6. TreeOK'
  <2>1. ~Removed(1)'
    BY <1>4, <1>5 DEF IdInv, TreeOK
  <2> QED BY <1>3, <1>4, <1>5, <2>1, TreeSame DEF IdInv
<1> QED BY <1>2, <1>6, PostedDead, PostedKeeps, PostedSnaps DEF IdInv

(* A CAS that fails and leaves nothing behind. *)
LEMMA FailedInv ==
  ASSUME IdInv, NEW t \in Threads, pc[t] = "cas", ~HeldBy(t), Leave(t, {}),
         UNCHANGED <<memVars, table, stackVars, calls, cleanVars>>
  PROVE  IdInv'
<1>1. heap' = heap /\ table' = table /\ tail' = tail /\ next' = next /\ freed' = freed /\ Pointers' = Pointers
      /\ Blocks' = Blocks
  BY DEF memVars, Pointers, Blocks
<1>2. MemTyped' /\ Grows /\ table' = [id \in Ids |-> table'[id]]
  BY <1>1, SameGrows DEF IdInv, Typed, MemTyped, StackTyped
<1>3. Posted(t, {})
  BY <1>1, <1>2 DEF Posted
<1>4. Live' = Live
  <2>1. \A id \in Ids : id \in Live' <=> id \in Live
    BY <1>3, PostedDead
  <2> QED BY <2>1 DEF Live
<1>5. \A x \in Live : /\ (Removed(x)' <=> Removed(x)) /\ NextId(x)' = NextId(x)
                      /\ Removed(x)' => heap'[table'[x]].base = x /\ IsNode(heap[table[x]].child)'
  BY <1>1, <1>2, KeptId DEF IdInv
<1>6. TreeOK'
  <2>1. ~Removed(1)'
    BY <1>5 DEF IdInv, TreeOK
  <2> QED BY <1>4, <1>5, <2>1, TreeSame DEF IdInv
<1> QED BY <1>3, <1>6, PostedDead, PostedKeeps, PostedSnaps DEF IdInv

(* A delta record stands on a node. *)
LEMMA RecordOK ==
  ASSUME IdInv, NEW p \in Pairs, p[1] \in Blocks, p[2] # ChunkSize, p \notin Pointers,
         NEW kind \in {"data", "split"}, NEW s, IsNode(s), NEW nx \in 0 .. NumIds,
         Grows, p \in Pointers', heap'[p] = Record(kind, s, nx)
  PROVE  NodeOK(p)' /\ Kind(p)' = kind
<1>1. heap'[p] = [kind |-> kind, base |-> heap[s].base, child |-> s, right |-> Null, next |-> nx]
  BY DEF Record
<1>2. s \in Pointers' /\ heap'[s] = heap[s] /\ p[1] \in Blocks'
  BY DEF Grows, IsNode
<1>3. heap[s].base \in Blocks' /\ heap[s].kind # "remove"
  BY DEF IdInv, HeapOK, NodeOK, IsNode, Kind, Grows
<1> QED BY <1>1, <1>2, <1>3 DEF NodeOK, Kind, Kinds, IsNode

LEMMA MergeOK ==
  ASSUME IdInv, NEW p \in Pairs, p[1] \in Blocks, p[2] # ChunkSize, p \notin Pointers,
         NEW s, IsNode(s), NEW r, IsNode(r), Grows, p \in Pointers', heap'[p] = Merge(s, r)
  PROVE  NodeOK(p)' /\ Kind(p)' = "merge"
<1>1. heap'[p] = [kind |-> "merge", base |-> heap[s].base, child |-> s, right |-> r, next |-> heap[r].next]
  BY DEF Record, Merge
<1>2. s \in Pointers' /\ heap'[s] = heap[s] /\ r \in Pointers' /\ heap'[r] = heap[r] /\ p[1] \in Blocks'
  BY DEF Grows, IsNode
<1>3. heap[s].base \in Blocks' /\ heap[s].kind # "remove" /\ heap[r].kind # "remove"
      /\ heap[r].next \in 0 .. NumIds
  BY DEF IdInv, HeapOK, NodeOK, IsNode, Kind, Grows
<1> QED BY <1>1, <1>2, <1>3 DEF NodeOK, Kind, Kinds, IsNode

LEMMA PageOK ==
  ASSUME IdInv, NEW b \in Nat, b \in Blocks', NEW nx \in 0 .. NumIds,
         End(b) \in Pointers', heap'[End(b)] = Page(b, nx)
  PROVE  NodeOK(End(b))' /\ Kind(End(b))' = "page" /\ End(b) \in Pairs
BY Constants DEF NodeOK, Kind, Kinds, Page, End, Pairs

LEMMA RemoveRecordOK ==
  ASSUME IdInv, NEW b \in Nat, b \in Blocks', NEW id \in Ids, NEW s, s = Null \/ IsNode(s),
         Grows, End(b) \in Pointers', heap'[End(b)] = RemoveRecord(id, s)
  PROVE  NodeOK(End(b))' /\ Kind(End(b))' = "remove" /\ End(b) \in Pairs
<1>1. s = Null \/ IsNode(s)'
  BY DEF IsNode, Grows, Kind
<1>2. heap'[End(b)] = [kind |-> "remove", base |-> id, child |-> s, right |-> Null, next |-> 0]
  BY DEF RemoveRecord
<1> QED BY <1>1, <1>2, Constants DEF NodeOK, Kind, Kinds, End, Pairs

(* What a call has at its CAS. *)
LEMMA CasIs ==
  ASSUME IdInv, NEW t \in Threads, pc[t] = "cas"
  PROVE  /\ call[t].op \in Ops \ {"none"} /\ call[t].id \in Ids
         /\ IsNode(call[t].snap) /\ heap[call[t].snap].next \in 0 .. NumIds
         /\ HeldBy(t) <=> call[t].op = "split"
         /\ call[t].op \in Allocating =>
              /\ t \in Taken /\ call[t].new \notin Pointers /\ call[t].new # Null /\ call[t].new \in Pairs
              /\ call[t].new[1] \in Blocks /\ call[t].new[2] # ChunkSize
<1>1. CallOK(t) /\ call[t] \in Calls
  BY DEF IdInv, CallsOK, Typed, ThreadTyped
<1>2. /\ call[t].op \in Ops \ {"none"} /\ call[t].id \in Ids /\ IsNode(call[t].snap)
      /\ (HeldBy(t) <=> call[t].op = "split")
  BY <1>1 DEF CallOK, Calls, HeldBy
<1>3. heap[call[t].snap].next \in 0 .. NumIds
  BY <1>2 DEF IdInv, HeapOK, NodeOK, IsNode, Kind
<1>4. call[t].op \in Allocating => t \in Taken
  BY <1>1 DEF CallOK, Taken
<1> QED BY <1>2, <1>3, <1>4, NewPlace DEF IdInv

LEMMA PostDataInv ==
  ASSUME IdInv, NEW t \in Threads, PostData(t)
  PROVE  IdInv'
<1>1. /\ pc[t] = "cas" /\ call[t].op = "post" /\ Leave(t, {})
      /\ UNCHANGED <<tail, next, freed, stackVars, calls, cleanVars>>
  BY DEF PostData
<1>2. CASE Matches(t)
  <2>1. PICK p : p = call[t].new
    OBVIOUS
  <2>2. PICK n : n = Record("data", call[t].snap, heap[call[t].snap].next)
    OBVIOUS
  <2>3. /\ t \in Taken /\ p \notin Pointers /\ p \in Pairs /\ p[1] \in Blocks /\ p[2] # ChunkSize
        /\ IsNode(call[t].snap) /\ heap[call[t].snap].next \in 0 .. NumIds /\ ~HeldBy(t)
    BY <1>1, <2>1, CasIs DEF Allocating
  <2>4. heap' = Put(heap, p, n) /\ table' = [table EXCEPT ![call[t].id] = p]
    BY <1>2, <2>1, <2>2 DEF PostData
  <2>5. Blocks' = Blocks /\ MemTyped'
    BY <1>1 DEF Blocks, IdInv, Typed, MemTyped
  <2>6. Grows /\ heap'[p] = n /\ p \in Pointers'
    BY <2>3, <2>4, <2>5, PutGrows
  <2>7. NodeOK(p)' /\ Kind(p)' = "data"
    BY <2>2, <2>3, <2>6, RecordOK
  <2>8. SizeAt(p)' = SizeOf(t)
    BY <1>1, <2>7 DEF SizeAt, SizeOf, RecordSize, Size
  <2>9. Replaces(t, p, n, {})
    BY <1>1, <1>2, <2>1, <2>3, <2>4, <2>5, <2>7, <2>8 DEF Replaces
  <2>10. n.kind = "data" /\ n.next = heap[call[t].snap].next
    BY <2>2 DEF Record
  <2> QED BY <2>9, <2>10, ReplacedInv
<1>3. CASE ~Matches(t)
  <2>1. ~HeldBy(t)
    BY <1>1, CasIs
  <2>2. heap' = heap /\ table' = table
    BY <1>3 DEF PostData
  <2> QED BY <1>1, <2>1, <2>2, FailedInv DEF memVars
<1> QED BY <1>2, <1>3

LEMMA ConsolidateInv ==
  ASSUME IdInv, NEW t \in Threads, Consolidate(t)
  PROVE  IdInv'
<1>1. PICK b : b = NewBlock
  OBVIOUS
<1>2. PICK n : n = Page(b, heap[call[t].snap].next)
  OBVIOUS
<1>3. /\ pc[t] = "cas" /\ call[t].op = "consolidate" /\ heap' = Put(heap, End(b), n)
      /\ tail' = Append(tail, ChunkSize) /\ next' = Append(next, NoBlock) /\ freed' = freed
      /\ UNCHANGED <<stackVars, calls, cleanVars>>
  BY <1>1, <1>2 DEF Consolidate
<1>4. /\ IsNode(call[t].snap) /\ heap[call[t].snap].next \in 0 .. NumIds /\ ~HeldBy(t)
  BY <1>3, CasIs
<1>5. /\ MemTyped' /\ Blocks' = Blocks \cup {b} /\ b \notin Blocks /\ b \in Nat \ {0}
      /\ \A a \in Blocks : tail'[a] = tail[a]
      /\ tail'[b] = ChunkSize
  <2>1. ChunkSize \in 0 .. ChunkSize
    BY Constants
  <2> QED BY <1>1, <1>3, <2>1, NewChunk DEF IdInv
<1>6. End(b) \notin Pointers
  BY <1>5, BlockPlace DEF IdInv
<1>7. Grows /\ Pointers' = Pointers \cup {End(b)} /\ heap'[End(b)] = n
  BY <1>3, <1>5, <1>6, PutGrows
<1>8. NodeOK(End(b))' /\ Kind(End(b))' = "page" /\ End(b) \in Pairs
  BY <1>2, <1>4, <1>5, <1>7, PageOK
<1>9. n.kind = "page" /\ n.next = heap[call[t].snap].next /\ ChunkSize \in 0 .. ChunkSize
  BY <1>2, Constants DEF Page
<1>10. CASE Matches(t)
  <2>1. table' = [table EXCEPT ![call[t].id] = End(b)] /\ Leave(t, {call[t].snap})
    BY <1>1, <1>10 DEF Consolidate
  <2>2. call[t].snap \in Pointers /\ Kind(call[t].snap) # "remove"
    BY <1>4 DEF IsNode
  <2>3. Replaces(t, End(b), n, {call[t].snap})
    BY <1>3, <1>4, <1>5, <1>6, <1>8, <1>9, <1>10, <2>1, <2>2 DEF Replaces, IsRecord
  <2> QED BY <1>9, <2>2, <2>3, ReplacedInv
<1>11. CASE ~Matches(t)
  <2>1. table' = table /\ Leave(t, {End(b)})
    BY <1>1, <1>11 DEF Consolidate
  <2>2. table' = [id \in Ids |-> table'[id]]
    BY <2>1 DEF IdInv, Typed, StackTyped
  <2>3. ~IsRecord(End(b))' /\ ~IsRemove(End(b))'
    BY <1>8 DEF IsRecord, IsRemove
  <2>4. \A q \in Pointers' \ Pointers : q = End(b)
    BY <1>7
  <2>5. Posted(t, {End(b)})
    BY <1>3, <1>4, <1>5, <1>7, <1>8, <1>9, <2>1, <2>2, <2>3, <2>4 DEF Posted
  <2>6. Live' = Live
    <3>1. \A id \in Ids : id \in Live' <=> id \in Live
      BY <1>4, <2>3, <2>5, PostedDead
    <3> QED BY <3>1 DEF Live
  <2>7. \A x \in Live : /\ (Removed(x)' <=> Removed(x)) /\ NextId(x)' = NextId(x)
                        /\ Removed(x)' => heap'[table'[x]].base = x /\ IsNode(heap[table[x]].child)'
    BY <1>7, <2>1, KeptId DEF IdInv
  <2>8. TreeOK'
    <3>1. ~Removed(1)'
      BY <2>7 DEF IdInv, TreeOK
    <3> QED BY <2>6, <2>7, <3>1, TreeSame DEF IdInv
  <2> QED BY <2>5, <2>8, PostedDead, PostedKeeps, PostedSnaps DEF IdInv
<1> QED BY <1>10, <1>11

LEMMA RemoveNodeInv ==
  ASSUME IdInv, NEW t \in Threads, RemoveNode(t)
  PROVE  IdInv'
<1>1. /\ pc[t] = "cas" /\ call[t].op = "remove" /\ Leave(t, {}) /\ freed' = freed
      /\ UNCHANGED <<stackVars, calls, cleanVars>>
  BY DEF RemoveNode
<1>2. /\ IsNode(call[t].snap) /\ ~HeldBy(t) /\ call[t].id \in Ids
  BY <1>1, CasIs
<1>3. CASE Matches(t)
  <2>1. PICK b : b = NewBlock
    OBVIOUS
  <2>2. PICK id : id = call[t].id
    OBVIOUS
  <2>3. PICK s : s = call[t].snap
    OBVIOUS
  <2>4. PICK n : n = RemoveRecord(id, s)
    OBVIOUS
  <2>5. /\ heap' = Put(heap, End(b), n) /\ table' = [table EXCEPT ![call[t].id] = End(b)]
        /\ tail' = Append(tail, 0) /\ next' = Append(next, NoBlock)
    BY <1>3, <2>1, <2>2, <2>3, <2>4 DEF RemoveNode
  <2>6. /\ MemTyped' /\ Blocks' = Blocks \cup {b} /\ b \notin Blocks /\ b \in Nat \ {0}
        /\ \A a \in Blocks : tail'[a] = tail[a]
        /\ tail'[b] = 0 /\ 0 \in 0 .. ChunkSize
    <3>1. 0 \in 0 .. ChunkSize
      BY Constants
    <3> QED BY <1>1, <2>1, <2>5, <3>1, NewChunk DEF IdInv
  <2>7. End(b) \notin Pointers
    BY <2>6, BlockPlace DEF IdInv
  <2>8. Grows /\ Pointers' = Pointers \cup {End(b)} /\ heap'[End(b)] = n
    BY <2>5, <2>6, <2>7, PutGrows
  <2>9. NodeOK(End(b))' /\ Kind(End(b))' = "remove" /\ End(b) \in Pairs
    BY <1>2, <2>2, <2>3, <2>4, <2>6, <2>8, RemoveRecordOK
  <2>10. Replaces(t, End(b), n, {})
    BY <1>1, <1>2, <1>3, <2>5, <2>6, <2>7, <2>9 DEF Replaces, IsRecord
  <2>11. /\ Posted(t, {}) /\ id \in Live /\ ~Removed(id) /\ s = table[id] /\ IsNode(s)
         /\ heap[s].next = NextId(id) /\ table'[id] = End(b)
         /\ \A x \in Ids \ {id} : table'[x] = table[x]
    BY <1>2, <2>2, <2>3, <2>10, ReplacesIs
  <2>12. Live' = Live
    <3>1. \A x \in Ids : x \in Live' <=> x \in Live
      BY <1>2, <2>11, PostedDead
    <3> QED BY <3>1 DEF Live
  <2>13. id # 1 /\ id # 0
    <3>1. CallOK(t)
      BY DEF IdInv, CallsOK
    <3> QED BY <1>1, <1>2, <2>2, <3>1, Constants DEF CallOK
  <2>14. n = [kind |-> "remove", base |-> id, child |-> s, right |-> Null, next |-> 0]
    BY <2>4 DEF RemoveRecord
  <2>15. heap'[s] = heap[s] /\ s \in Pointers' /\ IsNode(s)'
    BY <2>8, <2>11 DEF Grows, IsNode, Kind
  <2>16. NextId(id)' = NextId(id)
    <3>1. End(b) # Null
      BY <2>6, BlockPlace DEF IdInv
    <3>2. Removed(id)'
      BY <2>8, <2>11, <2>13, <2>14, <3>1 DEF Removed, Kind
    <3> QED BY <2>8, <2>11, <2>14, <2>15, <3>2 DEF NextId
  <2>17. \A x \in Live \ {id} : /\ (Removed(x)' <=> Removed(x)) /\ NextId(x)' = NextId(x)
                                /\ Removed(x)' => heap'[table'[x]].base = x /\ IsNode(heap[table[x]].child)'
    <3>1. \A x \in Live \ {id} : table'[x] = table[x]
      BY <2>11 DEF Live
    <3> QED BY <2>8, <3>1, KeptId DEF IdInv
  <2>18. heap'[table'[id]].base = id /\ IsNode(heap[table[id]].child)'
    BY <2>8, <2>11, <2>14, <2>15 DEF IsNode
  <2>19. TreeOK'
    <3>1. ~Removed(1)'
      BY <2>13, <2>17 DEF IdInv, TreeOK
    <3> QED BY <2>12, <2>16, <2>17, <2>18, <3>1, TreeSame DEF IdInv
  <2> QED BY <2>11, <2>19, PostedDead, PostedKeeps, PostedSnaps DEF IdInv
<1>4. CASE ~Matches(t)
  <2>1. heap' = heap /\ table' = table /\ tail' = tail /\ next' = next
    BY <1>4 DEF RemoveNode
  <2> QED BY <1>1, <1>2, <2>1, FailedInv DEF memVars
<1> QED BY <1>3, <1>4

LEMMA MergeNodeInv ==
  ASSUME IdInv, NEW t \in Threads, MergeNode(t)
  PROVE  IdInv'
<1>1. /\ pc[t] = "cas" /\ call[t].op = "merge"
      /\ UNCHANGED <<tail, next, freed, stackVars, calls, cleanVars>>
  BY DEF MergeNode
<1>2. CASE Matches(t)
  <2>1. PICK p, id : p = call[t].new /\ id = call[t].id
    OBVIOUS
  <2>2. PICK s, r : s = call[t].snap /\ r = call[t].right
    OBVIOUS
  <2>3. PICK n : n = Merge(s, r)
    OBVIOUS
  <2>4. PICK j, g : j = heap[s].next /\ g = table[j]
    OBVIOUS
  <2>5. /\ t \in Taken /\ p \notin Pointers /\ p \in Pairs /\ p[1] \in Blocks /\ p[2] # ChunkSize
        /\ IsNode(s) /\ ~HeldBy(t) /\ id \in Ids
    BY <1>1, <2>1, <2>2, CasIs DEF Allocating
  <2>6. heap' = Put(heap, p, n) /\ table' = [table EXCEPT ![call[t].id] = p] /\ Leave(t, {g})
    BY <1>2, <2>1, <2>2, <2>3, <2>4 DEF MergeNode
  <2>7. id \in Live /\ Removed(j) /\ heap[g].child = r /\ IsNode(r) /\ table[id] = s /\ ~Removed(id)
    <3>1. SnapOK(t) /\ CallOK(t)
      BY DEF IdInv, SnapsOK, CallsOK
    <3>2. id \in Live /\ Removed(j) /\ heap[g].child = r /\ table[id] = s
      BY <1>1, <1>2, <2>1, <2>2, <2>4, <3>1 DEF SnapOK, Matches
    <3>3. IsNode(r)
      BY <1>1, <2>2, <3>1 DEF CallOK
    <3> QED BY <2>5, <3>2, <3>3 DEF Removed, IsNode
  <2>8. /\ j = NextId(id) /\ j \in Live \ {1} /\ j # 0 /\ heap[g].base = j /\ g \in Pointers
        /\ Kind(g) = "remove" /\ j # id /\ ~Dying(j) /\ j \in Ids
    <3>1. j = NextId(id) /\ j # 0
      BY <2>4, <2>7 DEF NextId, Removed
    <3>2. j \in Live \ {1} /\ heap[g].base = j
      BY <2>4, <2>7, <3>1 DEF IdInv, TreeOK
    <3> QED BY <2>4, <2>7, <3>1, <3>2 DEF IdInv, PointersOK, Live, Removed
  <2>9. Blocks' = Blocks /\ MemTyped'
    BY <1>1 DEF Blocks, IdInv, Typed, MemTyped
  <2>10. Grows /\ heap'[p] = n /\ Pointers' = Pointers \cup {p}
    BY <2>5, <2>6, <2>9, PutGrows
  <2>11. NodeOK(p)' /\ Kind(p)' = "merge"
    BY <2>3, <2>5, <2>7, <2>10, MergeOK
  <2>12. SizeAt(p)' = SizeOf(t)
    BY <1>1, <2>11 DEF SizeAt, SizeOf, RecordSize, Size
  <2>13. Replaces(t, p, n, {g})
    BY <1>1, <1>2, <2>1, <2>5, <2>6, <2>7, <2>8, <2>9, <2>11, <2>12 DEF Replaces
  <2>14. /\ Posted(t, {g}) /\ table'[id] = p
         /\ \A x \in Ids \ {id} : table'[x] = table[x]
         /\ p # Null
    BY <2>1, <2>13, ReplacesIs
  <2>15. Live' = Live \ {j}
    <3>1. \A q \in {g} : IsRemove(q)' /\ heap'[q].base = j
      BY <2>8, <2>10 DEF Grows, IsRemove, Kind
    <3>2. \A x \in Ids : x \in Live' <=> x \in Live /\ x # j
      BY <2>5, <2>14, <3>1, PostedDead
    <3> QED BY <3>2 DEF Live
  <2>16. n.kind = "merge" /\ n.next = heap[r].next
    BY <2>3 DEF Merge, Record
  <2>17. ~Removed(id)' /\ NextId(id)' = NextId(j)
    <3>1. NextId(j) = heap[r].next
      BY <2>4, <2>7 DEF NextId
    <3> QED BY <2>10, <2>14, <2>16, <3>1 DEF Removed, NextId, Kind
  <2>18. \A x \in Live \ {id} : /\ (Removed(x)' <=> Removed(x)) /\ NextId(x)' = NextId(x)
                                /\ Removed(x)' => heap'[table'[x]].base = x /\ IsNode(heap[table[x]].child)'
    <3>1. \A x \in Live \ {id} : table'[x] = table[x]
      BY <2>14 DEF Live
    <3> QED BY <2>10, <3>1, KeptId DEF IdInv
  <2>19. TreeOK'
    <3>1. 1 \in Live' /\ ~Removed(1)'
      BY <2>8, <2>15, <2>17, <2>18 DEF IdInv, TreeOK
    <3>2. \A x \in Live' : x # id => NextId(x)' = NextId(x) /\ x \in Live
      BY <2>15, <2>18
    <3>3. \A x \in Live' : NextId(x)' # j
      <4>1. \A x, y \in Live : NextId(x) = NextId(y) /\ NextId(x) # 0 => x = y
        BY DEF IdInv, TreeOK
      <4>2. id \in Live /\ j \in Live /\ NextId(id) = j /\ j # 0 /\ j # id
        BY <2>7, <2>8
      <4>3. NextId(j) # j
        BY <4>1, <4>2
      <4>4. \A x \in Live : x # id => NextId(x) # j
        BY <4>1, <4>2
      <4> QED BY <2>17, <3>2, <4>3, <4>4
    <3>4. \A x \in Live' : NextId(x)' \in (Live' \ {1}) \cup {0}
      BY <2>8, <2>15, <2>17, <3>2, <3>3 DEF IdInv, TreeOK
    <3>5. \A x, y \in Live' : NextId(x)' = NextId(y)' /\ NextId(x)' # 0 => x = y
      <4> DEFINE Was(x) == IF x = id THEN j ELSE x
      <4>1. ASSUME NEW x \in Live'
            PROVE  Was(x) \in Live /\ NextId(x)' = NextId(Was(x)) /\ x # j
        <5>1. x # j
          BY <2>15
        <5>2. CASE x = id
          BY <2>8, <2>17, <5>1, <5>2
        <5>3. CASE x # id
          BY <3>2, <5>1, <5>3
        <5> QED BY <5>2, <5>3
      <4>2. \A x, y \in Live' : Was(x) = Was(y) => x = y
        BY <4>1
      <4> HIDE DEF Was
      <4>3. \A x, y \in Live : NextId(x) = NextId(y) /\ NextId(x) # 0 => x = y
        BY DEF IdInv, TreeOK
      <4> QED BY <4>1, <4>2, <4>3
    <3>6. \A x \in Live' : Removed(x)' => heap'[table'[x]].base = x /\ IsNode(heap[table[x]].child)'
      BY <2>15, <2>17, <2>18
    <3>7. Reached'
      <4> SUFFICES ASSUME NEW S \in SUBSET Ids, 1 \in S,
                          \A x \in Live' : x \in S /\ NextId(x)' # 0 => NextId(x)' \in S
                   PROVE  Live' \subseteq S
        BY DEF Reached
      <4> DEFINE T == (S \ {j}) \cup (IF id \in S THEN {j} ELSE {})
      <4>1. T \in SUBSET Ids /\ 1 \in T
        BY <2>8
      <4>2. ASSUME NEW x \in Live, x \in T, NextId(x) # 0 PROVE NextId(x) \in T
        <5>1. NextId(x) = j => x = id
          BY <2>7, <2>8 DEF IdInv, TreeOK
        <5>2. CASE x = id
          BY <2>8, <4>2, <5>2
        <5>3. CASE x = j
          BY <2>7, <2>8, <2>15, <2>17, <4>2, <5>1, <5>3
        <5>4. CASE x # id /\ x # j
          BY <2>15, <2>18, <4>2, <5>1, <5>4
        <5> QED BY <5>2, <5>3, <5>4
      <4>3. Live \subseteq T
        <5> HIDE DEF T
        <5>1. Reached
          BY DEF IdInv, TreeOK
        <5> QED BY <4>1, <4>2, <5>1 DEF Reached
      <4> QED BY <2>15, <4>3
    <3> QED BY <3>1, <3>4, <3>5, <3>6, <3>7 DEF TreeOK
  <2> QED BY <2>14, <2>19, PostedDead, PostedKeeps, PostedSnaps DEF IdInv
<1>3. CASE ~Matches(t)
  <2>1. ~HeldBy(t)
    BY <1>1, CasIs
  <2>2. heap' = heap /\ table' = table /\ Leave(t, {})
    BY <1>3 DEF MergeNode
  <2> QED BY <1>1, <2>1, <2>2, FailedInv DEF memVars
<1> QED BY <1>2, <1>3

LEMMA TwoPuts ==
  ASSUME NEW p, NEW m, NEW q, NEW n, p \notin Pointers, q \notin Pointers, p # q,
         heap' = Put(Put(heap, p, m), q, n), Blocks \subseteq Blocks'
  PROVE  Grows /\ Pointers' = Pointers \cup {p, q} /\ heap'[p] = m /\ heap'[q] = n
<1>1. PICK h : h = Put(heap, p, m)
  OBVIOUS
<1>2. /\ DOMAIN h = DOMAIN heap \cup {p} /\ h[p] = m
      /\ \A x \in DOMAIN heap : x # p => h[x] = heap[x]
  BY <1>1 DEF Put
<1>3. /\ DOMAIN heap' = DOMAIN h \cup {q} /\ heap'[q] = n
      /\ \A x \in DOMAIN h : x # q => heap'[x] = h[x]
  BY <1>1 DEF Put
<1> QED BY <1>2, <1>3 DEF Grows, Pointers

LEMMA AppendTwoIs ==
  ASSUME NEW S, NEW s, s \in Seq(S), NEW x, x \in S, NEW y, y \in S, NEW e, e = s \o <<x, y>>
  PROVE  /\ e \in Seq(S) /\ Len(e) = Len(s) + 2 /\ DOMAIN e = 1 .. Len(s) + 2
         /\ e[Len(s) + 1] = x /\ e[Len(s) + 2] = y /\ \A i \in 1 .. Len(s) : e[i] = s[i]
OBVIOUS

LEMMA TwoChunks ==
  ASSUME Typed, tail' = tail \o <<ChunkSize, 0>>, next' = next \o <<NoBlock, NoBlock>>, freed' = freed
  PROVE  /\ MemTyped' /\ Blocks' = Blocks \cup {NewBlock, NewBlock + 1}
         /\ NewBlock \notin Blocks /\ NewBlock + 1 \notin Blocks /\ NewBlock \in Nat \ {0}
         /\ \A b \in Blocks : tail'[b] = tail[b] /\ next'[b] = next[b]
         /\ tail'[NewBlock] = ChunkSize /\ tail'[NewBlock + 1] = 0
         /\ next'[NewBlock] = NoBlock /\ next'[NewBlock + 1] = NoBlock
<1>1. /\ tail \in Seq(Int) /\ next \in Seq(Nat) /\ Len(next) = Len(tail) /\ freed \subseteq Blocks
      /\ Blocks = 1 .. Len(tail) /\ Len(tail) \in Nat /\ NewBlock = Len(tail) + 1
      /\ \A b \in Blocks : b \in Nat
  BY BlocksAre DEF Typed, MemTyped
<1>2. PICK n \in Nat, c \in Nat : n = Len(tail) /\ c = ChunkSize
  BY <1>1, Constants
<1>3. /\ tail' \in Seq(Int) /\ Len(tail') = n + 2 /\ DOMAIN tail' = 1 .. n + 2
      /\ tail'[n + 1] = c /\ tail'[n + 2] = 0 /\ \A b \in 1 .. n : tail'[b] = tail[b]
  <2>1. tail \in Seq(Int) /\ c \in Int /\ 0 \in Int /\ tail' = tail \o <<c, 0>>
    BY <1>1, <1>2
  <2>2. /\ tail' \in Seq(Int) /\ Len(tail') = Len(tail) + 2 /\ DOMAIN tail' = 1 .. Len(tail) + 2
        /\ tail'[Len(tail) + 1] = c /\ tail'[Len(tail) + 2] = 0
        /\ \A i \in 1 .. Len(tail) : tail'[i] = tail[i]
    BY ONLY <2>1, AppendTwoIs
  <2> QED BY <1>2, <2>2
<1>4. /\ next' \in Seq(Nat) /\ Len(next') = n + 2
      /\ next'[n + 1] = 0 /\ next'[n + 2] = 0 /\ \A b \in 1 .. n : next'[b] = next[b]
  <2>1. next \in Seq(Nat) /\ 0 \in Nat /\ next' = next \o <<0, 0>> /\ Len(next) = n
    BY <1>1, <1>2 DEF NoBlock
  <2>2. /\ next' \in Seq(Nat) /\ Len(next') = Len(next) + 2 /\ DOMAIN next' = 1 .. Len(next) + 2
        /\ next'[Len(next) + 1] = 0 /\ next'[Len(next) + 2] = 0
        /\ \A i \in 1 .. Len(next) : next'[i] = next[i]
    BY ONLY <2>1, AppendTwoIs
  <2> QED BY <2>1, <2>2
<1>5. Blocks' = 1 .. n + 2 /\ Blocks = 1 .. n /\ NewBlock = n + 1
  BY <1>1, <1>2, <1>3 DEF Blocks
<1>6. \A b \in 1 .. n + 2 : b \in 1 .. n \/ b = n + 1 \/ b = n + 2
  BY <1>2
<1>7. \A b \in Blocks' : next'[b] # NoBlock => next'[b] \in Blocks' /\ next'[b] > b
  <2>1. \A b \in Blocks : next[b] # NoBlock => next[b] \in Blocks /\ next[b] > b
    BY DEF Typed, MemTyped
  <2> QED BY <1>4, <1>5, <1>6, <2>1 DEF NoBlock
<1>8. MemTyped'
  <2>1. freed' \subseteq Blocks'
    BY <1>1, <1>2, <1>5
  <2> QED BY <1>3, <1>4, <1>7, <2>1 DEF MemTyped
<1> QED BY <1>2, <1>3, <1>4, <1>5, <1>6, <1>8 DEF NoBlock

(* The NodeID of a split is nowhere else. *)
LEMMA NewIdIs ==
  ASSUME IdInv, NEW t \in Threads, HeldBy(t)
  PROVE  /\ call[t].newid \in Ids /\ table[call[t].newid] = Null /\ call[t].newid # pushing.id
         /\ ~Removed(call[t].newid) /\ call[t].newid \notin Live /\ ~Dying(call[t].newid)
         /\ call[t].newid \in 0 .. NumIds /\ call[t].newid # 1
<1>1. call[t].newid \in Ids
  BY DEF IdInv, IdsOK
<1>2. table[call[t].newid] = Null /\ call[t].newid # pushing.id
  BY <1>1 DEF IdInv, IdsOK, InHand
<1>3. ~Dying(call[t].newid)
  BY <1>2 DEF IdInv, DyingOK, Dying, IsRemove
<1> QED BY <1>1, <1>2, <1>3, Constants DEF Removed, Live, IdInv, TreeOK

LEMMA SplitWon ==
  ASSUME IdInv, NEW t \in Threads, SplitNode(t), Matches(t)
  PROVE  IdInv'
<1>1. PICK b, p : b = NewBlock /\ p = call[t].new
  OBVIOUS
<1>2. PICK s, d : s = call[t].snap /\ d = call[t].newid
  OBVIOUS
<1>3. PICK id : id = call[t].id
  OBVIOUS
<1>4. PICK m, n : m = Page(b, heap[s].next) /\ n = Record("split", s, d)
  OBVIOUS
<1>5. /\ pc[t] = "cas" /\ call[t].op = "split" /\ Leave(t, {}) /\ freed' = freed
      /\ UNCHANGED <<stackVars, calls, cleanVars>>
      /\ tail' = Append(tail, ChunkSize) /\ next' = Append(next, NoBlock)
      /\ heap' = Put(Put(heap, End(b), m), p, n)
      /\ table' = [table EXCEPT ![d] = End(b), ![id] = p]
  BY <1>1, <1>2, <1>3, <1>4 DEF SplitNode
<1>6. /\ t \in Taken /\ p \notin Pointers /\ p # Null /\ p \in Pairs /\ p[1] \in Blocks /\ p[2] # ChunkSize
      /\ IsNode(s) /\ HeldBy(t) /\ id \in Ids /\ heap[s].next \in 0 .. NumIds
  BY <1>1, <1>2, <1>3, <1>5, CasIs DEF Allocating
<1>7. /\ d \in Ids /\ table[d] = Null /\ d # pushing.id /\ ~Removed(d) /\ d \notin Live /\ ~Dying(d)
      /\ d \in 0 .. NumIds /\ d # 1 /\ d # 0
  BY <1>2, <1>6, NewIdIs, Constants
<1>8. id \in Live /\ table[id] = s /\ ~Removed(id) /\ heap[s].next = NextId(id) /\ table[id] # Null /\ id # d
      /\ id # pushing.id
  <2>1. SnapOK(t) /\ table[id] = s
    BY <1>2, <1>3 DEF IdInv, SnapsOK, Matches
  <2>2. id \in Live /\ ~Removed(id)
    BY <1>3, <1>5, <1>6, <2>1 DEF SnapOK, Removed, IsNode
  <2>3. table[id] # Null
    BY <2>2 DEF Live
  <2> QED BY <1>6, <1>7, <2>1, <2>2, <2>3, Constants DEF NextId, IdInv, PushOK
<1>9. /\ MemTyped' /\ Blocks' = Blocks \cup {b} /\ b \notin Blocks /\ b \in Nat \ {0}
      /\ \A a \in Blocks : tail'[a] = tail[a]
      /\ tail'[b] = ChunkSize /\ ChunkSize \in 0 .. ChunkSize
  <2>1. ChunkSize \in 0 .. ChunkSize
    BY Constants
  <2> QED BY <1>1, <1>5, <2>1, NewChunk DEF IdInv
<1>10. End(b) \notin Pointers /\ End(b) # Null /\ End(b) # p /\ End(b) \in Pairs
  BY <1>6, <1>9, BlockPlace DEF IdInv
<1>11. Grows /\ Pointers' = Pointers \cup {End(b), p} /\ heap'[End(b)] = m /\ heap'[p] = n
  BY <1>5, <1>6, <1>9, <1>10, TwoPuts
<1>12. NodeOK(End(b))' /\ Kind(End(b))' = "page"
  BY <1>4, <1>6, <1>9, <1>11, PageOK
<1>13. NodeOK(p)' /\ Kind(p)' = "split"
  BY <1>4, <1>6, <1>7, <1>11, RecordOK
<1>14. /\ table'[d] = End(b) /\ table'[id] = p /\ \A x \in Ids \ {d, id} : table'[x] = table[x]
       /\ table' = [x \in Ids |-> table'[x]]
  BY <1>5, <1>6, <1>7, <1>8 DEF IdInv, Typed, StackTyped
<1>15. Posted(t, {})
  <2>1. SizeAt(p)' = SizeOf(t)
    BY <1>5, <1>13 DEF SizeAt, SizeOf, RecordSize, Size
  <2>2. \A q \in Pointers' \ Pointers : q = p \/ q = End(b)
    BY <1>11
  <2>3. ~IsRecord(End(b))'
    BY <1>12 DEF IsRecord
  <2>4. \A q \in Pointers' \ Pointers :
       NodeOK(q)' /\ (IsRecord(q)' => t \in Taken /\ q = call[t].new /\ SizeAt(q)' = SizeOf(t))
    BY <1>1, <1>6, <1>12, <1>13, <2>1, <2>2, <2>3
  <2>5. \A x \in Ids : table'[x] # table[x] =>
           table'[x] \in Pointers' \ Pointers /\ ~Removed(x) /\ x # pushing.id
    BY <1>6, <1>7, <1>8, <1>10, <1>11, <1>14
  <2>6. \A x \in Ids : table'[x] # Null <=> table[x] # Null \/ (HeldBy(t) /\ x = call[t].newid)
    BY <1>2, <1>6, <1>7, <1>8, <1>10, <1>14
  <2> QED BY <1>5, <1>9, <1>11, <1>14, <2>4, <2>5, <2>6 DEF Posted
<1>16. Live' = Live \cup {d}
  <2>1. \A x \in Ids : x \in Live' <=> x \in Live \/ x = d
    BY <1>2, <1>6, <1>15, PostedDead
  <2> QED BY <1>7, <2>1 DEF Live
<1>17. ~Removed(id)' /\ NextId(id)' = d
  <2>1. n.next = d /\ n.kind = "split"
    BY <1>4 DEF Record
  <2> QED BY <1>11, <1>14, <2>1 DEF Removed, NextId, Kind
<1>18. ~Removed(d)' /\ NextId(d)' = NextId(id)
  <2>1. m.next = heap[s].next /\ m.kind = "page"
    BY <1>4 DEF Page
  <2> QED BY <1>8, <1>11, <1>14, <2>1 DEF Removed, NextId, Kind
<1>19. \A x \in Live \ {id} : /\ (Removed(x)' <=> Removed(x)) /\ NextId(x)' = NextId(x)
                              /\ Removed(x)' => heap'[table'[x]].base = x /\ IsNode(heap[table[x]].child)'
  <2>1. \A x \in Live \ {id} : table'[x] = table[x]
    BY <1>7, <1>14 DEF Live
  <2> QED BY <1>11, <2>1, KeptId DEF IdInv
<1>20. TreeOK'
  <2>1. 1 \in Live' /\ ~Removed(1)'
    BY <1>16, <1>17, <1>19 DEF IdInv, TreeOK
  <2>2. \A x \in Live : NextId(x) \in (Live \ {1}) \cup {0}
    BY DEF IdInv, TreeOK
  <2>3. \A x \in Live' : NextId(x)' \in (Live' \ {1}) \cup {0}
    BY <1>7, <1>8, <1>16, <1>17, <1>18, <1>19, <2>2
  <2>4. \A x, y \in Live : NextId(x) = NextId(y) /\ NextId(x) # 0 => x = y
    BY DEF IdInv, TreeOK
  <2> DEFINE Was(x) == IF x = d THEN id ELSE x
  <2>5. \A x \in Live' : /\ Was(x) \in Live
                         /\ IF x = id THEN NextId(x)' = d ELSE NextId(x)' = NextId(Was(x)) /\ NextId(x)' # d
    <3>1. d # 0
      BY <1>7
    <3> QED BY <1>7, <1>8, <1>16, <1>17, <1>18, <1>19, <2>2, <3>1
  <2>6. \A x, y \in Live' : x # id /\ y # id /\ Was(x) = Was(y) => x = y
    OBVIOUS
  <2> HIDE DEF Was
  <2>7. \A x, y \in Live' : NextId(x)' = NextId(y)' /\ NextId(x)' # 0 => x = y
    BY <2>4, <2>5, <2>6
  <2>8. \A x \in Live' : Removed(x)' => heap'[table'[x]].base = x /\ IsNode(heap[table[x]].child)'
    BY <1>16, <1>17, <1>18, <1>19
  <2>9. Reached'
    <3> SUFFICES ASSUME NEW S \in SUBSET Ids, 1 \in S,
                        \A x \in Live' : x \in S /\ NextId(x)' # 0 => NextId(x)' \in S
                 PROVE  Live' \subseteq S
      BY DEF Reached
    <3> DEFINE T == S \ {d}
    <3>1. T \in SUBSET Ids /\ 1 \in T
      BY <1>7
    <3>2. ASSUME NEW x \in Live, x \in T, NextId(x) # 0 PROVE NextId(x) \in T
      <4>1. NextId(x) # d
        BY <1>7, <2>2, <3>2
      <4>2. CASE x # id
        BY <1>16, <1>19, <3>2, <4>1, <4>2
      <4>3. CASE x = id
        <5>1. d \in S
          BY <1>7, <1>8, <1>16, <1>17, <3>2, <4>3
        <5> QED BY <1>16, <1>18, <3>2, <4>1, <4>3, <5>1
      <4> QED BY <4>2, <4>3
    <3>3. Live \subseteq T
      <4> HIDE DEF T
      <4>1. Reached
        BY DEF IdInv, TreeOK
      <4> QED BY <3>1, <3>2, <4>1 DEF Reached
    <3>4. d \in S
      BY <1>7, <1>8, <1>16, <1>17, <3>3
    <3> QED BY <1>16, <3>3, <3>4
  <2> QED BY <2>1, <2>3, <2>7, <2>8, <2>9 DEF TreeOK
<1> QED BY <1>15, <1>20, PostedDead, PostedKeeps, PostedSnaps DEF IdInv

LEMMA SplitLost ==
  ASSUME IdInv, NEW t \in Threads, SplitNode(t), ~Matches(t)
  PROVE  IdInv'
<1>1. PICK b, f : b = NewBlock /\ f = NewBlock + 1
  OBVIOUS
<1>2. PICK s, d : s = call[t].snap /\ d = call[t].newid
  OBVIOUS
<1>3. PICK m, n : m = Page(b, heap[s].next) /\ n = RemoveRecord(d, Null)
  OBVIOUS
<1>4. /\ pc[t] = "cas" /\ call[t].op = "split" /\ Leave(t, {End(b), End(f)}) /\ freed' = freed
      /\ UNCHANGED <<stackVars, calls, cleanVars>>
      /\ tail' = tail \o <<ChunkSize, 0>> /\ next' = next \o <<NoBlock, NoBlock>>
      /\ heap' = Put(Put(heap, End(b), m), End(f), n)
      /\ table' = [table EXCEPT ![d] = End(b)]
  BY <1>1, <1>2, <1>3 DEF SplitNode
<1>5. IsNode(s) /\ HeldBy(t) /\ heap[s].next \in 0 .. NumIds
  BY <1>2, <1>4, CasIs
<1>6. /\ d \in Ids /\ table[d] = Null /\ d # pushing.id /\ ~Removed(d) /\ d \notin Live /\ ~Dying(d)
  BY <1>2, <1>5, NewIdIs
<1>7. /\ MemTyped' /\ Blocks' = Blocks \cup {b, f} /\ b \notin Blocks /\ f \notin Blocks
      /\ b \in Nat \ {0} /\ f \in Nat \ {0} /\ b # f
      /\ \A a \in Blocks : tail'[a] = tail[a]
      /\ tail'[b] = ChunkSize /\ tail'[f] = 0
  <2>1. /\ MemTyped' /\ Blocks' = Blocks \cup {b, f} /\ b \notin Blocks /\ f \notin Blocks
        /\ b \in Nat \ {0} /\ f = b + 1 /\ \A a \in Blocks : tail'[a] = tail[a]
        /\ tail'[b] = ChunkSize /\ tail'[f] = 0
    BY <1>1, <1>4, TwoChunks DEF IdInv
  <2>2. f \in Nat \ {0} /\ b # f
    BY <2>1
  <2> QED BY <2>1, <2>2
<1>8. /\ End(b) \notin Pointers /\ End(f) \notin Pointers /\ End(b) # Null /\ End(b) # End(f)
      /\ End(b)[1] = b /\ End(f)[1] = f
  BY <1>7, BlockPlace DEF IdInv
<1>9. Grows /\ Pointers' = Pointers \cup {End(b), End(f)} /\ heap'[End(b)] = m /\ heap'[End(f)] = n
  BY <1>4, <1>7, <1>8, TwoPuts
<1>10. NodeOK(End(b))' /\ Kind(End(b))' = "page"
  BY <1>3, <1>5, <1>7, <1>9, PageOK
<1>11. NodeOK(End(f))' /\ Kind(End(f))' = "remove"
  BY <1>3, <1>6, <1>7, <1>9, RemoveRecordOK
<1>12. /\ table'[d] = End(b) /\ \A x \in Ids \ {d} : table'[x] = table[x]
       /\ table' = [x \in Ids |-> table'[x]]
  BY <1>4, <1>6 DEF IdInv, Typed, StackTyped
<1>13. /\ \A q \in {End(b), End(f)} : IsRemove(q)' => q = End(f)
       /\ IsRemove(End(f))' /\ heap'[End(f)].base = d
  BY <1>3, <1>9, <1>10, <1>11 DEF IsRemove, RemoveRecord
<1>14. Posted(t, {End(b), End(f)})
  <2>1. ~IsRecord(End(b))' /\ ~IsRecord(End(f))'
    BY <1>10, <1>11 DEF IsRecord
  <2>2. \A q \in Pointers' \ Pointers :
       NodeOK(q)' /\ (IsRecord(q)' => t \in Taken /\ q = call[t].new /\ SizeAt(q)' = SizeOf(t))
    <3>1. \A q \in Pointers' \ Pointers : q = End(b) \/ q = End(f)
      BY <1>9
    <3> QED BY <1>10, <1>11, <2>1, <3>1
  <2>3. \A x \in Ids : table'[x] # table[x] =>
           table'[x] \in Pointers' \ Pointers /\ ~Removed(x) /\ x # pushing.id
    BY <1>6, <1>8, <1>9, <1>12
  <2>4. \A x \in Ids : table'[x] # Null <=> table[x] # Null \/ (HeldBy(t) /\ x = call[t].newid)
    BY <1>2, <1>5, <1>6, <1>8, <1>12
  <2>5. \A q \in {End(b), End(f)} : IsRemove(q)' =>
       ~Dying(heap'[q].base) /\ table'[heap'[q].base] # Null
         /\ (Removed(heap'[q].base) \/ heap'[q].base \notin Live)
    BY <1>6, <1>8, <1>12, <1>13
  <2>6. \A a \in Blocks' \ Blocks : tail'[a] \in 0 .. ChunkSize
    BY <1>7, Constants
  <2> QED BY <1>4, <1>7, <1>9, <1>12, <1>13, <2>2, <2>3, <2>4, <2>5, <2>6 DEF Posted
<1>15. Live' = Live
  <2>1. \A x \in Ids : x \in Live' <=> (x \in Live \/ x = d) /\ x # d
    BY <1>2, <1>5, <1>13, <1>14, PostedDead
  <2> QED BY <1>6, <2>1 DEF Live
<1>16. \A x \in Live : /\ (Removed(x)' <=> Removed(x)) /\ NextId(x)' = NextId(x)
                       /\ Removed(x)' => heap'[table'[x]].base = x /\ IsNode(heap[table[x]].child)'
  <2>1. \A x \in Live : table'[x] = table[x]
    BY <1>6, <1>12 DEF Live
  <2> QED BY <1>9, <2>1, KeptId DEF IdInv
<1>17. TreeOK'
  <2>1. ~Removed(1)'
    BY <1>16 DEF IdInv, TreeOK
  <2> QED BY <1>15, <1>16, <2>1, TreeSame DEF IdInv
<1> QED BY <1>14, <1>17, PostedDead, PostedKeeps, PostedSnaps DEF IdInv

-----------------------------------------------------------------------------
(* The cleaner. *)

(* It touches no record, no thread, and no entry of a node of the tree. *)
Cleans ==
  /\ UNCHANGED <<tail, next, heap, pc, call, chunk, popped>>
  /\ freed' \subseteq Blocks /\ Live' = Live
  /\ \A id \in Ids : table'[id] = table[id] \/ (table'[id] = Null /\ id \notin Live)

LEMMA CleansKeeps ==
  ASSUME IdInv, Cleans
  PROVE  MemTyped' /\ ThreadTyped' /\ HeapOK' /\ CallsOK' /\ ChunksOK' /\ TailsOK' /\ TreeOK' /\ SnapsOK'
<1> USE DEF IdInv
<1>1. /\ tail' = tail /\ next' = next /\ heap' = heap /\ pc' = pc /\ call' = call /\ chunk' = chunk
      /\ popped' = popped /\ Blocks' = Blocks /\ Pointers' = Pointers
  BY DEF Cleans, Blocks, Pointers
<1>2. MemTyped' /\ ThreadTyped'
  BY <1>1 DEF Cleans, Typed, MemTyped, ThreadTyped
<1>3. Grows /\ HeapOK'
  BY <1>1, HeapKept, SameGrows
<1>4. CallsOK'
  BY <1>1, <1>3, CallKept DEF CallsOK, Quiet
<1>5. ChunksOK'
  BY <1>1 DEF ChunksOK, InChunk, IsRecord, Kind, SizeAt, Taken, SizeOf
<1>6. TailsOK'
  BY <1>1 DEF TailsOK, Subtracting
<1>7. \A x \in Live : /\ table'[x] = table[x]
                      /\ (Removed(x)' <=> Removed(x)) /\ NextId(x)' = NextId(x)
                      /\ Removed(x)' => heap'[table'[x]].base = x /\ IsNode(heap[table[x]].child)'
  <2>1. \A x \in Live : table'[x] = table[x]
    BY DEF Cleans, Live
  <2> QED BY <1>3, <2>1, KeptId
<1>8. TreeOK'
  <2>1. ~Removed(1)'
    BY <1>7 DEF TreeOK
  <2> QED BY <1>7, <2>1, TreeSame DEF Cleans
<1>9. SnapsOK'
  <2> SUFFICES ASSUME NEW u \in Threads, pc[u] # "out", table'[call[u].id] = call[u].snap
               PROVE  /\ call[u].id \in Live
                      /\ call[u].op = "merge" => \E j : /\ j = heap[call[u].snap].next /\ Removed(j)'
                                                        /\ heap[table'[j]].child = call[u].right
    BY <1>1 DEF SnapsOK, SnapOK, Matches, Cleans
  <2>1. call[u].id \in Ids /\ IsNode(call[u].snap)
    BY DEF CallsOK, CallOK
  <2>2. table[call[u].id] = call[u].snap
    BY <2>1, NullNowhere DEF Cleans, IsNode, Typed
  <2>3. SnapOK(u) /\ Matches(u)
    BY <2>2 DEF SnapsOK, Matches
  <2>4. call[u].id \in Live
    BY <2>3 DEF SnapOK
  <2>5. ASSUME call[u].op = "merge"
        PROVE  \E j : /\ j = heap[call[u].snap].next /\ Removed(j)' /\ heap[table'[j]].child = call[u].right
    <3>1. PICK j : j = heap[call[u].snap].next
      OBVIOUS
    <3>2. Removed(j) /\ heap[table[j]].child = call[u].right
      BY <2>3, <2>5, <3>1 DEF SnapOK
    <3>3. j = NextId(call[u].id)
      BY <2>1, <2>2, <3>1 DEF NextId, Removed, IsNode
    <3>4. j \in Live
      BY <2>4, <3>2, <3>3 DEF TreeOK, Removed
    <3> QED BY <1>7, <3>1, <3>2, <3>4
  <2> QED BY <2>4, <2>5
<1> QED BY <1>2, <1>3, <1>4, <1>5, <1>6, <1>8, <1>9

LEMMA PopSame ==
  ASSUME PopsOK, data' = data, CurTop' = CurTop, UNCHANGED <<pc, call, popped>>
  PROVE  PopsOK'
BY DEF PopsOK, PopOK

LEMMA ClearInv ==
  ASSUME IdInv, ClearEpoch
  PROVE  IdInv'
<1> USE DEF IdInv
<1>1. PICK r \in retired : retired' = retired \ {r} /\ todo' = <<[ptr |-> r.ptr, right |-> FALSE]>>
  BY DEF ClearEpoch
<1>2. /\ todo = <<>> /\ UNCHANGED <<memVars, table, stackVars, pc, call, chunk, popped, calls, pushing>>
  BY DEF ClearEpoch
<1>3. /\ tail' = tail /\ next' = next /\ heap' = heap /\ pc' = pc /\ call' = call /\ chunk' = chunk
      /\ popped' = popped /\ freed' = freed /\ table' = table /\ data' = data /\ top' = top
      /\ next_unused' = next_unused /\ pushing' = pushing /\ CurTop' = CurTop /\ Pointers' = Pointers
  BY <1>2 DEF memVars, stackVars, CurTop, Pointers
<1>4. DOMAIN todo = {} /\ DOMAIN todo' = {1} /\ todo'[1].ptr = r.ptr /\ todo'[1].right = FALSE /\ Len(todo') = 1
  BY <1>1, <1>2
<1>5. Dead' = Dead
  BY <1>1, <1>4 DEF Dead
<1>6. Live' = Live
  BY <1>3, <1>5, TreeKept
<1>7. Cleans
  BY <1>3, <1>6 DEF Cleans, Typed, MemTyped
<1>8. pushing.id = 0
  BY <1>2 DEF PushOK
<1>9. PushOK'
  BY <1>3, <1>8 DEF PushOK
<1>10. CleanTyped'
  <2>1. r \in [ptr : Pairs, until : SUBSET Threads]
    BY DEF Typed, CleanTyped
  <2>2. [ptr |-> r.ptr, right |-> FALSE] \in [ptr : Pairs, right : BOOLEAN]
    BY <2>1
  <2> QED BY <1>1, <1>3, <2>2 DEF Typed, CleanTyped
<1>11. PointersOK'
  BY <1>3, <1>4, <1>5 DEF PointersOK
<1>12. DyingOK'
  <2>1. \A p : IsRemove(p)' <=> IsRemove(p)
    BY <1>3 DEF IsRemove, Kind
  <2> QED BY <1>1, <1>3, <1>4, <1>5, <2>1 DEF DyingOK
<1>13. PopsOK'
  BY <1>3, PopSame
<1>14. IdsOK'
  <2>1. \A u \in Threads : (HeldBy(u)' <=> HeldBy(u)) /\ (HeldBy(u) => call'[u].newid = call[u].newid)
    BY <1>3 DEF HeldBy
  <2> QED BY <1>3, <2>1, IdsKept
<1>15. StackTyped'
  BY <1>3 DEF Typed, StackTyped
<1> QED BY <1>7, <1>9, <1>10, <1>11, <1>12, <1>13, <1>14, <1>15, CleansKeeps DEF Typed

LEMMA PreparePushInv ==
  ASSUME IdInv, PreparePush
  PROVE  IdInv'
<1> USE DEF IdInv
<1>1. /\ tail' = tail /\ next' = next /\ heap' = heap /\ pc' = pc /\ call' = call /\ chunk' = chunk
      /\ popped' = popped /\ freed' = freed /\ table' = table /\ data' = data /\ top' = NoTop
      /\ next_unused' = next_unused /\ todo' = todo /\ retired' = retired /\ Pointers' = Pointers
  BY DEF PreparePush, memVars, Pointers
<1>2. /\ pushing.id # 0 /\ pushing.top = NoTop /\ pushing' = [pushing EXCEPT !.top = top]
      /\ pushing \in [top : Tops, id : 0 .. NumIds] /\ top \in Tops
  BY DEF PreparePush, Typed, CleanTyped, StackTyped
<1>3. pushing'.top = top /\ pushing'.id = pushing.id /\ pushing' \in [top : Tops, id : 0 .. NumIds]
  BY <1>2
<1>4. top # NoTop /\ CurTop = top /\ CurTop' = top
  BY <1>2, <1>3 DEF PushOK, CurTop
<1>5. Dead' = Dead /\ Live' = Live
  <2>1. Dead' = Dead
    BY <1>1 DEF Dead
  <2> QED BY <1>1, <2>1, TreeKept
<1>6. Cleans
  BY <1>1, <1>5 DEF Cleans, Typed, MemTyped
<1>7. \A p : IsRemove(p)' <=> IsRemove(p)
  BY <1>1 DEF IsRemove, Kind
<1>8. PushOK'
  BY <1>1, <1>2, <1>3, <1>4, <1>7 DEF PushOK
<1>9. PointersOK' /\ DyingOK'
  BY <1>1, <1>3, <1>5, <1>7 DEF PointersOK, DyingOK, Kind
<1>10. PopsOK'
  BY <1>1, <1>4, PopSame
<1>11. IdsOK'
  <2>1. \A u \in Threads : (HeldBy(u)' <=> HeldBy(u)) /\ (HeldBy(u) => call'[u].newid = call[u].newid)
    BY <1>1 DEF HeldBy
  <2> QED BY <1>1, <1>3, <1>4, <2>1, IdsKept
<1>12. StackTyped' /\ CleanTyped'
  BY <1>1, <1>3, Constants DEF Typed, StackTyped, CleanTyped
<1> QED BY <1>6, <1>8, <1>9, <1>10, <1>11, <1>12, CleansKeeps DEF Typed

LEMMA PushInv ==
  ASSUME IdInv, SingleThreadPush
  PROVE  IdInv'
<1> USE DEF IdInv
<1>1. PICK up, d, v : up = pushing.top.at + 1 /\ d = pushing.id /\ v = pushing.top.version
  OBVIOUS
<1>2. /\ tail' = tail /\ next' = next /\ heap' = heap /\ pc' = pc /\ call' = call /\ chunk' = chunk
      /\ popped' = popped /\ table' = table /\ data' = [data EXCEPT ![up] = d]
      /\ top' = [at |-> up, version |-> v + 1]
      /\ next_unused' = next_unused /\ todo' = Tail(todo) /\ retired' = retired /\ pushing' = NoPush
      /\ freed' = freed \cup {Head(todo).ptr[1]} /\ pushing.top # NoTop
  BY <1>1 DEF SingleThreadPush, NextVersion, Rest
<1>3. /\ d # 0 /\ d \in Ids /\ todo # <<>> /\ IsRemove(Head(todo).ptr) /\ heap[Head(todo).ptr].base = d
      /\ table[d] = Null /\ CurTop = pushing.top /\ top = NoTop /\ v \in Nat
  BY <1>1, <1>2, Constants DEF PushOK, Typed, CleanTyped, CurTop, Tops
<1>4. up \in Ids /\ up = CurTop.at + 1 /\ CurTop.at \in Nat
  <2>1. CurTop.at + 1 \in Ids
    BY <1>1, <1>3, StackRoom
  <2>2. CurTop.at \in Nat
    BY <1>3, Constants DEF PushOK, Typed, CleanTyped, Tops
  <2> QED BY <1>1, <1>3, <2>1, <2>2
<1>5. 1 \in DOMAIN todo /\ Head(todo) = todo[1] /\ Len(todo) = 1 /\ DOMAIN todo = {1} /\ todo' = <<>>
  <2>1. todo \in Seq([ptr : Pairs, right : BOOLEAN])
    BY DEF Typed, CleanTyped
  <2>2. 1 \in DOMAIN todo /\ Head(todo) = todo[1]
    BY <1>3, <2>1
  <2>3. Len(todo) = 1
    BY <1>3, <2>2 DEF DyingOK
  <2> QED BY <1>2, <2>1, <2>2, <2>3
<1>6. Head(todo).ptr \in Pointers /\ Head(todo).ptr[1] \in Blocks
  BY <1>5 DEF PointersOK, Dead, HeapOK, NodeOK
<1>7. \A p : IsRemove(p)' <=> IsRemove(p)
  BY <1>2 DEF IsRemove, Kind
<1>8. Dead' = {r.ptr : r \in retired} /\ Dead = Dead' \cup {Head(todo).ptr}
  BY <1>2, <1>5 DEF Dead
<1>9. \A r \in retired : IsRemove(r.ptr) => heap[r.ptr].base # d
  BY <1>3, <1>5 DEF DyingOK
<1>10. \A id : Dying(id)' <=> Dying(id) /\ id # d
  BY <1>2, <1>3, <1>7, <1>8, <1>9 DEF Dying, IsRemove
<1>11. Live' = Live
  BY <1>2, <1>3, <1>10 DEF Live
<1>12. Cleans
  BY <1>2, <1>6, <1>11 DEF Cleans, Typed, MemTyped
<1>13. CurTop' = top' /\ top' # NoTop /\ top'.at = up /\ top'.version = v + 1 /\ top' \in Tops
       /\ pushing'.top = NoTop /\ pushing'.id = 0
  <2>1. pushing'.top = NoTop /\ pushing'.id = 0
    BY <1>2 DEF NoPush
  <2>2. up \in -1 .. NumIds /\ v + 1 \in Nat /\ up # -1
    BY <1>3, <1>4, Constants
  <2> QED BY <1>2, <2>1, <2>2 DEF CurTop, Tops, NoTop
<1>14. PushOK'
  BY <1>4, <1>13, Constants DEF PushOK
<1>15. PointersOK'
  <2>1. DOMAIN todo' = {} /\ Pointers' = Pointers /\ Dead' \subseteq Dead
    BY <1>2, <1>5, <1>8 DEF Pointers
  <2> QED BY <1>2, <2>1 DEF PointersOK
<1>16. DyingOK'
  <2>1. DOMAIN todo' = {}
    BY <1>5
  <2>2. \A p \in Dead' : IsRemove(p) => table[heap[p].base] # Null
    BY <1>3, <1>8, <1>9 DEF DyingOK
  <2> QED BY <1>2, <1>7, <2>1, <2>2 DEF DyingOK
<1>17. PopsOK'
  <2>1. \A u \in Threads : popped[u].version \in Nat /\ popped[u].version <= v
    BY <1>1, <1>3 DEF PopsOK, PopOK, Typed, ThreadTyped, Tops
  <2>2. \A u \in Threads : popped'[u].version <= CurTop'.version /\ popped'[u].version # CurTop'.version
    BY <1>2, <1>3, <1>13, <2>1
  <2>3. \A u \in Threads : pc'[u] \in {"read", "popcas"} => popped'[u].at >= 1
    BY <1>2 DEF PopsOK, PopOK
  <2> QED BY <2>2, <2>3 DEF PopsOK, PopOK
<1>18. IdsOK'
  <2>1. \A i : i \in 1 .. CurTop'.at <=> i \in 1 .. CurTop.at \/ i = up
    BY <1>4, <1>13
  <2>2. up \notin 1 .. CurTop.at
    BY <1>4
  <2>3. data'[up] = d /\ \A i \in 1 .. CurTop.at : data'[i] = data[i]
    <3>1. 1 .. CurTop.at \subseteq Ids
      BY <1>4, Constants
    <3> QED BY <1>2, <1>4, <2>2, <3>1 DEF Typed, StackTyped
  <2>4. ~OnStack(d)
    BY <1>1, <1>3 DEF IdsOK
  <2>5. \A id \in Ids : OnStack(id)' <=> OnStack(id) \/ id = d
    BY <2>1, <2>2, <2>3 DEF OnStack
  <2>6. \A id \in Ids : InHand(id)' <=> InHand(id)
    BY <1>2 DEF InHand, HeldBy
  <2>7. /\ \A i \in 1 .. CurTop'.at : data'[i] \in Ids
        /\ \A i, j \in 1 .. CurTop'.at : data'[i] = data'[j] => i = j
    BY <1>3, <2>1, <2>3, <2>4 DEF IdsOK, OnStack
  <2>8. /\ \A u \in Threads : HeldBy(u)' => call'[u].newid \in Ids
        /\ \A u, w \in Threads : HeldBy(u)' /\ HeldBy(w)' /\ call'[u].newid = call'[w].newid => u = w
    BY <1>2 DEF IdsOK, HeldBy
  <2>9. ASSUME NEW id \in Ids
        PROVE  /\ OnStack(id)' => ~InHand(id)' /\ table'[id] = Null /\ pushing'.id # id
               /\ InHand(id)' => table'[id] = Null /\ pushing'.id # id
               /\ id < next_unused' <=> OnStack(id)' \/ InHand(id)' \/ table'[id] # Null \/ pushing'.id = id
    BY <1>1, <1>2, <1>3, <1>13, <2>5, <2>6, Constants DEF IdsOK
  <2> QED BY <2>7, <2>8, <2>9 DEF IdsOK
<1>19. StackTyped' /\ CleanTyped'
  <2>1. data' \in [Ids -> 0 .. NumIds]
    <3>1. d \in 0 .. NumIds
      BY <1>3, Constants
    <3> QED BY <1>2, <3>1 DEF Typed, StackTyped
  <2>2. todo' \in Seq([ptr : Pairs, right : BOOLEAN])
    BY <1>5
  <2>3. pushing' \in [top : Tops, id : 0 .. NumIds]
    BY <1>2, Constants DEF NoPush
  <2>4. StackTyped'
    BY <1>2, <1>13, <2>1 DEF Typed, StackTyped
  <2>5. CleanTyped'
    BY <1>2, <2>2, <2>3 DEF Typed, CleanTyped
  <2> QED BY <2>4, <2>5
<1> QED BY <1>12, <1>14, <1>15, <1>16, <1>17, <1>18, <1>19, CleansKeeps DEF Typed

LEMMA TailIs ==
  ASSUME NEW S, NEW s \in Seq(S), s # <<>>
  PROVE  /\ Tail(s) \in Seq(S) /\ Head(s) = s[1] /\ Head(s) \in S /\ 1 \in DOMAIN s
         /\ \A i \in DOMAIN Tail(s) : i + 1 \in DOMAIN s /\ i + 1 # 1 /\ Tail(s)[i] = s[i + 1]
OBVIOUS

LEMMA PutBefore ==
  ASSUME NEW S, NEW s \in Seq(S), NEW x \in S
  PROVE  /\ <<x>> \o s \in Seq(S) /\ <<x>> \o s # <<>> /\ 1 \in DOMAIN (<<x>> \o s) /\ (<<x>> \o s)[1] = x
         /\ \A i \in DOMAIN (<<x>> \o s) : i # 1 => i - 1 \in DOMAIN s /\ (<<x>> \o s)[i] = s[i - 1]
OBVIOUS

(* What the cleaner has still to visit after a node that is no remove record. *)
Visits(new, old) ==
  \A i \in DOMAIN new : \/ IsNode(new[i].ptr) /\ (new[i].right => Kind(new[i].ptr) = "merge")
                        \/ \E j \in DOMAIN old : j # 1 /\ new[i] = old[j]

LEMMA VisitedInv ==
  ASSUME IdInv, todo # <<>>, pushing = NoPush, ~IsRemove(Head(todo).ptr),
         todo' \in Seq([ptr : Pairs, right : BOOLEAN]), Visits(todo', todo),
         freed' \subseteq Blocks,
         UNCHANGED <<tail, next, heap, table, retired, stackVars, pc, call, chunk, popped, calls, pushing>>
  PROVE  IdInv'
<1> USE DEF IdInv
<1>1. /\ tail' = tail /\ next' = next /\ heap' = heap /\ pc' = pc /\ call' = call /\ chunk' = chunk
      /\ popped' = popped /\ table' = table /\ data' = data /\ top' = top /\ retired' = retired
      /\ next_unused' = next_unused /\ pushing' = pushing /\ CurTop' = CurTop /\ Pointers' = Pointers
  BY DEF stackVars, CurTop, Pointers
<1>2. todo \in Seq([ptr : Pairs, right : BOOLEAN]) /\ 1 \in DOMAIN todo /\ Head(todo) = todo[1]
      /\ DOMAIN todo = 1 .. Len(todo)
  BY DEF Typed, CleanTyped
<1>3. \A i \in DOMAIN todo : ~IsRemove(todo[i].ptr)
  <2> SUFFICES ASSUME NEW i \in DOMAIN todo, IsRemove(todo[i].ptr) PROVE FALSE
    OBVIOUS
  <2>1. Len(todo) = 1
    BY DEF DyingOK
  <2>2. i = 1
    BY <1>2, <2>1
  <2> QED BY <1>2, <2>2
<1>4. \A i \in DOMAIN todo' : /\ todo'[i].ptr \in Pointers /\ ~IsRemove(todo'[i].ptr)
                              /\ todo'[i].right => Kind(todo'[i].ptr) = "merge"
  BY <1>3 DEF Visits, IsNode, IsRemove, PointersOK, Dead
<1>5. \A p : IsRemove(p)' <=> IsRemove(p)
  BY <1>1 DEF IsRemove, Kind
<1>6. \A p : p \in Dead /\ IsRemove(p) <=> p \in Dead' /\ IsRemove(p)
  BY <1>1, <1>3, <1>4 DEF Dead
<1>7. \A id : Dying(id)' <=> Dying(id)
  BY <1>1, <1>5, <1>6 DEF Dying, IsRemove
<1>8. Live' = Live
  BY <1>1, <1>7 DEF Live
<1>9. Cleans
  BY <1>1, <1>8 DEF Cleans
<1>10. PointersOK'
  <2>1. Dead' \subseteq Pointers
    BY <1>1, <1>4 DEF Dead, PointersOK
  <2> QED BY <1>1, <1>4, <2>1 DEF PointersOK, Kind
<1>11. DyingOK'
  <2>1. \A i \in DOMAIN todo' : ~IsRemove(todo'[i].ptr)
    BY <1>4
  <2>2. \A p \in Dead' : IsRemove(p) => p \in Dead
    BY <1>6
  <2> QED BY <1>1, <1>5, <2>1, <2>2 DEF DyingOK
<1>12. PushOK'
  <2>1. pushing.id = 0 /\ pushing.top = NoTop
    BY DEF NoPush
  <2> QED BY <1>1, <2>1 DEF PushOK
<1>13. PopsOK'
  BY <1>1, PopSame
<1>14. IdsOK'
  <2>1. \A u \in Threads : (HeldBy(u)' <=> HeldBy(u)) /\ (HeldBy(u) => call'[u].newid = call[u].newid)
    BY <1>1 DEF HeldBy
  <2> QED BY <1>1, <2>1, IdsKept
<1>15. StackTyped' /\ CleanTyped'
  BY <1>1 DEF Typed, StackTyped, CleanTyped
<1> QED BY <1>9, <1>10, <1>11, <1>12, <1>13, <1>14, <1>15, CleansKeeps DEF Typed

(* A remove record: its NodeID leaves the mapping table. *)
LEMMA UnmapInv ==
  ASSUME IdInv, todo # <<>>, pushing = NoPush, NEW b, b = heap[Head(todo).ptr].base,
         IsRemove(Head(todo).ptr),
         table' = [table EXCEPT ![b] = Null], pushing' = [top |-> NoTop, id |-> b],
         UNCHANGED <<freed, todo, tail, next, heap, retired, stackVars, pc, call, chunk, popped, calls>>
  PROVE  IdInv'
<1> USE DEF IdInv
<1>1. /\ tail' = tail /\ next' = next /\ heap' = heap /\ pc' = pc /\ call' = call /\ chunk' = chunk
      /\ popped' = popped /\ data' = data /\ top' = top /\ retired' = retired /\ todo' = todo
      /\ next_unused' = next_unused /\ Pointers' = Pointers /\ freed' = freed
  BY DEF stackVars, Pointers
<1>2. pushing.id = 0 /\ pushing.top = NoTop /\ pushing'.id = b /\ pushing'.top = NoTop
  BY DEF NoPush
<1>3. Head(todo) = todo[1] /\ 1 \in DOMAIN todo
  BY DEF Typed, CleanTyped
<1>4. Head(todo).ptr \in Dead /\ Head(todo).ptr \in Pointers
  BY <1>3 DEF Dead, PointersOK
<1>5. b \in Ids /\ Dying(b)
  BY <1>4 DEF HeapOK, NodeOK, IsRemove, Kind, Dying
<1>6. table[b] # Null /\ b # 0 /\ b \in 0 .. NumIds
  BY <1>2, <1>4, <1>5, Constants DEF DyingOK
<1>7. table'[b] = Null /\ \A id \in Ids \ {b} : table'[id] = table[id]
  BY <1>5 DEF Typed, StackTyped
<1>8. \A p : IsRemove(p)' <=> IsRemove(p)
  BY <1>1 DEF IsRemove, Kind
<1>9. Dead' = Dead
  BY <1>1 DEF Dead
<1>10. \A id : Dying(id)' <=> Dying(id)
  BY <1>1, <1>8, <1>9 DEF Dying, IsRemove
<1>11. Live' = Live
  BY <1>5, <1>7, <1>10 DEF Live
<1>12. Cleans
  BY <1>1, <1>5, <1>7, <1>11 DEF Cleans, Live, Typed, MemTyped
<1>13. CurTop' = CurTop
  BY <1>1, <1>2 DEF CurTop
<1>14. PushOK'
  BY <1>1, <1>2, <1>7, <1>8, <1>13 DEF PushOK
<1>15. PointersOK'
  BY <1>1, <1>5, <1>7, <1>9 DEF PointersOK, Kind
<1>16. DyingOK'
  <2>1. \A p \in Dead : IsRemove(p) => table'[heap[p].base] # Null \/ heap[p].base = b
    <3>1. \A p \in Dead : IsRemove(p) => heap[p].base \in Ids
      BY DEF PointersOK, HeapOK, NodeOK, IsRemove, Kind
    <3>2. \A p \in Dead : IsRemove(p) => heap[p].base # pushing.id
      BY <1>2, <3>1, Constants
    <3> QED BY <1>7, <3>1, <3>2 DEF DyingOK
  <2> QED BY <1>1, <1>2, <1>8, <1>9, <2>1 DEF DyingOK
<1>17. PopsOK'
  BY <1>1, <1>13, PopSame
<1>18. IdsOK'
  <2>1. \A id : (OnStack(id)' <=> OnStack(id)) /\ (InHand(id)' <=> InHand(id))
    BY <1>1, <1>13 DEF OnStack, InHand, HeldBy
  <2>2. \A id \in Ids : (table'[id] # Null \/ pushing'.id = id) <=> (table[id] # Null \/ pushing.id = id)
    BY <1>2, <1>6, <1>7, Constants
  <2>3. /\ \A i \in 1 .. CurTop'.at : data'[i] \in Ids
        /\ \A i, j \in 1 .. CurTop'.at : data'[i] = data'[j] => i = j
        /\ \A u \in Threads : HeldBy(u)' => call'[u].newid \in Ids
        /\ \A u, w \in Threads : HeldBy(u)' /\ HeldBy(w)' /\ call'[u].newid = call'[w].newid => u = w
    BY <1>1, <1>13 DEF IdsOK, HeldBy
  <2>4. ASSUME NEW id \in Ids
        PROVE  /\ OnStack(id)' => ~InHand(id)' /\ table'[id] = Null /\ pushing'.id # id
               /\ InHand(id)' => table'[id] = Null /\ pushing'.id # id
               /\ id < next_unused' <=> OnStack(id)' \/ InHand(id)' \/ table'[id] # Null \/ pushing'.id = id
    BY <1>1, <2>1, <2>2 DEF IdsOK
  <2> QED BY <2>3, <2>4 DEF IdsOK
<1>19. StackTyped' /\ CleanTyped'
  <2>1. table' \in [Ids -> Pairs]
    BY Constants DEF Typed, StackTyped
  <2> QED BY <1>1, <1>6, <2>1, Constants DEF Typed, StackTyped, CleanTyped
<1> QED BY <1>12, <1>14, <1>15, <1>16, <1>17, <1>18, <1>19, CleansKeeps DEF Typed

LEMMA FreeInv ==
  ASSUME IdInv, FreeEpochDeltaChain
  PROVE  IdInv'
<1> USE DEF IdInv
<1>1. PICK v, n : v = Head(todo) /\ n = heap[v.ptr]
  OBVIOUS
<1>2. todo # <<>> /\ pushing = NoPush
      /\ UNCHANGED <<tail, next, heap, retired, stackVars, pc, call, chunk, popped, calls>>
  BY DEF FreeEpochDeltaChain
<1> DEFINE E == [ptr : Pairs, right : BOOLEAN]
<1>3. /\ todo \in Seq(E) /\ v = todo[1] /\ v \in E /\ 1 \in DOMAIN todo /\ Rest \in Seq(E)
      /\ \A i \in DOMAIN Rest : i + 1 \in DOMAIN todo /\ i + 1 # 1 /\ Rest[i] = todo[i + 1]
  <2>1. todo \in Seq(E)
    BY DEF Typed, CleanTyped
  <2> HIDE DEF E
  <2> QED BY <1>1, <1>2, <2>1, TailIs DEF Rest
<1>4. v.ptr \in Pointers /\ NodeOK(v.ptr) /\ (v.right => n.kind = "merge") /\ freed \subseteq Blocks
  BY <1>1, <1>3 DEF PointersOK, Dead, HeapOK, Kind, Typed, MemTyped
<1>5. Visits(Rest, todo)
  BY <1>3 DEF Visits
<1>6. ASSUME NEW x \in E, IsNode(x.ptr), x.right => Kind(x.ptr) = "merge"
      PROVE  <<x>> \o Rest \in Seq(E) /\ Visits(<<x>> \o Rest, todo)
  <2>1. /\ <<x>> \o Rest \in Seq(E) /\ (<<x>> \o Rest)[1] = x
        /\ \A i \in DOMAIN (<<x>> \o Rest) : i # 1 => i - 1 \in DOMAIN Rest /\ (<<x>> \o Rest)[i] = Rest[i - 1]
    <3> HIDE DEF E
    <3> QED BY <1>3, PutBefore
  <2>2. ASSUME NEW i \in DOMAIN (<<x>> \o Rest), i # 1
        PROVE  \E j \in DOMAIN todo : j # 1 /\ (<<x>> \o Rest)[i] = todo[j]
    BY <1>3, <2>1, <2>2
  <2> HIDE DEF E
  <2> QED BY <1>6, <2>1, <2>2 DEF Visits
<1>7. CASE n.kind \in {"data", "split"} /\ todo' = <<Visit(n.child)>> \o Rest /\ UNCHANGED <<freed, table, pushing>>
  <2>1. IsNode(n.child) /\ n.child \in Pairs /\ Visit(n.child) \in E
        /\ Visit(n.child).ptr = n.child /\ Visit(n.child).right = FALSE
    BY <1>1, <1>4, <1>7 DEF NodeOK, HeapOK, IsNode, Visit
  <2>2. todo' \in Seq(E) /\ Visits(todo', todo)
    BY <1>6, <1>7, <2>1
  <2>3. ~IsRemove(Head(todo).ptr)
    BY <1>1, <1>7 DEF IsRemove, Kind
  <2> QED BY <1>2, <1>4, <1>7, <2>2, <2>3, VisitedInv
<1>8. CASE /\ n.kind = "merge" /\ ~v.right
           /\ todo' = <<Visit(n.child), [v EXCEPT !.right = TRUE]>> \o Rest
           /\ UNCHANGED <<freed, table, pushing>>
  <2>1. IsNode(n.child) /\ n.child \in Pairs /\ Visit(n.child) \in E
        /\ Visit(n.child).ptr = n.child /\ Visit(n.child).right = FALSE
    BY <1>1, <1>4, <1>8 DEF NodeOK, HeapOK, IsNode, Visit
  <2>2. PICK w : w = [v EXCEPT !.right = TRUE]
    OBVIOUS
  <2>3. w \in E /\ w.ptr = v.ptr /\ IsNode(w.ptr) /\ Kind(w.ptr) = "merge"
    BY <1>1, <1>3, <1>4, <1>8, <2>2 DEF IsNode, Kind
  <2>4. <<w>> \o Rest \in Seq(E) /\ Visits(<<w>> \o Rest, todo)
    BY <1>6, <2>3
  <2>5. PICK x : x = Visit(n.child)
    OBVIOUS
  <2>6. PICK s : s = <<w>> \o Rest
    OBVIOUS
  <2>7. todo' = <<x>> \o s
    <3>1. todo' = <<x, w>> \o Rest
      BY <1>8, <2>2, <2>5
    <3>2. x \in E /\ w \in E /\ Rest \in Seq(E)
      BY <1>3, <2>1, <2>3, <2>5
    <3> HIDE DEF E
    <3> QED BY ONLY <2>6, <3>1, <3>2
  <2>8. todo' \in Seq(E) /\ Visits(todo', todo)
    <3>1. x \in E /\ s \in Seq(E) /\ IsNode(x.ptr) /\ x.right = FALSE
      BY <2>1, <2>4, <2>5, <2>6
    <3>2. /\ <<x>> \o s \in Seq(E) /\ (<<x>> \o s)[1] = x
          /\ \A i \in DOMAIN (<<x>> \o s) : i # 1 => i - 1 \in DOMAIN s /\ (<<x>> \o s)[i] = s[i - 1]
      <4> HIDE DEF E
      <4> QED BY <3>1, PutBefore
    <3>3. Visits(s, todo)
      BY <2>4, <2>6
    <3> HIDE DEF E
    <3>4. ASSUME NEW i \in DOMAIN todo'
          PROVE  \/ \E j \in DOMAIN todo : j # 1 /\ todo'[i] = todo[j]
                 \/ IsNode(todo'[i].ptr) /\ (todo'[i].right => Kind(todo'[i].ptr) = "merge")
      <4>1. CASE i = 1
        BY <2>7, <3>1, <3>2, <4>1
      <4>2. CASE i # 1
        <5>1. i - 1 \in DOMAIN s /\ todo'[i] = s[i - 1]
          BY <2>7, <3>2, <3>4, <4>2
        <5> QED BY <3>3, <5>1 DEF Visits
      <4> QED BY <4>1, <4>2
    <3> QED BY <2>7, <3>2, <3>4 DEF Visits
  <2>9. ~IsRemove(Head(todo).ptr)
    BY <1>1, <1>8 DEF IsRemove, Kind
  <2> QED BY <1>2, <1>4, <1>8, <2>8, <2>9, VisitedInv
<1>9. CASE n.kind = "merge" /\ v.right /\ todo' = <<Visit(n.right)>> \o Rest /\ UNCHANGED <<freed, table, pushing>>
  <2>1. IsNode(n.right) /\ n.right \in Pairs /\ Visit(n.right) \in E
        /\ Visit(n.right).ptr = n.right /\ Visit(n.right).right = FALSE
    BY <1>1, <1>4, <1>9 DEF NodeOK, HeapOK, IsNode, Visit
  <2>2. todo' \in Seq(E) /\ Visits(todo', todo)
    BY <1>6, <1>9, <2>1
  <2>3. ~IsRemove(Head(todo).ptr)
    BY <1>1, <1>9 DEF IsRemove, Kind
  <2> QED BY <1>2, <1>4, <1>9, <2>2, <2>3, VisitedInv
<1>10. CASE n.kind = "page" /\ freed' = freed \cup ChunksFrom(v.ptr[1]) /\ todo' = Rest /\ UNCHANGED <<table, pushing>>
  <2>1. v.ptr[1] \in Blocks
    BY <1>4 DEF NodeOK
  <2>2. freed' \subseteq Blocks
    BY <1>4, <1>10, <2>1, ChunksAre DEF Typed
  <2>3. ~IsRemove(Head(todo).ptr)
    BY <1>1, <1>10 DEF IsRemove, Kind
  <2>4. todo' \in Seq(E) /\ Visits(todo', todo)
    BY <1>3, <1>5, <1>10
  <2> QED BY <1>2, <1>10, <2>2, <2>3, <2>4, VisitedInv
<1>11. CASE /\ n.kind = "remove" /\ table' = [table EXCEPT ![n.base] = Null]
            /\ pushing' = [top |-> NoTop, id |-> n.base] /\ UNCHANGED <<freed, todo>>
  <2>1. IsRemove(Head(todo).ptr) /\ n.base = heap[Head(todo).ptr].base
    BY <1>1, <1>11 DEF IsRemove, Kind
  <2> QED BY <1>2, <1>11, <2>1, UnmapInv
<1> QED BY <1>1, <1>7, <1>8, <1>9, <1>10, <1>11 DEF FreeEpochDeltaChain

-----------------------------------------------------------------------------
LEMMA StutterInv ==
  ASSUME IdInv, UNCHANGED vars
  PROVE  IdInv'
<1> USE DEF IdInv
<1>1. /\ tail' = tail /\ next' = next /\ heap' = heap /\ pc' = pc /\ call' = call /\ chunk' = chunk
      /\ popped' = popped /\ table' = table /\ data' = data /\ top' = top /\ retired' = retired /\ todo' = todo
      /\ next_unused' = next_unused /\ pushing' = pushing /\ CurTop' = CurTop /\ freed' = freed
  BY DEF vars, memVars, stackVars, cleanVars, CurTop
<1>2. Dead' = Dead /\ PointersOK' /\ DyingOK' /\ PushOK'
  BY <1>1, DeadKept
<1>3. Live' = Live
  BY <1>1, <1>2, TreeKept
<1>4. Cleans
  BY <1>1, <1>3 DEF Cleans, Typed, MemTyped
<1>5. PopsOK'
  BY <1>1, PopSame
<1>6. IdsOK'
  <2>1. \A u \in Threads : (HeldBy(u)' <=> HeldBy(u)) /\ (HeldBy(u) => call'[u].newid = call[u].newid)
    BY <1>1 DEF HeldBy
  <2> QED BY <1>1, <2>1, IdsKept
<1>7. StackTyped' /\ CleanTyped'
  BY <1>1 DEF Typed, StackTyped, CleanTyped
<1> QED BY <1>2, <1>4, <1>5, <1>6, <1>7, CleansKeeps DEF Typed

LEMMA NextIdInv == IdInv /\ [Next]_vars => IdInv'
<1> SUFFICES ASSUME IdInv, [Next]_vars PROVE IdInv'
  OBVIOUS
<1>1. CASE Cleaner
  BY <1>1, ClearInv, FreeInv, PreparePushInv, PushInv DEF Cleaner
<1>2. ASSUME NEW t \in Threads, Start(t) PROVE IdInv'
  BY <1>2, StartBegins, BegunInv
<1>3. ASSUME NEW t \in Threads, Step(t) PROVE IdInv'
  <2>1. CASE PopCas(t)
    BY <2>1, PopWon, PopInv
  <2>2. CASE SplitNode(t)
    BY <2>2, SplitWon, SplitLost
  <2> QED BY <1>3, <2>1, <2>2, TryGoOnInv, TakeInv, LinkInv, PopInv, FreshInv, PostDataInv,
             ConsolidateInv, RemoveNodeInv, MergeNodeInv DEF Step
<1>4. CASE Done \/ UNCHANGED vars
  BY <1>4, StutterInv DEF Done
<1> QED BY <1>1, <1>2, <1>3, <1>4 DEF Next

LEMMA SpecIdInv == Spec => []IdInv
BY InitIdInv, NextIdInv, PTL DEF Spec

-----------------------------------------------------------------------------
(* Every variable keeps its type; in particular the tail of a chunk goes    *)
(* below the limit by no more than one record for every thread, however     *)
(* many threads find the chunk used up at once (TryAllocate, LinkChunk).    *)
THEOREM TreeMemoryTypeOK == Spec => []TypeOK
<1>1. ASSUME IdInv PROVE TypeOK
  <2> USE <1>1 DEF IdInv
  <2>1. ASSUME NEW b \in Blocks
        PROVE  /\ tail[b] \in -2 * Cardinality(Threads) .. ChunkSize
               /\ next[b] \in Blocks \cup {NoBlock}
    <3>1. PICK n, s \in Nat : n = Cardinality(Threads) /\ s = Cardinality(Subtracting(b))
      <4>1. Subtracting(b) \in SUBSET Threads
        BY DEF Subtracting
      <4> QED BY <4>1, Constants, FS_Subset, FS_CardinalityType
    <3>2. tail[b] \in Int /\ tail[b] <= ChunkSize /\ -2 * n <= tail[b] - 2 * s
      BY <3>1, BlocksAre DEF Typed, TailsOK
    <3>3. tail[b] \in -2 * n .. ChunkSize
      BY <3>2, Constants
    <3> QED BY <3>1, <3>3 DEF Typed, MemTyped
  <2>2. freed \subseteq Blocks /\ next_unused \in 1 .. NumIds + 1 /\ top.at \in -1 .. NumIds
    BY DEF Typed, MemTyped, StackTyped, Tops
  <2>3. \A id \in Ids : table[id] \in Pointers \cup {Null}
    BY DEF PointersOK
  <2>4. \A r \in retired : r.ptr \in Pointers /\ r.until \subseteq Threads
    BY DEF PointersOK, Dead, Typed, CleanTyped
  <2> QED BY <2>1, <2>2, <2>3, <2>4 DEF TypeOK, Pointers
<1> QED BY <1>1, SpecIdInv, PTL

(* What one place in a chunk takes, whether the record is in memory or a    *)
(* thread has still to write it.                                            *)
LEMMA PlaceIs ==
  ASSUME IdInv, NEW x \in Places
  PROVE  \/ \E p \in Pointers : IsRecord(p) /\ x = [at |-> p, size |-> SizeAt(p)]
         \/ \E t \in Taken : x = [at |-> call[t].new, size |-> SizeOf(t)]
BY DEF Places, IsRecord, Taken, SizeAt, SizeOf, Kind, Pointers

LEMMA SizesAre ==
  /\ \A p : SizeAt(p) \in {1, 2}
  /\ \A t : SizeOf(t) \in {1, 2}
BY DEF SizeAt, SizeOf, Size, RecordSize

(* ElasticNode and AllocationMeta: records that threads carve from the same *)
(* chunk at the same time, by subtracting from its tail without a lock, lie *)
(* inside the chunk and apart from each other, the ones in the tree and the *)
(* ones still to be posted; no two threads are given the same place, and    *)
(* none is given one that has been used.                                    *)
THEOREM TreeMemoryRecordsApart == Spec => []RecordsApart
<1>1. ASSUME IdInv PROVE RecordsApart
  <2> USE DEF IdInv
  <2>1. /\ \A p \in Pointers : p \in Nat \X Nat
        /\ \A t \in Taken : call[t].new \in Nat \X Nat
    BY <1>1, NewPlace DEF HeapOK, NodeOK, Pairs
  <2>2. ASSUME NEW x \in Places
        PROVE  0 <= x.at[2] /\ x.at[2] + x.size <= ChunkSize
    <3>1. CASE \E p \in Pointers : IsRecord(p) /\ x = [at |-> p, size |-> SizeAt(p)]
      BY <1>1, <3>1 DEF ChunksOK, InChunk
    <3>2. CASE \E t \in Taken : x = [at |-> call[t].new, size |-> SizeOf(t)]
      BY <1>1, <3>2 DEF ChunksOK, InChunk
    <3> QED BY <1>1, <3>1, <3>2, PlaceIs
  <2>3. ASSUME NEW x \in Places, NEW y \in Places, x # y, x.at[1] = y.at[1]
        PROVE  x.at[2] + x.size <= y.at[2] \/ y.at[2] + y.size <= x.at[2]
    <3>1. ASSUME NEW p \in Pointers, IsRecord(p), x = [at |-> p, size |-> SizeAt(p)],
                 NEW q \in Pointers, IsRecord(q), y = [at |-> q, size |-> SizeAt(q)]
          PROVE  Beside(x.at, x.size, y.at, y.size)
      BY <1>1, <2>3, <3>1 DEF ChunksOK
    <3>2. ASSUME NEW t \in Taken, x = [at |-> call[t].new, size |-> SizeOf(t)],
                 NEW q \in Pointers, IsRecord(q), y = [at |-> q, size |-> SizeAt(q)]
          PROVE  Beside(x.at, x.size, y.at, y.size)
      BY <1>1, <3>2 DEF ChunksOK
    <3>3. ASSUME NEW p \in Pointers, IsRecord(p), x = [at |-> p, size |-> SizeAt(p)],
                 NEW u \in Taken, y = [at |-> call[u].new, size |-> SizeOf(u)]
          PROVE  Beside(y.at, y.size, x.at, x.size)
      BY <1>1, <3>3 DEF ChunksOK
    <3>4. ASSUME NEW t \in Taken, x = [at |-> call[t].new, size |-> SizeOf(t)],
                 NEW u \in Taken, y = [at |-> call[u].new, size |-> SizeOf(u)]
          PROVE  Beside(x.at, x.size, y.at, y.size)
      BY <1>1, <2>3, <3>4 DEF ChunksOK
    <3>5. Beside(x.at, x.size, y.at, y.size) \/ Beside(y.at, y.size, x.at, x.size)
      BY <1>1, <3>1, <3>2, <3>3, <3>4, PlaceIs
    <3> QED BY <2>3, <3>5 DEF Beside
  <2>4. ASSUME NEW t \in Threads, NEW u \in Threads, call[t].new = call[u].new,
               call[t].new # Null, t # u
        PROVE  FALSE
    <3>1. t \in Taken /\ u \in Taken
      BY <2>4 DEF Taken
    <3>2. Beside(call[t].new, SizeOf(t), call[u].new, SizeOf(u))
      BY <1>1, <2>4, <3>1 DEF ChunksOK
    <3>3. PICK n \in Nat : n = call[t].new[2]
      BY <2>1, <3>1
    <3>4. n + SizeOf(t) <= n \/ n + SizeOf(u) <= n
      BY <2>4, <3>2, <3>3 DEF Beside
    <3> QED BY <3>4, SizesAre
  <2>5. \A t \in Threads : call[t].new \notin DOMAIN heap
    BY <1>1, NewPlace, NullNowhere DEF Taken, Typed, Pointers
  <2> QED BY <2>2, <2>3, <2>4, <2>5 DEF RecordsApart
<1> QED BY <1>1, SpecIdInv, PTL

LEMMA CountOne ==
  ASSUME NEW S, \A x, y \in S : x = y
  PROVE  Cardinality(S) = IF S = {} THEN 0 ELSE 1
<1>1. CASE S = {}
  BY <1>1, FS_EmptySet
<1>2. CASE S # {}
  <2>1. PICK x : x \in S
    BY <1>2
  <2>2. S = {x}
    BY <2>1
  <2> QED BY <1>2, <2>2, FS_Singleton
<1> QED BY <1>1, <1>2

(* GetNextNodeID, InvalidateNodeID and the version-stamped AtomicStack:     *)
(* whatever the interleaving of pops that lose their CAS, splits that lose  *)
(* theirs and the cleaner's two-step push, each NodeID ever handed out is   *)
(* in exactly one place, and one not yet handed out is in none.             *)
THEOREM TreeMemoryIdsConserved == Spec => []IdsConserved
<1>1. ASSUME IdInv PROVE IdsConserved
  <2> USE <1>1 DEF IdInv
  <2>1. Stack = 1 .. CurTop.at
    <3>1. CurTop.at \in -1 .. NumIds
      BY DEF CurTop, Typed, StackTyped, CleanTyped, Tops
    <3> QED BY <3>1, Constants DEF Stack, CurTop
  <2>2. ASSUME NEW id \in Ids
        PROVE  Cardinality({i \in Stack : data[i] = id}) + Cardinality({t \in Threads : Holds(t, id)})
                 + (IF table[id] # Null THEN 1 ELSE 0) + (IF pushing.id = id THEN 1 ELSE 0)
                 = IF id < next_unused THEN 1 ELSE 0
    <3> DEFINE s == {i \in Stack : data[i] = id}
               h == {t \in Threads : Holds(t, id)}
    <3>1. (s = {} <=> ~OnStack(id)) /\ \A i, j \in s : i = j
      BY <2>1 DEF IdsOK, OnStack
    <3>2. (h = {} <=> ~InHand(id)) /\ \A t, u \in h : t = u
      BY DEF IdsOK, Holds, HeldBy, InHand, InChunks
    <3>3. /\ Cardinality(s) = (IF OnStack(id) THEN 1 ELSE 0)
          /\ Cardinality(h) = (IF InHand(id) THEN 1 ELSE 0)
      <4> HIDE DEF s, h
      <4> QED BY <3>1, <3>2, CountOne
    <3>4. /\ OnStack(id) => ~InHand(id) /\ table[id] = Null /\ pushing.id # id
          /\ InHand(id) => table[id] = Null /\ pushing.id # id
          /\ pushing.id = id => table[id] = Null
          /\ id < next_unused <=> OnStack(id) \/ InHand(id) \/ table[id] # Null \/ pushing.id = id
      BY Constants DEF IdsOK, PushOK
    <3> HIDE DEF s, h
    <3>5. Cardinality(s) + Cardinality(h)
            + (IF table[id] # Null THEN 1 ELSE 0) + (IF pushing.id = id THEN 1 ELSE 0)
            = IF id < next_unused THEN 1 ELSE 0
      BY <3>3, <3>4
    <3> QED BY <3>5 DEF s, h
  <2> QED BY <2>2 DEF IdsConserved
<1> QED BY <1>1, SpecIdInv, PTL

-----------------------------------------------------------------------------
(* Who frees what.  The pointers of memory are a forest: what leads to a    *)
(* node leads down, and to a node it is one, but for a remove record whose  *)
(* branch a merge record has taken over, and which no longer leads to it.   *)
(* The blocks are chains, each behind a page or remove record that stands   *)
(* in its first one (a head), and a record is in a chain whose head it      *)
(* leads to.  The roots of the forest are the nodes of the tree and what    *)
(* has been retired, apart from what the cleaner is in the middle of.       *)
(* What a node leads to when it is freed. *)
Cut(p) == IsRemove(p) /\ Merged(heap[p].child)
Link(p, q) == q # Null /\ (q = heap[p].right \/ (q = heap[p].child /\ ~Cut(p)))
Kid(p, q) == q # Null /\ (q = heap[p].right \/ q = heap[p].child)
Uppermost(x) == \A p \in Pointers : ~Kid(p, x)

Founded == \A S \in SUBSET Pointers : S # {} => \E p \in S : \A q \in S : ~Kid(p, q)
KidsOnce ==
  \A p, q \in Pointers :
    /\ heap[p].child = heap[q].child /\ heap[p].child # Null => p = q
    /\ heap[p].right = heap[q].right /\ heap[p].right # Null => p = q
    /\ heap[p].child = heap[q].right /\ heap[p].child # Null => IsRemove(p)

(* The chains of blocks, and the head of the chain that a record is in: the *)
(* page of the branch that is freed last (PostLeafMergeNode).               *)
Heads == {b \in Blocks : End(b) \in Pointers}
HomeOf(p) == IF Kind(p) = "merge" THEN heap[heap[p].right].base ELSE heap[p].base
HomeOfCall(c) == IF c.op = "merge" THEN heap[c.right].base ELSE heap[c.snap].base
ChainsOK ==
  /\ \A a, b \in Blocks : next[a] = next[b] /\ next[a] # NoBlock => a = b
  /\ \A a \in Blocks : next[a] \notin Heads
  /\ \A b \in Blocks : \E h \in Heads : b \in ChunksFrom(h)
  /\ \A p \in Pointers : IsRemove(p) => next[p[1]] = NoBlock
  /\ \A p \in Pointers : IsRecord(p) => p[1] \in ChunksFrom(HomeOf(p))
  /\ \A h \in Heads : \A b \in ChunksFrom(h) : b \in freed <=> h \in freed

(* What a thread allocates is in the chain its record will be in.           *)
HomesOK ==
  \A t \in Threads : /\ pc[t] \in InChunks => chunk[t] \in ChunksFrom(HomeOfCall(call[t]))
                     /\ t \in Taken => call[t].new[1] \in ChunksFrom(HomeOfCall(call[t]))

(* The tree and the garbage are roots of the forest, each once, and a remove *)
(* record is garbage only when its branch has been taken over.              *)
InTree(x) == \E id \in Live : x \in Under[table[id]]
RootsOK ==
  /\ \A id \in Live : Uppermost(table[id])
  /\ \A r \in retired : Uppermost(r.ptr)
  /\ \A id, j \in Live : table[id] = table[j] => id = j
  /\ \A r, q \in retired : r.ptr = q.ptr => r = q
  /\ \A id \in Live, r \in retired : table[id] # r.ptr
  /\ \A id \in Live : Removed(id) => ~Merged(heap[table[id]].child)
  /\ \A p \in Dead : IsRemove(p) => heap[p].child = Null \/ Merged(heap[p].child)

(* The walk of the cleaner is inside one branch that is nowhere else; what  *)
(* it comes back to is on the right of what it has still to visit.          *)
Of(i) == IF todo[i].right THEN heap[todo[i].ptr].right ELSE todo[i].ptr
Root(g) == /\ g \in Pointers /\ Uppermost(g)
           /\ \A id \in Live : g # table[id]
           /\ \A r \in retired : g # r.ptr
WalkOK ==
  /\ todo # <<>> => \E g \in Pointers : Root(g) /\ \A i \in DOMAIN todo : todo[i].ptr \in Under[g]
  /\ \A i \in DOMAIN todo : i # 1 => todo[i].right
  /\ \A i, j \in DOMAIN todo : i < j => Of(i) \in Under[heap[todo[j].ptr].child]

(* What somebody will free, and that this is what has not been freed.       *)
Held(x) == \/ InTree(x)
           \/ \E r \in retired : x \in Under[r.ptr]
           \/ \E i \in DOMAIN todo : x \in Under[Of(i)]
HeldOK == \A b \in Heads : b \in freed <=> ~Held(End(b))

(* What a thread reads stands in the tree, or was retired while the thread  *)
(* was inside, so that the cleaner waits for it.                            *)
Guarded(t, x) == InTree(x) \/ \E r \in retired : t \in r.until /\ x \in Under[r.ptr]
GuardsOK ==
  \A t \in Threads : pc[t] # "out" =>
    /\ Guarded(t, call[t].snap)
    /\ call[t].op = "merge" => Guarded(t, call[t].right)

(* All of it.  With IdInv it is kept by every step.                         *)
MemInv ==
  /\ Founded /\ KidsOnce /\ ChainsOK /\ HomesOK /\ RootsOK /\ WalkOK /\ HeldOK /\ GuardsOK

(* What a node leads to, and what is under it.                              *)
LEMMA KidsAre ==
  ASSUME HeapOK, NEW p \in Pointers, NEW q, Kid(p, q)
  PROVE  q \in Pointers /\ IsNode(q) /\ q # Null
         /\ Kind(p) # "page" /\ (q = heap[p].child \/ (q = heap[p].right /\ Kind(p) = "merge"))
BY DEF Kid, HeapOK, NodeOK, IsNode, Kind, Kinds

LEMMA LinkKid ==
  ASSUME NEW p, NEW q, Link(p, q)
  PROVE  Kid(p, q)
BY DEF Link, Kid

(* Under[p] is the least set that has p and what its nodes lead to. *)
Below(u) ==
  u = [p \in DOMAIN heap |->
        LET n == heap[p]
        IN {p} \cup (IF n.child = Null \/ (n.kind = "remove" /\ Merged(n.child))
                     THEN {} ELSE u[n.child])
               \cup (IF n.right = Null THEN {} ELSE u[n.right])]

LEMMA BelowIs ==
  ASSUME HeapOK, NEW u, Below(u), NEW p \in Pointers
  PROVE  \A x : x \in u[p] <=> x = p \/ \E c : Link(p, c) /\ x \in u[c]
<1>1. heap[p].child = Null \/ (heap[p].kind = "remove" /\ Merged(heap[p].child))
         <=> heap[p].child = Null \/ Cut(p)
  BY DEF Cut, IsRemove, Kind
<1>2. u[p] = {p} \cup (IF heap[p].child = Null \/ Cut(p) THEN {} ELSE u[heap[p].child])
                 \cup (IF heap[p].right = Null THEN {} ELSE u[heap[p].right])
  BY <1>1 DEF Below, Pointers
<1> QED BY <1>2 DEF Link

LEMMA BelowExists ==
  ASSUME HeapOK
  PROVE  \E u : Below(u)
<1> DEFINE Closed(S) == \A q \in S : \A c : Link(q, c) => c \in S
           f == [p \in Pointers |-> {x \in Pointers : \A S \in SUBSET Pointers : p \in S /\ Closed(S) => x \in S}]
<1>1. \A p \in Pointers : f[p] = {x \in Pointers : \A S \in SUBSET Pointers : p \in S /\ Closed(S) => x \in S}
  OBVIOUS
<1>2. \A p \in Pointers : \A c : Link(p, c) => c \in Pointers
  BY LinkKid, KidsAre
<1>3. ASSUME NEW p \in Pointers
      PROVE  f[p] = {p} \cup UNION {f[c] : c \in {x \in Pointers : Link(p, x)}}
  <2> DEFINE R == {p} \cup UNION {f[c] : c \in {x \in Pointers : Link(p, x)}}
  <2>1. R \in SUBSET Pointers /\ p \in R
    BY <1>1
  <2>2. ASSUME NEW q \in R, NEW c, Link(q, c) PROVE c \in R
    <3>1. q \in Pointers /\ c \in Pointers
      BY <1>2, <2>1, <2>2
    <3>2. CASE q = p
      <4>1. c \in f[c]
        BY <1>1, <3>1
      <4> QED BY <2>2, <3>1, <3>2, <4>1
    <3>3. CASE q # p
      <4>1. PICK a \in Pointers : Link(p, a) /\ q \in f[a]
        BY <3>3
      <4>2. c \in f[a]
        BY <1>1, <2>2, <3>1, <4>1
      <4> QED BY <4>1, <4>2
    <3> QED BY <3>2, <3>3
  <2>3. f[p] \subseteq R
    <3> HIDE DEF R
    <3> QED BY <1>1, <2>1, <2>2
  <2>4. p \in f[p]
    BY <1>1
  <2>5. ASSUME NEW a \in Pointers, Link(p, a) PROVE f[a] \subseteq f[p]
    BY <1>1, <2>5
  <2> QED BY <2>3, <2>4, <2>5
<1> HIDE DEF f
<1>4. ASSUME NEW p \in Pointers
      PROVE  f[p] = {p} \cup (IF heap[p].child = Null \/ (heap[p].kind = "remove" /\ Merged(heap[p].child))
                              THEN {} ELSE f[heap[p].child])
                        \cup (IF heap[p].right = Null THEN {} ELSE f[heap[p].right])
  <2>1. heap[p].child = Null \/ (heap[p].kind = "remove" /\ Merged(heap[p].child))
         <=> heap[p].child = Null \/ Cut(p)
    BY DEF Cut, IsRemove, Kind
  <2>2. \A c : Link(p, c) <=> \/ c = heap[p].child /\ ~(heap[p].child = Null \/ Cut(p))
                              \/ c = heap[p].right /\ heap[p].right # Null
    BY DEF Link
  <2> QED BY <1>2, <1>3, <2>1, <2>2
<1>5. f = [p \in DOMAIN heap |-> f[p]]
  BY DEF f, Pointers
<1>6. Below(f)
  BY <1>4, <1>5 DEF Below, Pointers
<1> QED BY <1>6

LEMMA UnderBelow == HeapOK => Below(Under)
<1> SUFFICES ASSUME HeapOK PROVE Below(Under)
  OBVIOUS
<1> DEFINE w == CHOOSE under : under = [p \in DOMAIN heap |->
        LET n == heap[p]
        IN {p} \cup (IF n.child = Null \/ (n.kind = "remove" /\ Merged(n.child))
                     THEN {} ELSE under[n.child])
               \cup (IF n.right = Null THEN {} ELSE under[n.right])]
<1>1. Below(w)
  BY BelowExists, Zenon DEF Below
<1>2. Under = w
  BY Zenon DEF Under
<1> QED BY <1>1, <1>2

(* What the later proofs use of Under, before and after a step.             *)
UnderFact ==
  HeapOK /\ Founded => \A p \in Pointers :
    /\ p \in Under[p] /\ Under[p] \subseteq Pointers
    /\ \A x : x \in Under[p] <=> x = p \/ \E c : Link(p, c) /\ x \in Under[c]
    /\ \A q \in Under[p] : \A c : Link(q, c) => c \in Under[p]
    /\ \A S : p \in S /\ (\A q \in Pointers : \A c : q \in S /\ Link(q, c) => c \in S) => Under[p] \subseteq S

LEMMA UnderNow == UnderFact
<1> SUFFICES ASSUME HeapOK, Founded
             PROVE  \A p \in Pointers :
    /\ p \in Under[p] /\ Under[p] \subseteq Pointers
    /\ \A x : x \in Under[p] <=> x = p \/ \E c : Link(p, c) /\ x \in Under[c]
    /\ \A q \in Under[p] : \A c : Link(q, c) => c \in Under[p]
    /\ \A S : p \in S /\ (\A q \in Pointers : \A c : q \in S /\ Link(q, c) => c \in S) => Under[p] \subseteq S
  BY DEF UnderFact
<1>1. \A p \in Pointers : \A x : x \in Under[p] <=> x = p \/ \E c : Link(p, c) /\ x \in Under[c]
  BY UnderBelow, BelowIs
<1>2. \A p \in Pointers : \A c : Link(p, c) => c \in Pointers /\ Kid(p, c)
  BY LinkKid, KidsAre
<1>3. \A p \in Pointers : Under[p] \subseteq Pointers
  <2> DEFINE Bad == {p \in Pointers : ~(Under[p] \subseteq Pointers)}
  <2> SUFFICES ASSUME Bad # {} PROVE FALSE
    OBVIOUS
  <2>1. PICK p \in Bad : \A q \in Bad : ~Kid(p, q)
    BY Zenon DEF Founded
  <2>2. \A c : Link(p, c) => c \in Pointers /\ Under[c] \subseteq Pointers
    BY <1>2, <2>1
  <2>3. Under[p] \subseteq Pointers
    BY <1>1, <2>1, <2>2
  <2> QED BY <2>1, <2>3
<1>4. \A p \in Pointers : \A q \in Under[p] : \A c : Link(q, c) => c \in Under[p]
  <2> DEFINE Bad == {p \in Pointers : \E q \in Under[p] : \E c : Link(q, c) /\ c \notin Under[p]}
  <2> SUFFICES ASSUME Bad # {} PROVE FALSE
    OBVIOUS
  <2>1. PICK p \in Bad : \A q \in Bad : ~Kid(p, q)
    BY Zenon DEF Founded
  <2>2. PICK q \in Under[p] : \E c : Link(q, c) /\ c \notin Under[p]
    BY <2>1
  <2>3. PICK c : Link(q, c) /\ c \notin Under[p]
    BY <2>2
  <2>4. q # p
    BY <1>1, <1>2, <2>1, <2>3
  <2>5. PICK a : Link(p, a) /\ q \in Under[a]
    BY <1>1, <2>1, <2>2, <2>4
  <2>6. a \in Pointers /\ a \notin Bad
    BY <1>2, <2>1, <2>5
  <2>7. c \in Under[a]
    BY <2>3, <2>5, <2>6
  <2> QED BY <1>1, <2>1, <2>3, <2>5, <2>7
<1>5. ASSUME NEW S, \A q \in Pointers : \A c : q \in S /\ Link(q, c) => c \in S
      PROVE  \A p \in Pointers : p \in S => Under[p] \subseteq S
  <2> DEFINE Bad == {p \in Pointers : p \in S /\ ~(Under[p] \subseteq S)}
  <2> SUFFICES ASSUME Bad # {} PROVE FALSE
    OBVIOUS
  <2>1. PICK p \in Bad : \A q \in Bad : ~Kid(p, q)
    BY Zenon DEF Founded
  <2>2. \A c : Link(p, c) => c \in S /\ Under[c] \subseteq S
    BY <1>2, <1>5, <2>1
  <2>3. Under[p] \subseteq S
    BY <1>1, <2>1, <2>2
  <2> QED BY <2>1, <2>3
<1> QED BY <1>1, <1>3, <1>4, <1>5

LEMMA UnderThen == UnderFact'
BY UnderNow, PTL

(* From a node of a branch its own branch is part of that one. *)
LEMMA UnderPart ==
  ASSUME HeapOK, Founded, NEW p \in Pointers, NEW q \in Under[p]
  PROVE  q \in Pointers /\ Under[q] \subseteq Under[p]
BY UnderNow DEF UnderFact

(* Everything under p but p has something over it there. *)
LEMMA UnderOver ==
  ASSUME HeapOK, Founded, NEW p \in Pointers, NEW x \in Under[p], x # p
  PROVE  \E q \in Under[p] : Link(q, x)
<1> DEFINE S == {y \in Under[p] : y = p \/ \E q \in Under[p] : Link(q, y)}
<1>1. p \in S
  BY UnderNow DEF UnderFact
<1>2. ASSUME NEW q \in Pointers, NEW c, q \in S, Link(q, c) PROVE c \in S
  BY <1>2, UnderNow DEF UnderFact
<1>3. Under[p] \subseteq S
  <2> HIDE DEF S
  <2> QED BY <1>1, <1>2, UnderNow DEF UnderFact
<1> QED BY <1>3

(* Nothing stands under itself. *)
LEMMA NoCycle ==
  ASSUME HeapOK, Founded, NEW p \in Pointers, NEW q, Link(p, q)
  PROVE  p \notin Under[q]
<1>1. q \in Pointers
  BY LinkKid, KidsAre
<1> SUFFICES ASSUME p \in Under[q] PROVE FALSE
  OBVIOUS
<1> DEFINE C == {x \in Under[q] : p \in Under[x]}
<1>2. q \in C /\ C \in SUBSET Pointers
  BY <1>1, UnderNow DEF UnderFact
<1>3. PICK x \in C : \A y \in C : ~Kid(x, y)
  BY <1>2, Zenon DEF Founded
<1>4. CASE x = p
  BY <1>2, <1>3, <1>4, LinkKid
<1>5. CASE x # p
  <2>1. PICK c : Link(x, c) /\ p \in Under[c]
    BY <1>2, <1>3, <1>5, UnderNow DEF UnderFact
  <2>2. c \in Under[q]
    BY <1>1, <1>3, <2>1, UnderNow DEF UnderFact
  <2> QED BY <1>3, <2>1, <2>2, LinkKid
<1> QED BY <1>4, <1>5

(* What leads to a node is one: a remove record gives up what is merged. *)
LEMMA LinkOnce ==
  ASSUME HeapOK, KidsOnce, NEW p \in Pointers, NEW q \in Pointers, NEW x, Link(p, x), Link(q, x)
  PROVE  p = q
<1>1. x # Null
  BY DEF Link
<1>2. \A a, b \in Pointers : x = heap[a].right /\ x = heap[b].child /\ ~Cut(b) => FALSE
  BY <1>1 DEF KidsOnce, Cut, Merged, Pointers
<1> QED BY <1>1, <1>2 DEF Link, KidsOnce

(* Uppermost nodes have nothing in common, and neither have the two         *)
(* branches of a node.                                                      *)
LEMMA Disjoint ==
  ASSUME HeapOK, Founded, KidsOnce, NEW x \in Pointers, NEW y \in Pointers, x # y, x \notin Under[y],
         \A q \in Under[x] : ~Link(q, y)
  PROVE  Under[x] \cap Under[y] = {}
<1> DEFINE S == {q \in Under[x] : q \notin Under[y]}
<1>1. x \in S
  BY UnderNow DEF UnderFact
<1>2. ASSUME NEW q \in Pointers, NEW c, q \in S, Link(q, c) PROVE c \in S
  <2>1. c \in Under[x]
    BY <1>2, UnderNow DEF UnderFact
  <2>2. ASSUME c \in Under[y] PROVE FALSE
    <3>1. c # y
      BY <1>2
    <3>2. PICK a \in Under[y] : Link(a, c)
      BY <2>2, <3>1, UnderOver
    <3>3. a \in Pointers
      BY UnderNow DEF UnderFact
    <3> QED BY <1>2, <3>2, <3>3, LinkOnce
  <2> QED BY <2>1, <2>2
<1>3. Under[x] \subseteq S
  <2> HIDE DEF S
  <2> QED BY <1>1, <1>2, UnderNow DEF UnderFact
<1> QED BY <1>3

LEMMA RootsApart ==
  ASSUME HeapOK, Founded, KidsOnce, NEW x \in Pointers, NEW y \in Pointers, x # y,
         Uppermost(x), Uppermost(y)
  PROVE  Under[x] \cap Under[y] = {}
<1>1. \A q \in Pointers : ~Link(q, x) /\ ~Link(q, y)
  BY LinkKid DEF Uppermost
<1>2. x \notin Under[y] /\ \A q \in Under[x] : q \in Pointers
  BY <1>1, UnderOver, UnderNow DEF UnderFact
<1> QED BY <1>1, <1>2, Disjoint

LEMMA BranchesApart ==
  ASSUME HeapOK, MemTyped, Founded, KidsOnce, NEW m \in Pointers, Kind(m) = "merge"
  PROVE  /\ Link(m, heap[m].child) /\ Link(m, heap[m].right)
         /\ heap[m].child \in Pointers /\ heap[m].right \in Pointers
         /\ Under[heap[m].child] \cap Under[heap[m].right] = {}
<1>1. PICK l, r : l = heap[m].child /\ r = heap[m].right
  OBVIOUS
<1>2. l \in Pointers /\ r \in Pointers /\ l # Null /\ r # Null
  BY <1>1, NullNowhere DEF HeapOK, NodeOK, Kind, IsNode
<1>3. Link(m, l) /\ Link(m, r) /\ l # r
  BY <1>1, <1>2 DEF Link, Cut, IsRemove, KidsOnce
<1>4. m \notin Under[l] /\ m \notin Under[r]
  BY <1>2, <1>3, NoCycle
<1>5. \A q \in Pointers : Link(q, l) \/ Link(q, r) => q = m
  BY <1>3, LinkOnce
<1>6. Under[l] \subseteq Pointers /\ Under[r] \subseteq Pointers
  BY <1>2, UnderNow DEF UnderFact
<1>7. l \notin Under[r]
  BY <1>2, <1>3, <1>4, <1>5, <1>6, UnderOver
<1>8. \A q \in Under[l] : ~Link(q, r)
  BY <1>4, <1>5, <1>6
<1>9. Under[l] \cap Under[r] = {}
  BY <1>2, <1>3, <1>7, <1>8, Disjoint
<1> QED BY <1>1, <1>2, <1>3, <1>9

(* The base page is under a node, and a remove record is under nothing.     *)
LEMMA BaseUnder ==
  ASSUME HeapOK, MemTyped, Founded
  PROVE  \A p \in Pointers : Kind(p) # "remove" =>
           End(heap[p].base) \in Under[p] /\ Kind(End(heap[p].base)) = "page" /\ heap[p].base \in Heads
<1> DEFINE Bad == {p \in Pointers : Kind(p) # "remove" /\
                     ~(End(heap[p].base) \in Under[p] /\ Kind(End(heap[p].base)) = "page")}
<1>1. Bad = {}
  <2> SUFFICES ASSUME Bad # {} PROVE FALSE
    OBVIOUS
  <2>1. PICK p \in Bad : \A q \in Bad : ~Kid(p, q)
    BY Zenon DEF Founded
  <2>2. p \in Pointers /\ Kind(p) # "remove" /\ NodeOK(p) /\ p \in Under[p]
    BY <2>1, UnderNow DEF HeapOK, UnderFact
  <2>3. CASE Kind(p) = "page"
    <3>1. PICK a \in Nat, b \in Nat : p = <<a, b>>
      BY <2>2 DEF NodeOK, Pairs
    <3>2. p = End(heap[p].base)
      BY <2>2, <2>3, <3>1 DEF NodeOK, Kind, End
    <3> QED BY <2>1, <2>2, <2>3, <3>2
  <2>4. CASE Kind(p) # "page"
    <3>1. PICK c : c = heap[p].child
      OBVIOUS
    <3>2. IsNode(c) /\ heap[p].base = heap[c].base
      BY <2>2, <2>4, <3>1 DEF NodeOK, Kind, Kinds
    <3>3. c # Null
      BY <3>2, NullNowhere DEF IsNode
    <3>4. Link(p, c) /\ Kid(p, c)
      BY <2>2, <3>1, <3>3 DEF Link, Kid, Cut, IsRemove
    <3>5. c \notin Bad
      BY <2>1, <3>4
    <3>6. End(heap[c].base) \in Under[c] /\ Kind(End(heap[c].base)) = "page"
      BY <3>2, <3>5 DEF IsNode
    <3>7. End(heap[p].base) \in Under[p]
      BY <2>2, <3>2, <3>4, <3>6, UnderNow DEF UnderFact
    <3> QED BY <2>1, <3>2, <3>6, <3>7
  <2> QED BY <2>3, <2>4
<1>2. ASSUME NEW p \in Pointers, Kind(p) # "remove"
      PROVE  heap[p].base \in Blocks
  BY <1>2 DEF HeapOK, NodeOK, Kind
<1>3. \A p \in Pointers : Under[p] \subseteq Pointers
  BY UnderNow DEF UnderFact
<1> QED BY <1>1, <1>2, <1>3 DEF Heads

LEMMA RemoveUppermost ==
  ASSUME HeapOK, Founded, NEW p \in Pointers, NEW q \in Under[p], Kind(q) = "remove"
  PROVE  q = p
<1>1. \A a \in Under[p] : a \in Pointers
  BY UnderNow DEF UnderFact
<1> QED BY <1>1, UnderOver, LinkKid, KidsAre DEF IsNode

(* The chunks of a page. *)
LEMMA ChainOver ==
  ASSUME MemTyped, NEW h \in Blocks, NEW b \in ChunksFrom(h), b # h
  PROVE  \E a \in ChunksFrom(h) : next[a] = b /\ next[a] # NoBlock
<1> DEFINE S == {x \in ChunksFrom(h) : x = h \/ \E a \in ChunksFrom(h) : next[a] = x /\ next[a] # NoBlock}
<1>1. h \in S /\ \A a \in Blocks : a \in S /\ next[a] # NoBlock => next[a] \in S
  BY ChunksNow DEF ChunksFact
<1>2. ChunksFrom(h) \subseteq S
  <2> HIDE DEF S
  <2> QED BY <1>1, ChunksNow DEF ChunksFact
<1> QED BY <1>2

LEMMA ChainOnce ==
  ASSUME MemTyped, ChainsOK, NEW h \in Heads, NEW k \in Heads, NEW b \in ChunksFrom(h), b \in ChunksFrom(k)
  PROVE  h = k
<1> SUFFICES ASSUME h # k PROVE FALSE
  OBVIOUS
<1>1. h \in Blocks /\ k \in Blocks
  BY DEF Heads
<1>2. ChunksFrom(h) \subseteq Blocks /\ ChunksFrom(k) \subseteq Blocks
  BY <1>1, ChunksNow DEF ChunksFact
<1> DEFINE S == {x \in ChunksFrom(h) : x \notin ChunksFrom(k)}
<1>3. h \in S
  <2>1. h \in ChunksFrom(h)
    BY <1>1, ChunksNow DEF ChunksFact
  <2>2. h \in ChunksFrom(k) => \E a \in Blocks : next[a] = h
    BY <1>1, <1>2, ChainOver
  <2> QED BY <2>1, <2>2 DEF ChainsOK
<1>4. ASSUME NEW a \in Blocks, a \in S, next[a] # NoBlock PROVE next[a] \in S
  <2>1. next[a] \in ChunksFrom(h)
    BY <1>1, <1>4, ChunksNow DEF ChunksFact
  <2>2. ASSUME next[a] \in ChunksFrom(k) PROVE FALSE
    <3>1. next[a] # k
      BY DEF ChainsOK
    <3>2. PICK c \in ChunksFrom(k) : next[c] = next[a]
      BY <1>1, <2>2, <3>1, ChainOver
    <3>3. c = a
      BY <1>2, <1>4, <3>2 DEF ChainsOK
    <3> QED BY <1>4, <3>2, <3>3
  <2> QED BY <2>1, <2>2
<1>5. ChunksFrom(h) \subseteq S
  <2> HIDE DEF S
  <2> QED BY <1>1, <1>3, <1>4, ChunksNow DEF ChunksFact
<1> QED BY <1>5

(* What stands somewhere stands with a base page or a remove record that is *)
(* under it.                                                                *)
LEMMA OwnerIs ==
  ASSUME HeapOK, MemTyped, Founded, ChainsOK, NEW p \in Pointers
  PROVE  \E h \in Heads : p[1] \in ChunksFrom(h) /\ End(h) \in Under[p]
<1>1. NodeOK(p) /\ p \in Under[p]
  BY UnderNow DEF HeapOK, UnderFact
<1>2. CASE IsRecord(p)
  <2>1. PICK h : h = HomeOf(p)
    OBVIOUS
  <2>2. p[1] \in ChunksFrom(h)
    BY <1>2, <2>1 DEF ChainsOK
  <2>3. CASE Kind(p) = "merge"
    <3>1. PICK r : r = heap[p].right
      OBVIOUS
    <3>2. IsNode(r) /\ h = heap[r].base
      BY <1>1, <2>1, <2>3, <3>1 DEF NodeOK, Kind, HomeOf
    <3>3. Link(p, r)
      BY <3>1, <3>2, NullNowhere DEF Link, IsNode
    <3>4. h \in Heads /\ End(h) \in Under[r]
      BY <3>2, BaseUnder DEF IsNode
    <3> QED BY <2>2, <3>3, <3>4, UnderNow DEF UnderFact
  <2>4. CASE Kind(p) # "merge"
    <3>1. h \in Heads /\ End(h) \in Under[p]
      BY <1>2, <2>1, <2>4, BaseUnder DEF HomeOf, IsRecord
    <3> QED BY <2>2, <3>1
  <2> QED BY <2>3, <2>4
<1>3. CASE ~IsRecord(p)
  <2>1. PICK a \in Nat, b \in Nat : p = <<a, b>>
    BY <1>1 DEF NodeOK, Pairs
  <2>2. p[2] = ChunkSize /\ p[1] \in Blocks
    BY <1>1, <1>3 DEF NodeOK, IsRecord, Kind
  <2>3. p = End(a) /\ a \in Blocks /\ p[1] = a
    BY <2>1, <2>2 DEF End
  <2>4. a \in ChunksFrom(a)
    BY <2>3, ChunksNow, BlocksAre DEF ChunksFact
  <2> QED BY <1>1, <2>3, <2>4 DEF Heads
<1> QED BY <1>2, <1>3

(* Chains when blocks are added, behind the last one or as new heads.       *)
LEMMA ChainsGrow ==
  ASSUME MemTyped, MemTyped', Blocks \subseteq Blocks',
         \A a \in Blocks : next'[a] = next[a] \/ next[a] = NoBlock,
         NEW h \in Blocks
  PROVE  ChunksFrom(h) \subseteq ChunksFrom(h)'
<1>1. h \in ChunksFrom(h)' /\ \A a \in ChunksFrom(h)' : next'[a] # NoBlock => next'[a] \in ChunksFrom(h)'
  BY ChunksThen DEF ChunksFact
<1> QED BY <1>1, ChunksNow DEF ChunksFact

LEMMA ChainsSame ==
  ASSUME MemTyped, MemTyped', Blocks \subseteq Blocks',
         \A a \in Blocks : next'[a] = next[a],
         \A a \in Blocks' \ Blocks : next'[a] = NoBlock
  PROVE  /\ \A h \in Blocks : ChunksFrom(h)' = ChunksFrom(h)
         /\ \A h \in Blocks' \ Blocks : ChunksFrom(h)' = {h}
<1>1. ASSUME NEW h \in Blocks PROVE ChunksFrom(h)' = ChunksFrom(h)
  <2>1. ChunksFrom(h) \subseteq ChunksFrom(h)'
    BY ChainsGrow
  <2>2. h \in ChunksFrom(h) /\ ChunksFrom(h) \subseteq Blocks
        /\ \A a \in ChunksFrom(h) : next[a] # NoBlock => next[a] \in ChunksFrom(h)
    BY ChunksNow DEF ChunksFact
  <2>3. h \in Blocks' /\ \A a \in Blocks' : a \in ChunksFrom(h) /\ next'[a] # NoBlock => next'[a] \in ChunksFrom(h)
    BY <2>2
  <2>4. ChunksFrom(h)' \subseteq ChunksFrom(h)
    BY <2>2, <2>3, ChunksThen DEF ChunksFact
  <2> QED BY <2>1, <2>4
<1>2. ASSUME NEW h \in Blocks' \ Blocks PROVE ChunksFrom(h)' = {h}
  <2>1. h \in ChunksFrom(h)'
    BY ChunksThen DEF ChunksFact
  <2>2. \A a \in Blocks' : a \in {h} /\ next'[a] # NoBlock => next'[a] \in {h}
    OBVIOUS
  <2>3. ChunksFrom(h)' \subseteq {h}
    BY <2>2, ChunksThen DEF ChunksFact
  <2> QED BY <2>1, <2>3
<1> QED BY <1>1, <1>2

(* A branch in which nothing changes.                                       *)
LEMMA UnderKept ==
  ASSUME HeapOK, Founded, HeapOK', Founded', Grows, NEW p \in Pointers,
         \A q \in Under[p] : Cut(q)' <=> Cut(q)
  PROVE  Under'[p] = Under[p]
<1>1. Under[p] \subseteq Pointers /\ p \in Under[p] /\ p \in Pointers'
  BY UnderNow DEF UnderFact, Grows
<1>2. \A q \in Under[p] : \A c : Link(q, c)' <=> Link(q, c)
  BY <1>1 DEF Grows, Link
<1>3. \A q \in Under[p] : \A c : Link(q, c) => c \in Under[p]
  BY UnderNow DEF UnderFact
<1>4. Under'[p] \subseteq Under[p]
  BY <1>1, <1>2, <1>3, UnderThen DEF UnderFact
<1>5. p \in Under'[p] /\ \A q \in Under'[p] : \A c : Link(q, c)' => c \in Under'[p]
  BY <1>1, UnderThen DEF UnderFact
<1> DEFINE S == Under[p] \cap Under'[p]
<1>6. p \in S /\ \A q \in Pointers : \A c : q \in S /\ Link(q, c) => c \in S
  BY <1>1, <1>2, <1>3, <1>5
<1>7. Under[p] \subseteq S
  <2> HIDE DEF S
  <2> QED BY <1>6, UnderNow DEF UnderFact
<1> QED BY <1>4, <1>7

(* Steps that leave the nodes alone: the forest stays as it is.             *)
LEMMA HeapSame ==
  ASSUME HeapOK, Founded, KidsOnce, heap' = heap, Blocks \subseteq Blocks'
  PROVE  /\ Pointers' = Pointers /\ Founded' /\ KidsOnce' /\ HeapOK' /\ Grows
         /\ \A p : /\ Kind(p)' = Kind(p) /\ (IsRemove(p)' <=> IsRemove(p)) /\ (IsRecord(p)' <=> IsRecord(p))
                   /\ (Uppermost(p)' <=> Uppermost(p)) /\ (Merged(p)' <=> Merged(p)) /\ HomeOf(p)' = HomeOf(p)
                   /\ (Cut(p)' <=> Cut(p))
         /\ \A p \in Pointers : Under'[p] = Under[p]
<1>1. Pointers' = Pointers
  BY DEF Pointers
<1>2. HeapOK' /\ Grows
  BY HeapKept, SameGrows
<1>3. \A p, q : Kid(p, q)' <=> Kid(p, q)
  BY DEF Kid
<1>4. \A p : /\ Kind(p)' = Kind(p) /\ (IsRemove(p)' <=> IsRemove(p)) /\ (IsRecord(p)' <=> IsRecord(p))
             /\ (Uppermost(p)' <=> Uppermost(p)) /\ (Merged(p)' <=> Merged(p)) /\ HomeOf(p)' = HomeOf(p)
  BY <1>1, <1>3 DEF Kind, IsRemove, IsRecord, Uppermost, Merged, HomeOf
<1>5. \A p : Cut(p)' <=> Cut(p)
  BY <1>4 DEF Cut
<1>6. Founded' /\ KidsOnce'
  BY <1>1, <1>3, <1>4 DEF Founded, KidsOnce
<1>7. \A p \in Pointers : Under'[p] = Under[p]
  BY <1>2, <1>5, <1>6, UnderKept
<1> QED BY <1>1, <1>2, <1>4, <1>5, <1>6, <1>7

(* A step that leaves memory and what is to be freed alone: the threads go on. *)
LEMMA TreesSame ==
  ASSUME IdInv, MemInv, heap' = heap, table' = table, retired' = retired, todo' = todo, Blocks \subseteq Blocks'
  PROVE  /\ RootsOK' /\ WalkOK' /\ Live' = Live /\ Dead' = Dead
         /\ \A x \in Pointers : (InTree(x)' <=> InTree(x)) /\ (Held(x)' <=> Held(x))
                                /\ \A t : Guarded(t, x)' <=> Guarded(t, x)
<1> USE DEF IdInv, MemInv
<1>1. Dead' = Dead
  BY DEF Dead
<1>2. Live' = Live /\ \A id : Removed(id)' <=> Removed(id)
  BY <1>1, TreeKept
<1>3. /\ Pointers' = Pointers
      /\ \A p : /\ Kind(p)' = Kind(p) /\ (IsRemove(p)' <=> IsRemove(p))
                /\ (Uppermost(p)' <=> Uppermost(p)) /\ (Merged(p)' <=> Merged(p))
      /\ \A p \in Pointers : Under'[p] = Under[p]
  BY HeapSame
<1>4. RootsOK'
  BY <1>1, <1>2, <1>3 DEF RootsOK
<1>5. /\ \A id \in Live : table[id] \in Pointers
      /\ \A r \in retired : r.ptr \in Pointers
      /\ \A i \in DOMAIN todo : /\ todo[i].ptr \in Pointers /\ Of(i) \in Pointers
                                /\ todo[i].right => heap[todo[i].ptr].child \in Pointers
  <2>1. \A id \in Live : table[id] \in Pointers
    BY LiveIs
  <2>2. \A p \in Dead : p \in Pointers /\ NodeOK(p)
    BY DEF PointersOK, HeapOK
  <2>3. \A i \in DOMAIN todo : todo[i].ptr \in Dead /\ (todo[i].right => Kind(todo[i].ptr) = "merge")
    BY DEF Dead, PointersOK
  <2>4. \A r \in retired : r.ptr \in Dead
    BY DEF Dead
  <2> QED BY <2>1, <2>2, <2>3, <2>4 DEF Of, NodeOK, Kind, IsNode
<1>6. \A i : Of(i)' = Of(i)
  BY DEF Of
<1>7. WalkOK'
  <2>1. \A g : Root(g)' <=> Root(g)
    BY <1>2, <1>3 DEF Root
  <2>2. ASSUME NEW i \in DOMAIN todo, NEW j \in DOMAIN todo, i < j
        PROVE  Of(i) \in Under'[heap[todo[j].ptr].child]
    <3>1. j # 1
      BY <2>2 DEF Typed, CleanTyped
    <3>2. heap[todo[j].ptr].child \in Pointers
      BY <1>5, <3>1 DEF WalkOK
    <3> QED BY <1>3, <2>2, <3>2 DEF WalkOK
  <2>3. todo # <<>> => \E g \in Pointers : Root(g) /\ \A i \in DOMAIN todo : todo[i].ptr \in Under'[g]
    BY <1>3 DEF WalkOK
  <2> QED BY <1>3, <1>6, <2>1, <2>2, <2>3 DEF WalkOK
<1>8. ASSUME NEW x \in Pointers
      PROVE  (InTree(x)' <=> InTree(x)) /\ (Held(x)' <=> Held(x)) /\ \A t : Guarded(t, x)' <=> Guarded(t, x)
  <2>1. InTree(x)' <=> InTree(x)
    BY <1>2, <1>3, <1>5 DEF InTree
  <2>2. \A t : Guarded(t, x)' <=> Guarded(t, x)
    BY <1>3, <1>5, <2>1 DEF Guarded
  <2>3. Held(x)' <=> Held(x)
    BY <1>3, <1>5, <1>6, <2>1 DEF Held
  <2> QED BY <2>1, <2>2, <2>3
<1> QED BY <1>1, <1>2, <1>4, <1>7, <1>8

(* Where a thread comes to keeps what it reads and where it allocates.      *)
Fits(u) ==
  /\ pc'[u] # "out" => /\ Guarded(u, call'[u].snap)
                       /\ call'[u].op = "merge" => Guarded(u, call'[u].right)
  /\ pc'[u] \in InChunks => chunk'[u] \in ChunksFrom(HomeOfCall(call[u]))'
  /\ call'[u].new # Null => call'[u].new[1] \in ChunksFrom(HomeOfCall(call[u]))'

LEMMA CallHome ==
  ASSUME IdInv, NEW u \in Threads, pc[u] # "out"
  PROVE  /\ call[u].snap \in Pointers /\ (call[u].op = "merge" => call[u].right \in Pointers)
         /\ HomeOfCall(call[u]) \in Blocks
<1>1. CallOK(u)
  BY DEF IdInv, CallsOK
<1>2. \A p : IsNode(p) => p \in Pointers /\ heap[p].base \in Blocks
  BY DEF IdInv, HeapOK, NodeOK, IsNode, Kind
<1> QED BY <1>1, <1>2 DEF CallOK, HomeOfCall, IsNode

(* Steps after which everyone but the threads has what it had.              *)
LEMMA IdleInv ==
  ASSUME IdInv, IdInv', MemInv, heap' = heap, table' = table, retired' = retired, todo' = todo, freed' = freed,
         Blocks \subseteq Blocks', ChainsOK', Heads' = Heads,
         \A h \in Blocks : ChunksFrom(h) \subseteq ChunksFrom(h)',
         \A u \in Threads : Quiet(u) \/ Fits(u)
  PROVE  MemInv'
<1> USE DEF IdInv, MemInv
<1>1. Pointers' = Pointers /\ Founded' /\ KidsOnce'
  BY HeapSame
<1>2. RootsOK' /\ WalkOK' /\ Live' = Live
      /\ \A x \in Pointers : (Held(x)' <=> Held(x)) /\ \A t : Guarded(t, x)' <=> Guarded(t, x)
  BY TreesSame
<1>3. HeldOK'
  <2>1. \A b \in Heads : End(b) \in Pointers
    BY DEF Heads
  <2> QED BY <1>2, <2>1 DEF HeldOK
<1>5. ASSUME NEW u \in Threads, pc'[u] # "out"
      PROVE  /\ Guarded(u, call[u].snap)'
             /\ call'[u].op = "merge" => Guarded(u, call[u].right)'
  <2>1. CASE Quiet(u)
    <3>1. pc[u] # "out" /\ call'[u] = call[u]
      BY <1>5, <2>1 DEF Quiet
    <3>2. call[u].snap \in Pointers /\ (call[u].op = "merge" => call[u].right \in Pointers)
      BY <3>1, CallHome
    <3> QED BY <1>2, <3>1, <3>2 DEF GuardsOK
  <2>2. CASE Fits(u)
    <3>1. call'[u].snap \in Pointers /\ (call'[u].op = "merge" => call'[u].right \in Pointers)
      BY <1>1, <1>5 DEF CallsOK, CallOK, IsNode
    <3> QED BY <1>2, <1>5, <2>2, <3>1 DEF Fits
  <2> QED BY <2>1, <2>2
<1>6. ASSUME NEW u \in Threads
      PROVE  /\ pc'[u] \in InChunks => chunk'[u] \in ChunksFrom(HomeOfCall(call[u]))'
             /\ call'[u].new # Null => call'[u].new[1] \in ChunksFrom(HomeOfCall(call[u]))'
  <2>1. CASE Fits(u)
    BY <2>1 DEF Fits, HomeOfCall
  <2>2. CASE Quiet(u)
    <3>1. CASE pc[u] # "out"
      <4>1. HomeOfCall(call[u]) \in Blocks
        BY <3>1, CallHome
      <4>2. HomeOfCall(call[u])' = HomeOfCall(call[u])
        BY <2>2 DEF HomeOfCall, Quiet
      <4>3. /\ pc[u] \in InChunks => chunk[u] \in ChunksFrom(HomeOfCall(call[u]))
            /\ call[u].new # Null => call[u].new[1] \in ChunksFrom(HomeOfCall(call[u]))
        BY DEF HomesOK, Taken
      <4>4. ChunksFrom(HomeOfCall(call[u])) \subseteq ChunksFrom(HomeOfCall(call[u]))'
        <5>1. PICK h \in Blocks : h = HomeOfCall(call[u]) /\ h = HomeOfCall(call[u])'
          BY <4>1, <4>2
        <5>2. ChunksFrom(HomeOfCall(call[u]))' = ChunksFrom(h)'
          BY <5>1 DEF ChunksFrom
        <5> QED BY <5>1, <5>2
      <4> QED BY <2>2, <4>3, <4>4 DEF Quiet
    <3>2. CASE pc[u] = "out"
      <4>1. call[u] = NoCall
        BY <3>2 DEF CallsOK, CallOK
      <4> QED BY <2>2, <3>2, <4>1, Constants DEF Quiet, InChunks
    <3> QED BY <3>1, <3>2
  <2> QED BY <2>1, <2>2
<1>7. HomesOK' /\ GuardsOK'
  BY <1>5, <1>6 DEF HomesOK, GuardsOK, Taken
<1> QED BY <1>1, <1>2, <1>3, <1>7

LEMMA IdleChains ==
  ASSUME IdInv, IdInv', MemInv, heap' = heap, freed' = freed, next' = next, Blocks' = Blocks
  PROVE  /\ ChainsOK' /\ Heads' = Heads
         /\ \A h \in Blocks : ChunksFrom(h)' = ChunksFrom(h)
<1> USE DEF IdInv, MemInv
<1>1. Pointers' = Pointers /\ \A p : (IsRemove(p)' <=> IsRemove(p)) /\ (IsRecord(p)' <=> IsRecord(p))
                                     /\ HomeOf(p)' = HomeOf(p)
  BY HeapSame
<1>2. Heads' = Heads
  BY <1>1 DEF Heads
<1>3. \A h \in Blocks : ChunksFrom(h)' = ChunksFrom(h)
  BY ChainsSame DEF Typed
<1>4. ASSUME NEW p \in Pointers, IsRecord(p) PROVE p[1] \in ChunksFrom(HomeOf(p))'
  <2>1. NodeOK(p) /\ p[1] \in ChunksFrom(HomeOf(p))
    BY <1>4 DEF HeapOK, ChainsOK
  <2>2. HomeOf(p) \in Blocks
    BY <1>4, <2>1 DEF HomeOf, NodeOK, HeapOK, Kind, IsNode, IsRecord
  <2> QED BY <1>1, <1>3, <2>1, <2>2
<1>5. ChainsOK'
  <2>1. \A h \in Heads : h \in Blocks
    BY DEF Heads
  <2> QED BY <1>1, <1>2, <1>3, <1>4, <2>1 DEF ChainsOK
<1> QED BY <1>2, <1>3, <1>5

LEMMA MovesInv ==
  ASSUME IdInv, IdInv', MemInv, heap' = heap, table' = table, retired' = retired, todo' = todo, freed' = freed,
         next' = next, Blocks' = Blocks,
         (\A h \in Blocks : ChunksFrom(h)' = ChunksFrom(h)) => \A u \in Threads : Quiet(u) \/ Fits(u)
  PROVE  MemInv'
<1>1. ChainsOK' /\ Heads' = Heads /\ \A h \in Blocks : ChunksFrom(h)' = ChunksFrom(h)
  BY IdleChains
<1>2. \A u \in Threads : Quiet(u) \/ Fits(u)
  BY <1>1
<1>3. \A h \in Blocks : ChunksFrom(h) \subseteq ChunksFrom(h)'
  BY <1>1
<1>4. Blocks \subseteq Blocks'
  OBVIOUS
<1> QED BY <1>1, <1>2, <1>3, <1>4, IdleInv

(* A thread that keeps its call keeps what it reads. *)
LEMMA StaysFit ==
  ASSUME IdInv, MemInv, heap' = heap, NEW u \in Threads, pc[u] # "out",
         call'[u].op = call[u].op, call'[u].snap = call[u].snap, call'[u].right = call[u].right,
         NEW h, h = HomeOfCall(call[u]),
         pc'[u] \in InChunks => chunk'[u] \in ChunksFrom(h)',
         call'[u].new # Null => call'[u].new[1] \in ChunksFrom(h)'
  PROVE  Fits(u)
<1>1. HomeOfCall(call[u])' = h
  BY DEF HomeOfCall
<1>2. ChunksFrom(HomeOfCall(call[u]))' = ChunksFrom(h)'
  BY <1>1 DEF ChunksFrom
<1>3. Guarded(u, call[u].snap) /\ (call[u].op = "merge" => Guarded(u, call[u].right))
  BY DEF MemInv, GuardsOK
<1> QED BY <1>2, <1>3 DEF Fits

(* JoinEpoch with a snapshot of the tree: the thread is guarded.            *)
LEMMA BegunMem ==
  ASSUME IdInv, MemInv, NEW t \in Threads, NEW id, NEW op, NEW label, NEW right, NEW b,
         Begun(t, id, op, label, right, b)
  PROVE  MemInv'
<1>1. IdInv'
  BY BegunInv
<1>2. /\ id \in Ids /\ IsNode(table[id]) /\ heap[table[id]].next = NextId(id)
      /\ op \in {"post", "merge"} => b \in Blocks
      /\ op = "merge" => IsNode(right) /\ NextId(id) \in Live
  BY BegunIs
<1>3. /\ heap' = heap /\ table' = table /\ retired' = retired /\ todo' = todo /\ freed' = freed
      /\ next' = next /\ tail' = tail /\ popped' = popped
  BY DEF Begun, memVars, cleanVars
<1>4. /\ pc \in [Threads -> Pc] /\ call \in [Threads -> Calls] /\ chunk \in [Threads -> Nat]
  BY DEF IdInv, Typed, ThreadTyped
<1>5. \A u \in Threads \ {t} : Quiet(u)
  BY <1>3, <1>4 DEF Begun, Quiet
<1>6. /\ pc'[t] = label /\ chunk'[t] = b /\ call'[t].op = op /\ call'[t].snap = table[id]
      /\ call'[t].right = right /\ call'[t].new = Null
  BY <1>4 DEF Begun
<1>7. Guarded(t, table[id])
  <2>1. id \in Live /\ table[id] \in Pointers
    BY <1>2 DEF IsNode, Begun
  <2>2. table[id] \in Under[table[id]]
    BY <2>1, UnderNow DEF UnderFact, IdInv, MemInv
  <2> QED BY <2>1, <2>2 DEF Guarded, InTree
<1>8. ASSUME op = "merge" PROVE Guarded(t, right)
  <2>1. PICK j : j = NextId(id)
    OBVIOUS
  <2>2. j \in Live /\ Removed(j) /\ right = heap[table[j]].child /\ IsNode(right)
    BY <1>2, <1>8, <2>1 DEF Begun
  <2>3. table[j] \in Pointers
    BY <2>2, LiveIs DEF IdInv
  <2>4. Link(table[j], right)
    <3>1. ~Merged(right)
      BY <2>2 DEF MemInv, RootsOK
    <3>2. right # Null
      BY <2>2, NullNowhere DEF IsNode, IdInv, Typed
    <3> QED BY <2>2, <3>1, <3>2 DEF Link, Cut
  <2>5. right \in Pointers /\ right \in Under[table[j]]
    BY <2>2, <2>3, <2>4, UnderNow DEF UnderFact, IdInv, MemInv, IsNode
  <2> QED BY <2>2, <2>5 DEF Guarded, InTree
<1>9. ASSUME \A h \in Blocks : ChunksFrom(h)' = ChunksFrom(h)
      PROVE  Fits(t)
  <2>1. ASSUME op \in {"post", "merge"} PROVE b = HomeOfCall(call[t])' /\ b \in ChunksFrom(b)'
    <3>1. b \in ChunksFrom(b)
      BY <1>2, <2>1, ChunksNow DEF ChunksFact, IdInv, Typed
    <3>2. b = HomeOfCall(call[t])'
      BY <1>3, <1>6, <2>1 DEF Begun, HomeOfCall, BaseOf
    <3> QED BY <1>2, <1>9, <2>1, <3>1, <3>2
  <2>2. ASSUME op \in {"post", "merge"} PROVE chunk'[t] \in ChunksFrom(HomeOfCall(call[t]))'
    <3>1. ChunksFrom(HomeOfCall(call[t]))' = ChunksFrom(b)'
      BY <2>1, <2>2 DEF ChunksFrom
    <3> QED BY <1>6, <2>1, <2>2, <3>1
  <2>3. pc'[t] \in InChunks => op \in {"post", "merge"}
    BY <1>6 DEF Begun, InChunks
  <2> QED BY <1>6, <1>7, <1>8, <2>2, <2>3 DEF Fits
<1>10. Blocks' = Blocks
  BY <1>3 DEF Blocks
<1> QED BY <1>1, <1>3, <1>5, <1>9, <1>10, MovesInv

(* A thread on its way to a chunk or a NodeID. *)
Paces(t) ==
  /\ pc[t] # "out" /\ UNCHANGED <<next, freed, heap, table, retired, todo>> /\ Blocks' = Blocks
  /\ \A u \in Threads \ {t} : Quiet(u)
  /\ call'[t].op = call[t].op /\ call'[t].snap = call[t].snap /\ call'[t].right = call[t].right

LEMMA PacesMem ==
  ASSUME IdInv, IdInv', MemInv, NEW t \in Threads, Paces(t), NEW h, h = HomeOfCall(call[t]),
         pc'[t] \in InChunks => chunk'[t] \in ChunksFrom(h),
         call'[t].new # Null => call'[t].new[1] \in ChunksFrom(h)
  PROVE  MemInv'
<1>1. h \in Blocks
  BY CallHome DEF Paces
<1>2. (\A k \in Blocks : ChunksFrom(k)' = ChunksFrom(k)) => Fits(t)
  BY <1>1, StaysFit DEF Paces
<1>3. \A u \in Threads : u = t \/ Quiet(u)
  BY DEF Paces
<1>4. heap' = heap /\ table' = table /\ retired' = retired /\ todo' = todo /\ freed' = freed
      /\ next' = next /\ Blocks' = Blocks
  BY DEF Paces
<1>5. (\A k \in Blocks : ChunksFrom(k)' = ChunksFrom(k)) => \A u \in Threads : Quiet(u) \/ Fits(u)
  BY <1>2, <1>3
<1> QED BY <1>4, <1>5, MovesInv

(* TryAllocate and GrowChunk: from a chunk to the next of its chain.        *)
LEMMA SeekMem ==
  ASSUME IdInv, MemInv, NEW t \in Threads,
         TryAllocate(t) \/ GoOn(t) \/ (LinkChunk(t) /\ next[chunk[t]] # NoBlock)
  PROVE  MemInv'
<1>1. IdInv'
  BY TryGoOnInv, LinkInv
<1>2. /\ pc \in [Threads -> Pc] /\ call \in [Threads -> Calls] /\ chunk \in [Threads -> Nat]
  BY DEF IdInv, Typed, ThreadTyped
<1>3. /\ pc[t] \in InChunks /\ pc[t] # "cas" /\ pc[t] # "out"
      /\ UNCHANGED <<tail, next, freed, heap, table, retired, todo>> /\ call' = call /\ popped' = popped
      /\ pc' = [pc EXCEPT ![t] = pc'[t]]
      /\ chunk'[t] = chunk[t] \/ (next[chunk[t]] # NoBlock /\ chunk'[t] = next[chunk[t]])
      /\ \A u \in Threads \ {t} : chunk'[u] = chunk[u]
  BY <1>2 DEF TryAllocate, GoOn, LinkChunk, To, memVars, cleanVars, InChunks
<1>4. Paces(t)
  BY <1>2, <1>3 DEF Paces, Quiet, Blocks
<1>5. PICK h : h = HomeOfCall(call[t])
  OBVIOUS
<1>6. h \in Blocks
  BY <1>3, <1>5, CallHome
<1>7. chunk[t] \in ChunksFrom(h)
  BY <1>3, <1>5 DEF MemInv, HomesOK
<1>8. chunk'[t] \in ChunksFrom(h)
  BY <1>3, <1>6, <1>7, ChunksNow DEF ChunksFact, IdInv, Typed
<1>9. call'[t].new = Null
  BY <1>3 DEF IdInv, CallsOK, CallOK
<1> QED BY <1>1, <1>4, <1>5, <1>8, <1>9, PacesMem

(* The fetch_sub: the place is in the chain of the thread.                  *)
LEMMA TakeMem ==
  ASSUME IdInv, MemInv, NEW t \in Threads, Take(t)
  PROVE  MemInv'
<1>1. IdInv'
  BY TakeInv
<1>2. PICK b \in Blocks, s \in {1, 2}, a \in Int :
           /\ b = chunk[t] /\ s = SizeOf(t) /\ a = tail[b] - s /\ tail[b] \in Int
           /\ pc[t] = "sub" /\ call[t].op \in Allocating /\ call[t].new = Null
           /\ tail' = [tail EXCEPT ![b] = a]
           /\ \/ a < 0 /\ pc' = [pc EXCEPT ![t] = "grow"] /\ call' = call
              \/ 0 <= a /\ pc' = [pc EXCEPT ![t] = "cas"] /\ call' = [call EXCEPT ![t].new = <<b, a>>]
           /\ UNCHANGED <<next, freed, heap, table, retired, stackVars, chunk, popped, calls, cleanVars>>
  BY TakeIs
<1>3. /\ pc \in [Threads -> Pc] /\ call \in [Threads -> Calls] /\ chunk \in [Threads -> Nat]
      /\ popped' = popped /\ chunk' = chunk /\ todo' = todo
  BY <1>2 DEF IdInv, Typed, ThreadTyped, cleanVars
<1>4. /\ \A u \in Threads \ {t} : Quiet(u)
      /\ call'[t].op = call[t].op /\ call'[t].snap = call[t].snap /\ call'[t].right = call[t].right
      /\ call'[t].new # Null => call'[t].new = <<b, a>>
  BY <1>2, <1>3 DEF Quiet, Calls
<1>5. Blocks' = Blocks
  BY <1>2 DEF Blocks
<1>6. Paces(t)
  BY <1>2, <1>3, <1>4, <1>5 DEF Paces
<1>7. PICK h : h = HomeOfCall(call[t])
  OBVIOUS
<1>8. chunk[t] \in ChunksFrom(h)
  BY <1>2, <1>7 DEF MemInv, HomesOK, InChunks
<1> QED BY <1>1, <1>2, <1>3, <1>4, <1>6, <1>7, <1>8, PacesMem

(* GetNextNodeID.                                                           *)
LEMMA PopMem ==
  ASSUME IdInv, MemInv, NEW t \in Threads, Pop(t) \/ PopRead(t) \/ PopCas(t) \/ Fresh(t)
  PROVE  MemInv'
<1>1. IdInv'
  BY PopInv, PopWon, FreshInv
<1>2. /\ pc \in [Threads -> Pc] /\ call \in [Threads -> Calls] /\ chunk \in [Threads -> Nat]
      /\ popped \in [Threads -> Tops] /\ CallOK(t)
  BY DEF IdInv, Typed, ThreadTyped, CallsOK
<1>3. /\ pc[t] \in {"pop", "read", "popcas", "fresh"} /\ call[t].op = "split" /\ call[t].new = Null
  BY <1>2 DEF CallOK, Pop, PopRead, PopCas, Fresh
<1>4. /\ UNCHANGED <<tail, next, freed, heap, table, retired, todo>>
      /\ call' = call \/ \E d : call' = [call EXCEPT ![t].newid = d]
      /\ \A u \in Threads \ {t} : pc'[u] = pc[u] /\ chunk'[u] = chunk[u] /\ popped'[u] = popped[u]
      /\ pc'[t] \in InChunks => chunk'[t] = heap[call[t].snap].base
  BY <1>2 DEF Pop, PopRead, PopCas, Fresh, To, memVars, cleanVars, InChunks, BaseOf
<1>5. /\ call'[t].op = call[t].op /\ call'[t].snap = call[t].snap /\ call'[t].right = call[t].right
      /\ call'[t].new = Null /\ \A u \in Threads \ {t} : call'[u] = call[u]
  BY <1>2, <1>3, <1>4 DEF Calls
<1>6. Paces(t)
  BY <1>3, <1>4, <1>5 DEF Paces, Quiet, Blocks
<1>7. PICK h : h = HomeOfCall(call[t])
  OBVIOUS
<1>8. h \in Blocks /\ h = heap[call[t].snap].base
  BY <1>3, <1>7, CallHome DEF HomeOfCall
<1>9. h \in ChunksFrom(h)
  BY <1>8, ChunksNow DEF ChunksFact, IdInv, Typed
<1>10. pc'[t] \in InChunks => chunk'[t] \in ChunksFrom(h)
  BY <1>4, <1>8, <1>9
<1>11. ~(call'[t].new # Null)
  BY <1>5
<1> QED BY <1>1, <1>6, <1>7, <1>10, <1>11, PacesMem

(* A new chunk belongs to the page whose last one it is hung behind.        *)
LEMMA LinkChains ==
  ASSUME IdInv, NEW a \in Blocks, next[a] = NoBlock, NEW n, n = NewBlock,
         tail' = Append(tail, ChunkSize), next' = Append([next EXCEPT ![a] = NewBlock], NoBlock),
         freed' = freed
  PROVE  /\ ChunksFrom(n)' = {n}
         /\ \A h \in Blocks : /\ ChunksFrom(h) \subseteq ChunksFrom(h)'
                              /\ ChunksFrom(h)' \subseteq ChunksFrom(h) \cup {n}
                              /\ a \in ChunksFrom(h) => n \in ChunksFrom(h)'
                              /\ n \in ChunksFrom(h)' => a \in ChunksFrom(h)
<1>1. Typed
  BY DEF IdInv
<1>2. /\ MemTyped /\ MemTyped' /\ Blocks' = Blocks \cup {n} /\ n \notin Blocks /\ n \in Nat /\ n # NoBlock
      /\ \A b \in Blocks : next'[b] = IF b = a THEN n ELSE next[b]
      /\ next'[n] = NoBlock
  <2>1. MemTyped
    BY <1>1 DEF Typed
  <2>2. /\ MemTyped' /\ Blocks' = Blocks \cup {NewBlock} /\ NewBlock \notin Blocks /\ NewBlock \in Nat
        /\ \A b \in Blocks : next'[b] = IF b = a THEN NewBlock ELSE next[b]
        /\ next'[NewBlock] = NoBlock
    BY <1>1, LinkIs
  <2>3. n # NoBlock
    BY <1>1, <2>1, BlocksAre DEF NoBlock
  <2> QED BY <2>1, <2>2, <2>3
<1>3. ChunksFrom(n)' = {n}
  <2>1. n \in ChunksFrom(n)'
    BY <1>2, ChunksThen DEF ChunksFact
  <2>2. \A x \in Blocks' : x \in {n} /\ next'[x] # NoBlock => next'[x] \in {n}
    BY <1>2
  <2>3. ChunksFrom(n)' \subseteq {n}
    BY <1>2, <2>2, ChunksThen DEF ChunksFact
  <2> QED BY <2>1, <2>3
<1>4. ASSUME NEW h \in Blocks
      PROVE  /\ ChunksFrom(h) \subseteq ChunksFrom(h)'
             /\ ChunksFrom(h)' \subseteq ChunksFrom(h) \cup {n}
             /\ a \in ChunksFrom(h) => n \in ChunksFrom(h)'
             /\ n \in ChunksFrom(h)' => a \in ChunksFrom(h)
  <2>1. ChunksFrom(h) \subseteq ChunksFrom(h)'
    BY <1>2, ChainsGrow
  <2>2. /\ h \in ChunksFrom(h) /\ ChunksFrom(h) \subseteq Blocks
        /\ \A b \in ChunksFrom(h) : next[b] # NoBlock => next[b] \in ChunksFrom(h)
    BY <1>2, ChunksNow DEF ChunksFact
  <2>3. ASSUME a \in ChunksFrom(h) PROVE n \in ChunksFrom(h)'
    <3>1. a \in ChunksFrom(h)' /\ next'[a] = n
      BY <1>2, <2>1, <2>3
    <3>2. h \in Blocks' /\ next'[a] # NoBlock
      BY <1>2, <3>1
    <3> QED BY <1>2, <3>1, <3>2, ChunksThen DEF ChunksFact
  <2>4. ASSUME a \notin ChunksFrom(h) PROVE ChunksFrom(h)' \subseteq ChunksFrom(h)
    <3>1. \A x \in Blocks' : x \in ChunksFrom(h) /\ next'[x] # NoBlock => next'[x] \in ChunksFrom(h)
      BY <1>2, <2>2, <2>4
    <3>2. h \in Blocks' /\ h \in ChunksFrom(h)
      BY <1>2, <2>2
    <3>3. PICK S : S = ChunksFrom(h)
      OBVIOUS
    <3>4. ChunksFrom(h)' \subseteq S
      BY <1>2, <3>1, <3>2, <3>3, ChunksThen DEF ChunksFact
    <3> QED BY <3>3, <3>4
  <2>5. ChunksFrom(h)' \subseteq ChunksFrom(h) \cup {n}
    <3> DEFINE S == ChunksFrom(h) \cup {n}
    <3>1. \A x \in Blocks' : x \in S /\ next'[x] # NoBlock => next'[x] \in S
      BY <1>2, <2>2
    <3>2. h \in S /\ h \in Blocks'
      BY <1>2, <2>2
    <3>3. ChunksFrom(h)' \subseteq S
      <4> HIDE DEF S
      <4> QED BY <1>2, <3>1, <3>2, ChunksThen DEF ChunksFact
    <3> QED BY <3>3
  <2> QED BY <1>2, <2>1, <2>2, <2>3, <2>4, <2>5
<1> QED BY <1>3, <1>4

(* What is under something guarded is guarded and held.                     *)
LEMMA GuardedOver ==
  ASSUME IdInv, MemInv, NEW t, NEW x, Guarded(t, x), NEW y \in Under[x]
  PROVE  Guarded(t, y) /\ Held(y)
<1>1. \A r \in Pointers : x \in Under[r] => y \in Under[r]
  BY UnderPart DEF IdInv, MemInv
<1>2. /\ \A id \in Live : table[id] \in Pointers
      /\ \A r \in retired : r.ptr \in Pointers
  BY LiveIs DEF IdInv, PointersOK, Dead
<1> QED BY <1>1, <1>2 DEF Guarded, Held, InTree

(* The page that the chunks a thread goes through belong to. *)
LEMMA HomeHeld ==
  ASSUME IdInv, MemInv, NEW t \in Threads, pc[t] # "out", call[t].op # "remove", NEW h, h = HomeOfCall(call[t])
  PROVE  h \in Heads /\ Kind(End(h)) = "page" /\ Guarded(t, End(h)) /\ Held(End(h)) /\ h \notin freed
<1>1. CallOK(t)
  BY DEF IdInv, CallsOK
<1>2. PICK x : IsNode(x) /\ h = heap[x].base /\ Guarded(t, x)
  BY <1>1 DEF CallOK, HomeOfCall, MemInv, GuardsOK
<1>3. h \in Heads /\ Kind(End(h)) = "page" /\ End(h) \in Under[x]
  BY <1>2, BaseUnder DEF IsNode, IdInv, Typed, MemInv
<1>4. Guarded(t, End(h)) /\ Held(End(h))
  BY <1>2, <1>3, GuardedOver
<1> QED BY <1>3, <1>4 DEF MemInv, HeldOK

(* LinkChunk: the page of the chain is held, so the new chunk is not freed. *)
LEMMA LinkMem ==
  ASSUME IdInv, MemInv, NEW t \in Threads, LinkChunk(t), next[chunk[t]] = NoBlock
  PROVE  MemInv'
<1>1. IdInv'
  BY LinkInv
<1>2. PICK a : a = chunk[t]
  OBVIOUS
<1>3. PICK n : n = NewBlock
  OBVIOUS
<1>4. /\ pc \in [Threads -> Pc] /\ call \in [Threads -> Calls] /\ chunk \in [Threads -> Nat] /\ CallOK(t)
      /\ Typed /\ MemTyped /\ HeapOK
  BY DEF IdInv, Typed, ThreadTyped, CallsOK
<1>5. /\ pc[t] = "link" /\ pc' = [pc EXCEPT ![t] = "try"] /\ chunk' = [chunk EXCEPT ![t] = n]
      /\ UNCHANGED <<freed, heap, table, retired, todo, call, popped>>
      /\ tail' = Append(tail, ChunkSize)
      /\ next' = Append([next EXCEPT ![a] = NewBlock], NoBlock)
  BY <1>2, <1>3 DEF LinkChunk, To, cleanVars
<1>6. a \in Blocks /\ next[a] = NoBlock /\ call[t].op # "remove"
  BY <1>2, <1>4, <1>5 DEF CallOK, InChunks, Allocating
<1>7. /\ MemTyped' /\ Blocks' = Blocks \cup {n} /\ n \notin Blocks /\ n \in Nat
      /\ \A b \in Blocks : next'[b] = IF b = a THEN n ELSE next[b]
      /\ next'[n] = NoBlock
  <2>1. /\ MemTyped' /\ Blocks' = Blocks \cup {NewBlock} /\ NewBlock \notin Blocks /\ NewBlock \in Nat
        /\ \A b \in Blocks : next'[b] = IF b = a THEN NewBlock ELSE next[b]
        /\ next'[NewBlock] = NoBlock
    BY <1>4, <1>5, <1>6, LinkIs
  <2> QED BY <1>3, <2>1
<1>8. 0 \notin Blocks /\ n # 0 /\ n \notin freed /\ NoBlock = 0 /\ \A b \in Blocks : next[b] # NoBlock => next[b] \in Blocks
  BY <1>3, <1>4, <1>7, BlocksAre DEF NoBlock, MemTyped
<1>9. /\ ChunksFrom(n)' = {n}
      /\ \A h \in Blocks : /\ ChunksFrom(h) \subseteq ChunksFrom(h)'
                           /\ ChunksFrom(h)' \subseteq ChunksFrom(h) \cup {n}
                           /\ a \in ChunksFrom(h) => n \in ChunksFrom(h)'
                           /\ n \in ChunksFrom(h)' => a \in ChunksFrom(h)
  BY <1>3, <1>5, <1>6, LinkChains
<1>10. PICK h : h = HomeOfCall(call[t])
  OBVIOUS
<1>11. h \in Heads /\ h \in Blocks /\ Kind(End(h)) = "page" /\ h \notin freed
  BY <1>5, <1>6, <1>10, HomeHeld DEF Heads
<1>12. a \in ChunksFrom(h)
  BY <1>2, <1>5, <1>10 DEF MemInv, HomesOK, InChunks
<1>13. Pointers' = Pointers /\ Heads' = Heads
  <2>1. Pointers' = Pointers
    BY <1>5 DEF Pointers
  <2>2. End(n) \notin Pointers
    BY <1>4, <1>7, BlockPlace
  <2> QED BY <1>7, <2>1, <2>2 DEF Heads
<1>14. \A p : /\ Kind(p)' = Kind(p) /\ (IsRemove(p)' <=> IsRemove(p)) /\ (IsRecord(p)' <=> IsRecord(p))
              /\ HomeOf(p)' = HomeOf(p)
  BY <1>5, <1>13 DEF Kind, IsRemove, IsRecord, HomeOf
<1>15. ASSUME NEW p \in Pointers, IsRemove(p) PROVE next'[p[1]] = NoBlock
  <2>1. /\ p \in Pairs /\ p[1] \in Blocks /\ p[2] = ChunkSize
    BY <1>4, <1>15 DEF HeapOK, NodeOK, IsRemove, Kind
  <2>2. p = End(p[1])
    BY <2>1 DEF Pairs, End
  <2>3. ASSUME p[1] = a PROVE FALSE
    <3>1. a \in Heads
      BY <1>6, <2>2, <2>3 DEF Heads
    <3>2. a \in ChunksFrom(a)
      BY <1>4, <1>6, ChunksNow DEF ChunksFact
    <3>3. a = h
      BY <1>4, <1>11, <1>12, <3>1, <3>2, ChainOnce DEF MemInv
    <3> QED BY <1>11, <1>15, <2>2, <2>3, <3>3 DEF IsRemove
  <2> QED BY <1>7, <1>15, <2>1, <2>3 DEF MemInv, ChainsOK
<1>16. ASSUME NEW p \in Pointers, IsRecord(p) PROVE p[1] \in ChunksFrom(HomeOf(p))'
  <2>1. PICK k : k = HomeOf(p)
    OBVIOUS
  <2>2. p[1] \in ChunksFrom(k)
    BY <1>16, <2>1 DEF MemInv, ChainsOK
  <2>3. k \in Blocks
    BY <1>4, <1>16, <2>1 DEF HomeOf, NodeOK, HeapOK, Kind, IsNode, IsRecord
  <2>4. ChunksFrom(HomeOf(p))' = ChunksFrom(k)'
    BY <1>14, <2>1 DEF ChunksFrom
  <2> QED BY <1>9, <2>2, <2>3, <2>4
<1>17. ASSUME NEW k \in Heads, NEW b, b \in ChunksFrom(k)' PROVE b \in freed <=> k \in freed
  <2>1. k \in Blocks
    BY DEF Heads
  <2>2. CASE b \in ChunksFrom(k)
    BY <2>2 DEF MemInv, ChainsOK
  <2>3. CASE b \notin ChunksFrom(k)
    <3>1. b = n /\ a \in ChunksFrom(k)
      BY <1>9, <1>17, <2>1, <2>3
    <3>2. k = h
      BY <1>4, <1>11, <1>12, <3>1, ChainOnce DEF MemInv
    <3> QED BY <1>8, <1>11, <3>1, <3>2
  <2> QED BY <2>2, <2>3
<1>18. \A b, c \in Blocks' : next'[b] = next'[c] /\ next'[b] # NoBlock => b = c
  BY <1>7, <1>8 DEF MemInv, ChainsOK
<1>19. \A b \in Blocks' : next'[b] \notin Heads
  BY <1>7, <1>8 DEF MemInv, ChainsOK, Heads
<1>20. \A b \in Blocks' : \E k \in Heads : b \in ChunksFrom(k)'
  <2>1. n \in ChunksFrom(h)'
    BY <1>9, <1>11, <1>12
  <2>2. ASSUME NEW b \in Blocks PROVE \E k \in Heads : b \in ChunksFrom(k)'
    <3>1. PICK k \in Heads : b \in ChunksFrom(k)
      BY DEF MemInv, ChainsOK
    <3> QED BY <1>9, <3>1 DEF Heads
  <2> QED BY <1>7, <1>11, <2>1, <2>2
<1>21. ChainsOK'
  <2>1. \A p \in Pointers' : IsRemove(p)' => next'[p[1]] = NoBlock
    BY <1>13, <1>14, <1>15
  <2>2. \A p \in Pointers' : IsRecord(p)' => p[1] \in ChunksFrom(HomeOf(p))'
    BY <1>13, <1>14, <1>16
  <2>3. \A k \in Heads' : \A b \in ChunksFrom(k)' : b \in freed' <=> k \in freed'
    BY <1>5, <1>13, <1>17
  <2> QED BY <1>13, <1>18, <1>19, <1>20, <2>1, <2>2, <2>3 DEF ChainsOK
<1>22. Fits(t)
  <2>1. chunk'[t] \in ChunksFrom(h)'
    BY <1>4, <1>5, <1>9, <1>11, <1>12
  <2>2. call'[t] = call[t] /\ call[t].new = Null
    BY <1>4, <1>5 DEF CallOK
  <2> QED BY <1>5, <1>10, <2>1, <2>2, StaysFit
<1>23. \A u \in Threads : u = t \/ Quiet(u)
  BY <1>4, <1>5 DEF Quiet
<1>24. \A u \in Threads : Quiet(u) \/ Fits(u)
  BY <1>22, <1>23
<1>25. Blocks \subseteq Blocks' /\ \A k \in Blocks : ChunksFrom(k) \subseteq ChunksFrom(k)'
  BY <1>7, <1>9
<1>26. heap' = heap /\ table' = table /\ retired' = retired /\ todo' = todo /\ freed' = freed
  BY <1>5
<1> QED BY <1>1, <1>13, <1>21, <1>24, <1>25, <1>26, IdleInv

(* The initial memory.                                                      *)
LEMMA InitMemInv == Init => MemInv
<1> SUFFICES ASSUME Init PROVE MemInv
  OBVIOUS
<1>1. PICK e, f, g, d : e = End(1) /\ f = End(2) /\ g = End(3) /\ d = First
  OBVIOUS
<1>2. /\ Pointers = {e, d, f, g} /\ e # d /\ e # f /\ e # g /\ f # d /\ g # d /\ f # g
      /\ Kind(e) = "page" /\ Kind(f) = "page" /\ Kind(g) = "remove" /\ Kind(d) = "data"
      /\ heap[e].child = Null /\ heap[f].child = Null /\ heap[g].child = Null /\ heap[d].child = e
      /\ heap[d].base = 1 /\ \A p \in Pointers : heap[p].right = Null /\ p # Null
  BY <1>1, InitHeap DEF Page, RemoveRecord, Kind
<1>3. IdInv /\ HeapOK /\ Typed /\ MemTyped /\ Blocks = 1 .. 3
  BY InitIdInv, InitHeap DEF IdInv, Typed
<1>4. \A p, q : p \in Pointers => (Kid(p, q) <=> p = d /\ q = e)
  BY <1>2 DEF Kid
<1>5. Founded
  <2>1. ASSUME NEW S \in SUBSET Pointers, S # {} PROVE \E p \in S : \A q \in S : ~Kid(p, q)
    <3>1. CASE S = {d}
      BY <1>2, <1>4, <3>1
    <3>2. CASE S # {d}
      <4>1. PICK p \in S : p # d
        BY <2>1, <3>2
      <4> QED BY <1>4, <4>1
    <3> QED BY <3>1, <3>2
  <2> QED BY <2>1 DEF Founded
<1>6. KidsOnce
  BY <1>2 DEF KidsOnce, IsRemove
<1>7. \A b \in Blocks : next[b] = NoBlock /\ next[b] \notin Blocks
  BY <1>3 DEF Init, NoBlock
<1>8. Heads = Blocks
  <2>1. End(1) \in Pointers /\ End(2) \in Pointers /\ End(3) \in Pointers
    BY <1>1, <1>2
  <2>2. \A b \in Blocks : b = 1 \/ b = 2 \/ b = 3
    BY <1>3
  <2> QED BY <2>1, <2>2 DEF Heads
<1>9. \A h \in Blocks : h \in ChunksFrom(h) /\ ChunksFrom(h) \subseteq {h}
  BY <1>3, <1>7, ChunksNow DEF ChunksFact
<1>10. freed = {} /\ todo = <<>> /\ retired = {[ptr |-> g, until |-> {}]}
       /\ \A t \in Threads : pc[t] = "out" /\ call[t].new = Null
  BY <1>1, Constants DEF Init
<1>11. ChainsOK
  <2>1. \A p \in Pointers : p[1] \in Blocks /\ (IsRecord(p) => p = d)
    BY <1>2, <1>3 DEF HeapOK, NodeOK, IsRecord
  <2>2. d[1] = 1 /\ HomeOf(d) = 1 /\ 1 \in Blocks
    BY <1>1, <1>2, <1>3 DEF HomeOf, First
  <2> QED BY <1>7, <1>8, <1>9, <1>10, <2>1, <2>2 DEF ChainsOK
<1>12. Live = {1, 2} /\ table[1] = d /\ table[2] = f /\ Dead = {g}
  BY <1>1, InitTable
<1>13. RootsOK
  <2>1. Uppermost(d) /\ Uppermost(f) /\ Uppermost(g)
    BY <1>2, <1>4 DEF Uppermost
  <2>2. ~Removed(1) /\ ~Removed(2)
    BY <1>2, <1>12 DEF Removed
  <2> QED BY <1>2, <1>10, <1>12, <2>1, <2>2 DEF RootsOK
<1>14. HeldOK
  <2>1. /\ d \in Under[d] /\ f \in Under[f] /\ g \in Under[g]
        /\ \A c : Link(d, c) => c \in Under[d]
    BY <1>2, <1>3, <1>5, UnderNow DEF UnderFact
  <2>2. Link(d, e)
    BY <1>2 DEF Link, Cut, IsRemove
  <2>3. Held(e) /\ Held(f) /\ Held(g)
    <3>1. [ptr |-> g, until |-> {}].ptr = g
      OBVIOUS
    <3> QED BY <1>10, <1>12, <2>1, <2>2, <3>1 DEF Held, InTree
  <2>4. \A b \in Heads : Held(End(b))
    <3>1. \A b \in Blocks : b = 1 \/ b = 2 \/ b = 3
      BY <1>3
    <3> QED BY <1>1, <1>8, <2>3, <3>1
  <2> QED BY <1>10, <2>4 DEF HeldOK
<1>15. WalkOK /\ HomesOK /\ GuardsOK
  BY <1>10 DEF WalkOK, HomesOK, GuardsOK, InChunks, Taken
<1> QED BY <1>5, <1>6, <1>11, <1>13, <1>14, <1>15 DEF MemInv

LEMMA IdleMem ==
  ASSUME IdInv, IdInv', MemInv,
         UNCHANGED <<tail, next, freed, heap, table, retired, todo, pc, call, chunk, popped>>
  PROVE  MemInv'
<1>1. Blocks' = Blocks /\ \A u \in Threads : Quiet(u)
  BY DEF Blocks, Quiet
<1> QED BY <1>1, MovesInv

-----------------------------------------------------------------------------
(* What a call posts.                                                       *)
New == Pointers' \ Pointers

(* A call that posts something and leaves with garbage G: the new nodes are *)
(* on top of what was in the tree, and what leaves the tree is in G.        *)
Grown(t, G) ==
  /\ pc[t] = "cas" /\ Leave(t, G) /\ G \subseteq Pointers' /\ Grows /\ todo' = todo /\ freed' = freed
  /\ \A b \in Blocks : next'[b] = next[b]
  /\ \A b \in Blocks' \ Blocks : next'[b] = NoBlock /\ End(b) \in Pointers'
  /\ \A n \in New : IF IsRecord(n)' THEN t \in Taken /\ n = call[t].new /\ HomeOf(n)' = HomeOfCall(call[t])
                                    ELSE n[1] \notin Blocks
  /\ \A n \in New : n \in G \/ \E id \in Live' : table'[id] = n
  /\ \A n \in New : heap'[n].child # Null =>
       \E id \in Live : /\ heap'[n].child = table[id] /\ ~Removed(id) /\ id \in Live' /\ table'[id] = n
                        /\ table[id] \notin G
  /\ \A n \in New : heap'[n].right # Null =>
       /\ heap'[n].child # Null
       /\ \E j \in Live : Removed(j) /\ heap'[n].right = heap[table[j]].child /\ table[j] \in G
  /\ \A n, m \in New : heap'[n].child # Null /\ heap'[m].child # Null => n = m
  /\ \A id \in Live : \/ table[id] \in G
                      \/ id \in Live' /\ table'[id] = table[id]
                      \/ id \in Live' /\ table'[id] \in New /\ heap'[table'[id]].child = table[id]
  /\ \A id \in Live' : /\ table'[id] \in New \/ (id \in Live /\ table'[id] = table[id])
                       /\ table'[id] \notin G
  /\ \A g \in G : g \in New \/ \E id \in Live : g = table[id]
  /\ \A i, j \in Live' : table'[i] = table'[j] /\ table'[i] \in New => i = j
  /\ \A g \in G : IsRemove(g)' =>
       heap'[g].child = Null \/ \E q \in Pointers' : heap'[q].right = heap'[g].child

(* What new nodes lead to was at the top of the tree.                       *)
LEMMA GrownKids ==
  ASSUME IdInv, IdInv', MemInv, NEW t \in Threads, NEW G, Grown(t, G)
  PROVE  /\ \A p \in Pointers : \A q : Kid(p, q)' <=> Kid(p, q)
         /\ \A n \in New : \A q : Kid(n, q)' =>
              /\ q \in Pointers /\ Kind(q) # "remove"
              /\ q = heap'[n].child => \E id \in Live : q = table[id] /\ ~Removed(id) /\ id \in Live' /\ table'[id] = n
                                                        /\ q \notin G
              /\ q = heap'[n].right => /\ ~Merged(q) /\ ~Uppermost(q)
                                       /\ \E j \in Live : Removed(j) /\ table[j] \in G /\ q = heap[table[j]].child
                                                          /\ table[j] \in Pointers
         /\ \A x : Merged(x)' <=> Merged(x) \/ \E n \in New : heap'[n].right = x
<1>1. ASSUME NEW p \in Pointers, NEW q PROVE Kid(p, q)' <=> Kid(p, q)
  BY DEF Kid, Grown, Grows
<1>2. \A x : Merged(x)' <=> Merged(x) \/ \E n \in New : heap'[n].right = x
  BY DEF Grown, Grows, Merged, New, Pointers
<1>3. ASSUME NEW n \in New, NEW q, Kid(n, q)'
      PROVE  /\ q \in Pointers /\ Kind(q) # "remove"
             /\ q = heap'[n].child => \E id \in Live : q = table[id] /\ ~Removed(id) /\ id \in Live' /\ table'[id] = n
                                                       /\ q \notin G
             /\ q = heap'[n].right => /\ ~Merged(q) /\ ~Uppermost(q)
                                      /\ \E j \in Live : Removed(j) /\ table[j] \in G /\ q = heap[table[j]].child
                                                         /\ table[j] \in Pointers
  <2>1. q # Null /\ (q = heap'[n].child \/ q = heap'[n].right)
    BY <1>3 DEF Kid
  <2>2. ASSUME q = heap'[n].child
        PROVE  \E id \in Live : /\ q = table[id] /\ ~Removed(id) /\ id \in Live' /\ table'[id] = n /\ q \notin G
                                /\ q \in Pointers /\ Kind(q) # "remove"
    <3>1. PICK id \in Live : q = table[id] /\ ~Removed(id) /\ id \in Live' /\ table'[id] = n /\ q \notin G
      BY <2>1, <2>2 DEF Grown
    <3>2. IsNode(table[id])
      BY <3>1, LiveIs DEF IdInv
    <3> QED BY <3>1, <3>2 DEF IsNode
  <2>3. ASSUME q = heap'[n].right
        PROVE  /\ ~Merged(q) /\ ~Uppermost(q) /\ q \in Pointers /\ Kind(q) # "remove"
               /\ \E j \in Live : Removed(j) /\ table[j] \in G /\ q = heap[table[j]].child /\ table[j] \in Pointers
    <3>1. PICK j \in Live : Removed(j) /\ q = heap[table[j]].child /\ table[j] \in G
      BY <2>1, <2>3 DEF Grown
    <3>2. table[j] \in Pointers /\ IsNode(q)
      BY <3>1, LiveIs DEF IdInv, TreeOK
    <3>3. ~Merged(q)
      BY <3>1 DEF MemInv, RootsOK
    <3>4. ~Uppermost(q)
      BY <2>1, <3>1, <3>2 DEF Uppermost, Kid
    <3> QED BY <3>1, <3>2, <3>3, <3>4 DEF IsNode
  <2> QED BY <2>1, <2>2, <2>3
<1> QED BY <1>1, <1>2, <1>3

LEMMA GrownFounded ==
  ASSUME IdInv, IdInv', MemInv, NEW t \in Threads, NEW G, Grown(t, G)
  PROVE  Founded'
<1>1. Pointers \subseteq Pointers'
  BY DEF Grown, Grows
<1>2. /\ \A p \in Pointers : \A q : Kid(p, q)' <=> Kid(p, q)
      /\ \A n \in New : \A q : Kid(n, q)' => q \in Pointers
  BY GrownKids
<1>3. \A p \in Pointers : \A q : Kid(p, q) => q \in Pointers
  BY KidsAre DEF IdInv
<1>4. ASSUME NEW S \in SUBSET Pointers', S # {} PROVE \E p \in S : \A q \in S : ~Kid(p, q)'
  <2>1. CASE S \cap Pointers = {}
    <3>1. PICK p \in S : p \in New
      BY <1>4, <2>1 DEF New
    <3> QED BY <1>2, <2>1, <3>1
  <2>2. CASE S \cap Pointers # {}
    <3> DEFINE T == S \cap Pointers
    <3>1. T \in SUBSET Pointers /\ T # {}
      BY <2>2
    <3>2. PICK p \in T : \A q \in T : ~Kid(p, q)
      <4> HIDE DEF T
      <4> QED BY <3>1, Zenon DEF MemInv, Founded
    <3> QED BY <1>2, <1>3, <3>2
  <2> QED BY <2>1, <2>2
<1> QED BY <1>4 DEF Founded

LEMMA GrownOnce ==
  ASSUME IdInv, IdInv', MemInv, NEW t \in Threads, NEW G, Grown(t, G)
  PROVE  KidsOnce'
<1>1. /\ Pointers' = Pointers \cup New /\ Grows /\ KidsOnce /\ Null \notin Pointers
      /\ \A n, m \in New : heap'[n].child # Null /\ heap'[m].child # Null => n = m
      /\ \A n \in New : heap'[n].right # Null => heap'[n].child # Null
  BY NullNowhere DEF Grown, Grows, New, MemInv, IdInv, Typed
<1>2. ASSUME NEW n \in New, heap'[n].child # Null
      PROVE  /\ Uppermost(heap'[n].child)
             /\ \A q \in Pointers : heap[q].child # heap'[n].child /\ heap[q].right # heap'[n].child
  <2>1. PICK x : x = heap'[n].child /\ x # Null
    BY <1>2
  <2>2. PICK id \in Live : x = table[id]
    BY <1>2, <2>1 DEF Grown
  <2>3. Uppermost(x)
    BY <2>2 DEF MemInv, RootsOK
  <2> QED BY <2>1, <2>3 DEF Uppermost, Kid
<1>3. ASSUME NEW n \in New, heap'[n].right # Null
      PROVE  /\ ~Uppermost(heap'[n].right) /\ \A q \in Pointers : heap[q].right # heap'[n].right
             /\ \A q \in Pointers : heap[q].child = heap'[n].right => IsRemove(q)
  <2>1. PICK x : x = heap'[n].right /\ x # Null
    BY <1>3
  <2>2. Kid(n, x)'
    BY <2>1 DEF Kid
  <2>3. /\ ~Merged(x) /\ ~Uppermost(x) 
        /\ \E j \in Live : Removed(j) /\ table[j] \in G /\ x = heap[table[j]].child /\ table[j] \in Pointers
    BY <2>1, <2>2, GrownKids
  <2>4. \A q \in Pointers : heap[q].right # x
    BY <2>3 DEF Merged, Pointers
  <2>5. \A q \in Pointers : heap[q].child = x => IsRemove(q)
    BY <1>1, <2>1, <2>3 DEF KidsOnce, Removed, IsRemove
  <2> QED BY <2>1, <2>3, <2>4, <2>5
<1>4. \A p \in Pointers : heap'[p] = heap[p] /\ (IsRemove(p)' <=> IsRemove(p))
  BY <1>1 DEF Grows, IsRemove, Kind
<1>5. ASSUME NEW p \in Pointers', NEW q \in Pointers', heap'[p].child = heap'[q].child, heap'[p].child # Null
      PROVE  p = q
  BY <1>1, <1>2, <1>4, <1>5 DEF KidsOnce
<1>6. ASSUME NEW p \in Pointers', NEW q \in Pointers', heap'[p].right = heap'[q].right, heap'[p].right # Null
      PROVE  p = q
  <2>1. CASE p \in New /\ q \in New
    BY <1>1, <1>6, <2>1
  <2>2. CASE ~(p \in New /\ q \in New)
    BY <1>1, <1>3, <1>4, <1>6, <2>2 DEF KidsOnce
  <2> QED BY <2>1, <2>2
<1>7. ASSUME NEW p \in Pointers', NEW q \in Pointers', heap'[p].child = heap'[q].right, heap'[p].child # Null
      PROVE  IsRemove(p)'
  <2>1. CASE p \in New /\ q \in New
    BY <1>2, <1>3, <1>7, <2>1
  <2>2. CASE p \in New /\ q \in Pointers
    BY <1>2, <1>4, <1>7, <2>2
  <2>3. CASE p \in Pointers /\ q \in New
    BY <1>3, <1>4, <1>7, <2>3
  <2>4. CASE p \in Pointers /\ q \in Pointers
    BY <1>1, <1>4, <1>7, <2>4 DEF KidsOnce
  <2> QED BY <1>1, <2>1, <2>2, <2>3, <2>4
<1> QED BY <1>5, <1>6, <1>7 DEF KidsOnce

(* The remove record of which a merge takes over the branch. *)
Severed(g) ==
  /\ g \in Pointers /\ IsRemove(g) /\ heap[g].child # Null
  /\ \E n \in New : heap'[n].right = heap[g].child

(* What is under an old node is under it still, but for such a remove record. *)
LEMMA GrownUnder ==
  ASSUME IdInv, IdInv', MemInv, NEW t \in Threads, NEW G, Grown(t, G), NEW p \in Pointers
  PROVE  /\ Under'[p] \subseteq Under[p] /\ p \in Under'[p]
         /\ ~Severed(p) => Under'[p] = Under[p]
<1>1. /\ Pointers \subseteq Pointers' /\ HeapOK /\ HeapOK' /\ Founded /\ Founded'
      /\ \A q \in Pointers : heap'[q] = heap[q] /\ (IsRemove(q)' <=> IsRemove(q))
  BY GrownFounded DEF Grown, Grows, IdInv, MemInv, IsRemove, Kind
<1>2. \A x : Merged(x)' <=> Merged(x) \/ \E n \in New : heap'[n].right = x
  BY GrownKids
<1>3. \A q \in Pointers : \A c : Link(q, c)' => Link(q, c)
  BY <1>1, <1>2 DEF Link, Cut
<1>4. \A q \in Pointers : ~Severed(q) => \A c : Link(q, c) => Link(q, c)'
  BY <1>1, <1>2 DEF Link, Cut, Severed
<1>5. /\ p \in Under[p] /\ Under[p] \subseteq Pointers
      /\ \A q \in Under[p] : \A c : Link(q, c) => c \in Under[p]
      /\ \A S : p \in S /\ (\A q \in Pointers : \A c : q \in S /\ Link(q, c) => c \in S) => Under[p] \subseteq S
  BY <1>1, UnderNow DEF UnderFact
<1>6. /\ p \in Under'[p] /\ p \in Pointers'
      /\ \A q \in Under'[p] : \A c : Link(q, c)' => c \in Under'[p]
      /\ \A S : p \in S /\ (\A q \in Pointers' : \A c : q \in S /\ Link(q, c)' => c \in S) => Under'[p] \subseteq S
  BY <1>1, UnderThen DEF UnderFact
<1>7. Under'[p] \subseteq Under[p]
  <2>1. PICK S : S = Under[p]
    OBVIOUS
  <2>2. \A q \in Pointers' : \A c : q \in S /\ Link(q, c)' => c \in S
    BY <1>3, <1>5, <2>1
  <2> QED BY <1>5, <1>6, <2>1, <2>2
<1>8. ASSUME ~Severed(p) PROVE Under[p] \subseteq Under'[p]
  <2>1. \A q \in Under[p] : ~Severed(q)
    <3>1. \A q \in Under[p] : Kind(q) = "remove" => q = p
      BY <1>1, RemoveUppermost
    <3> QED BY <1>8, <3>1 DEF Severed, IsRemove
  <2>2. PICK S : S = Under[p] \cap Under'[p]
    OBVIOUS
  <2>3. p \in S /\ \A q \in Pointers : \A c : q \in S /\ Link(q, c) => c \in S
    BY <1>4, <1>5, <1>6, <2>1, <2>2
  <2>4. Under[p] \subseteq S
    BY <1>5, <2>3
  <2> QED BY <2>2, <2>4
<1> QED BY <1>6, <1>7, <1>8

LEMMA SeveredIs ==
  ASSUME IdInv, IdInv', MemInv, NEW t \in Threads, NEW G, Grown(t, G), NEW g, Severed(g)
  PROVE  /\ g \in G /\ \E j \in Live : g = table[j] /\ Removed(j)
         /\ heap[g].child \in Pointers /\ ~Severed(heap[g].child)
         /\ \A x \in Under[g] : x = g \/ x \in Under[heap[g].child]
<1>1. PICK n \in New : heap'[n].right = heap[g].child
  BY DEF Severed
<1>2. PICK r : r = heap[g].child
  OBVIOUS
<1>3. Kid(n, r)' /\ g \in Pointers /\ r # Null /\ IsRemove(g)
  BY <1>1, <1>2 DEF Severed, Kid
<1>4. /\ r \in Pointers /\ Kind(r) # "remove"
      /\ \E j \in Live : Removed(j) /\ table[j] \in G /\ r = heap[table[j]].child /\ table[j] \in Pointers
  BY <1>1, <1>2, <1>3, GrownKids
<1>5. PICK j \in Live : Removed(j) /\ table[j] \in G /\ r = heap[table[j]].child /\ table[j] \in Pointers
  BY <1>4
<1>6. g = table[j]
  BY <1>2, <1>3, <1>5 DEF MemInv, KidsOnce
<1>7. \A c : Link(g, c) => c = r
  <2>1. heap[g].right = Null
    BY <1>3 DEF IdInv, HeapOK, NodeOK, IsRemove, Kind
  <2> QED BY <1>2, <2>1 DEF Link
<1>8. \A x : x \in Under[g] <=> x = g \/ \E c : Link(g, c) /\ x \in Under[c]
  BY <1>3, UnderNow DEF UnderFact, IdInv, MemInv
<1> QED BY <1>2, <1>4, <1>5, <1>6, <1>7, <1>8 DEF Severed, IsRemove

(* A branch of a branch, before and after a step.                           *)
PartFact == HeapOK /\ Founded => \A p \in Pointers : \A q \in Under[p] : q \in Pointers /\ Under[q] \subseteq Under[p]

LEMMA PartNow == PartFact
BY UnderPart DEF PartFact

LEMMA PartThen == PartFact'
BY PartNow, PTL

(* No new node stands on a branch that has been taken over. *)
LEMMA GrownCut ==
  ASSUME IdInv, IdInv', MemInv, NEW t \in Threads, NEW G, Grown(t, G), NEW n \in New, heap'[n].child # Null
  PROVE  ~Cut(n)'
<1>1. PICK x : x = heap'[n].child /\ x # Null
  OBVIOUS
<1>2. Kid(n, x)'
  BY <1>1 DEF Kid
<1>3. PICK id \in Live : x = table[id]
  BY <1>1, <1>2, GrownKids
<1>4. Uppermost(x)
  BY <1>3 DEF MemInv, RootsOK
<1>5. ~Merged(x)
  BY <1>1, <1>4 DEF Uppermost, Kid, Merged, Pointers
<1>6. ASSUME NEW m \in New, heap'[m].right = x PROVE FALSE
  <2>1. Kid(m, x)'
    BY <1>1, <1>6 DEF Kid
  <2> QED BY <1>4, <1>6, <2>1, GrownKids
<1>7. ~Merged(x)'
  BY <1>5, <1>6, GrownKids
<1> QED BY <1>1, <1>7 DEF Cut

(* What is in the tree, or in G from now on. *)
Kept(G, x) == InTree(x)' \/ \E g \in G : x \in Under'[g]

(* Nothing gets out of the tree but into the garbage.                       *)
LEMMA GrownCover ==
  ASSUME IdInv, IdInv', MemInv, NEW t \in Threads, NEW G, Grown(t, G)
  PROVE  /\ \A x \in Pointers : InTree(x) <=> Kept(G, x)
         /\ \A x \in New : Kept(G, x)
<1>1. /\ \A p \in Pointers : /\ Under'[p] \subseteq Under[p] /\ p \in Under'[p]
                             /\ ~Severed(p) => Under'[p] = Under[p]
  BY GrownUnder
<1>2. \A id \in Live : table[id] \in Pointers
  BY LiveIs DEF IdInv
<1>3. /\ \A id \in Live' : table'[id] \in Pointers'
      /\ Pointers' = Pointers \cup New /\ G \subseteq Pointers' /\ HeapOK' /\ Founded'
      /\ Pointers \subseteq Pointers'
  <2>1. \A id \in Live' : table'[id] \in Pointers'
    BY DEF IdInv, PointersOK, Live
  <2>2. Pointers \subseteq Pointers' /\ G \subseteq Pointers'
    BY DEF Grown, Grows
  <2> QED BY <2>1, <2>2, GrownFounded DEF IdInv, New
<1>4. \A p \in Pointers' : /\ p \in Under'[p]
                           /\ \A x : x \in Under'[p] <=> x = p \/ \E c : Link(p, c)' /\ x \in Under'[c]
                           /\ \A q \in Under'[p] : Under'[q] \subseteq Under'[p]
  <2>1. \A p \in Pointers' : /\ p \in Under'[p]
                           /\ \A x : x \in Under'[p] <=> x = p \/ \E c : Link(p, c)' /\ x \in Under'[c]
    BY <1>3, UnderThen DEF UnderFact
  <2> QED BY <1>3, <2>1, PartThen DEF PartFact
<1>5. ASSUME NEW x \in New PROVE Kept(G, x)
  <2>1. x \in G \/ \E id \in Live' : table'[id] = x
    BY DEF Grown
  <2>2. x \in Under'[x]
    BY <1>3, <1>4
  <2> QED BY <2>1, <2>2 DEF Kept, InTree
<1>6. ASSUME NEW n \in New, NEW c, Link(n, c)', NEW x \in Under'[c] PROVE InTree(x)
  <2>1. Kid(n, c)'
    BY <1>6 DEF Link, Kid
  <2>2. c \in Pointers
    BY <2>1, GrownKids
  <2>3. x \in Under[c]
    BY <1>1, <1>6, <2>2
  <2>4. CASE c = heap'[n].child
    BY <2>1, <2>3, <2>4, GrownKids DEF InTree
  <2>5. CASE c = heap'[n].right
    <3>1. ~Merged(c) /\ \E j \in Live : Removed(j) /\ c = heap[table[j]].child /\ table[j] \in Pointers
      BY <2>1, <2>5, GrownKids
    <3>2. PICK j \in Live : Removed(j) /\ c = heap[table[j]].child /\ table[j] \in Pointers
      BY <3>1
    <3>3. Link(table[j], c)
      BY <2>1, <3>1, <3>2 DEF Link, Cut, Kid
    <3>4. x \in Under[table[j]]
      BY <2>3, <3>2, <3>3, UnderNow DEF UnderFact, IdInv, MemInv
    <3> QED BY <3>4 DEF InTree
  <2> QED BY <2>1, <2>4, <2>5 DEF Kid
<1>7. ASSUME NEW x \in Pointers, NEW n \in New, x \in Under'[n] PROVE InTree(x)
  <2>1. x # n
    BY DEF New
  <2>2. PICK c : Link(n, c)' /\ x \in Under'[c]
    BY <1>3, <1>4, <1>7, <2>1
  <2> QED BY <1>6, <2>2
<1>8. ASSUME NEW x \in Pointers, Kept(G, x) PROVE InTree(x)
  <2>1. ASSUME NEW id \in Live', x \in Under'[table'[id]] PROVE InTree(x)
    <3>1. CASE table'[id] \in New
      BY <1>7, <2>1, <3>1
    <3>2. CASE table'[id] \notin New
      <4>1. id \in Live /\ table'[id] = table[id]
        BY <3>2 DEF Grown
      <4> QED BY <1>1, <1>2, <2>1, <4>1 DEF InTree
    <3> QED BY <3>1, <3>2
  <2>2. ASSUME NEW g \in G, x \in Under'[g] PROVE InTree(x)
    <3>1. CASE g \in New
      BY <1>7, <2>2, <3>1
    <3>2. CASE g \notin New
      <4>1. PICK id \in Live : g = table[id]
        BY <3>2 DEF Grown
      <4> QED BY <1>1, <1>2, <2>2, <4>1 DEF InTree
    <3> QED BY <3>1, <3>2
  <2> QED BY <1>8, <2>1, <2>2 DEF Kept, InTree
<1>9. ASSUME NEW n \in New, NEW x \in Under'[n] PROVE Kept(G, x)
  <2>1. n \in G \/ \E id \in Live' : table'[id] = n
    BY DEF Grown
  <2> QED BY <1>9, <2>1 DEF Kept, InTree
<1>10. ASSUME NEW x \in Pointers, InTree(x) PROVE Kept(G, x)
  <2>1. PICK id \in Live : x \in Under[table[id]]
    BY <1>10 DEF InTree
  <2>2. CASE table[id] \in G
    <3>1. CASE ~Severed(table[id])
      BY <1>1, <1>2, <2>1, <2>2, <3>1 DEF Kept
    <3>2. CASE Severed(table[id])
      <4>1. PICK r : r = heap[table[id]].child
        OBVIOUS
      <4>2. PICK n \in New : heap'[n].right = r /\ r # Null
        BY <3>2, <4>1 DEF Severed
      <4>3. r \in Pointers /\ ~Severed(r) /\ (x = table[id] \/ x \in Under[r])
        BY <2>1, <3>2, <4>1, SeveredIs
      <4>4. CASE x = table[id]
        BY <1>1, <2>2, <4>4 DEF Kept
      <4>5. CASE x \in Under[r]
        <5>1. x \in Under'[r]
          BY <1>1, <4>3, <4>5
        <5>2. Link(n, r)'
          BY <4>2 DEF Link
        <5>3. x \in Under'[n]
          BY <1>3, <1>4, <5>1, <5>2
        <5> QED BY <1>9, <5>3
      <4> QED BY <4>3, <4>4, <4>5
    <3> QED BY <3>1, <3>2
  <2>3. CASE table[id] \notin G
    <3>1. ~Severed(table[id])
      BY <2>3, SeveredIs
    <3>2. x \in Under'[table[id]]
      BY <1>1, <1>2, <2>1, <3>1
    <3>3. CASE id \in Live' /\ table'[id] = table[id]
      BY <3>2, <3>3 DEF Kept, InTree
    <3>4. CASE id \in Live' /\ table'[id] \in New /\ heap'[table'[id]].child = table[id]
      <4>1. PICK n, y : n \in New /\ n = table'[id] /\ heap'[n].child = y /\ y = table[id]
        BY <3>4
      <4>2. y # Null
        BY <4>1 DEF Live
      <4>3. ~Cut(n)'
        BY <4>1, <4>2, GrownCut
      <4>4. Link(n, y)'
        BY <4>1, <4>2, <4>3 DEF Link
      <4>5. x \in Under'[n]
        BY <1>3, <1>4, <3>2, <4>1, <4>4
      <4> QED BY <1>9, <4>1, <4>5
    <3> QED BY <2>3, <3>3, <3>4 DEF Grown
  <2> QED BY <2>2, <2>3
<1> QED BY <1>5, <1>8, <1>10

(* What waits for the cleaner after the call has left. *)
LEMMA GrownRetired ==
  ASSUME IdInv, IdInv', MemInv, NEW t \in Threads, NEW G, Grown(t, G)
  PROVE  /\ \A r \in retired' : \/ \E q \in retired : r = [q EXCEPT !.until = @ \ {t}] /\ r.ptr = q.ptr
                                \/ r.ptr \in G /\ r = [ptr |-> r.ptr, until |-> Inside \ {t}]
         /\ \A q \in retired : [q EXCEPT !.until = @ \ {t}] \in retired'
         /\ \A p \in G : [ptr |-> p, until |-> Inside \ {t}] \in retired'
         /\ \A q \in retired : /\ q.ptr \in Pointers /\ q.ptr \notin G /\ ~Severed(q.ptr)
                               /\ [q EXCEPT !.until = @ \ {t}].ptr = q.ptr
                               /\ [q EXCEPT !.until = @ \ {t}].until = q.until \ {t}
         /\ pc'[t] = "out" /\ call'[t] = NoCall /\ \A u \in Threads \ {t} : Quiet(u)
<1>1. G \in SUBSET Pairs /\ Typed /\ retired \subseteq [ptr : Pairs, until : SUBSET Threads]
  BY DEF Grown, IdInv, HeapOK, NodeOK, Typed, CleanTyped
<1>2. Leave(t, G)
  BY DEF Grown
<1>3. /\ \A r \in retired' : \/ \E q \in retired : r = [q EXCEPT !.until = @ \ {t}] /\ r.ptr = q.ptr
                             \/ r.ptr \in G /\ r = [ptr |-> r.ptr, until |-> Inside \ {t}]
      /\ pc'[t] = "out" /\ call'[t] = NoCall /\ \A u \in Threads \ {t} : Quiet(u)
  BY <1>1, <1>2, LeaveIs
<1>4. \A q \in retired : [q EXCEPT !.until = @ \ {t}] \in retired'
  BY <1>2 DEF Leave
<1>5. ASSUME NEW p \in G PROVE [ptr |-> p, until |-> Inside \ {t}] \in retired'
  <2>1. Garbage(p) \in {Garbage(q) : q \in G}
    OBVIOUS
  <2>2. [Garbage(p) EXCEPT !.until = @ \ {t}] \in retired'
    BY <1>2, <2>1 DEF Leave
  <2> QED BY <2>2 DEF Garbage
<1>6. ASSUME NEW q \in retired
      PROVE  /\ q.ptr \in Pointers /\ q.ptr \notin G /\ ~Severed(q.ptr)
             /\ [q EXCEPT !.until = @ \ {t}].ptr = q.ptr
             /\ [q EXCEPT !.until = @ \ {t}].until = q.until \ {t}
  <2>1. q.ptr \in Pointers /\ q.ptr \notin New
    BY DEF IdInv, PointersOK, Dead, New
  <2>2. \A id \in Live : q.ptr # table[id]
    BY DEF MemInv, RootsOK
  <2>3. q.ptr \notin G
    BY <2>1, <2>2 DEF Grown
  <2> QED BY <1>1, <2>1, <2>3, SeveredIs
<1> QED BY <1>3, <1>4, <1>5, <1>6

(* The roots after the call.                                                *)
LEMMA GrownUppermost ==
  ASSUME IdInv, IdInv', MemInv, NEW t \in Threads, NEW G, Grown(t, G)
  PROVE  /\ \A n \in New : Uppermost(n)'
         /\ \A x \in Pointers : Uppermost(x) =>
              Uppermost(x)' \/ (\E id \in Live : x = table[id] /\ table'[id] \in New /\ id \in Live' /\ x \notin G)
<1>1. /\ Pointers' = Pointers \cup New /\ \A p \in Pointers : \A q : Kid(p, q)' <=> Kid(p, q)
      /\ \A n \in New : \A q : Kid(n, q)' => q \in Pointers
      /\ \A p \in Pointers : \A q : Kid(p, q) => q \in Pointers
  BY GrownKids, KidsAre DEF Grown, Grows, New, IdInv
<1>2. \A n \in New : n \notin Pointers
  BY DEF New
<1>3. ASSUME NEW x \in Pointers, Uppermost(x), NEW n \in New, Kid(n, x)'
      PROVE  \E id \in Live : x = table[id] /\ table'[id] \in New /\ id \in Live' /\ x \notin G
  <2>1. x = heap'[n].child
    BY <1>3, GrownKids DEF Kid
  <2> QED BY <1>3, <2>1, GrownKids
<1> QED BY <1>1, <1>2, <1>3 DEF Uppermost

(* No pointer is Null, before and after a step.                             *)
NullFact == HeapOK /\ MemTyped => Null \notin Pointers

LEMMA NullNow == NullFact
BY NullNowhere DEF NullFact

LEMMA NullThen == NullFact'
BY NullNow, PTL

LEMMA GrownRoots ==
  ASSUME IdInv, IdInv', MemInv, NEW t \in Threads, NEW G, Grown(t, G)
  PROVE  RootsOK'
<1> USE DEF MemInv
<1>1. /\ \A r \in retired' : \/ \E q \in retired : r = [q EXCEPT !.until = @ \ {t}] /\ r.ptr = q.ptr
                             \/ r.ptr \in G /\ r = [ptr |-> r.ptr, until |-> Inside \ {t}]
      /\ \A q \in retired : q.ptr \in Pointers /\ q.ptr \notin G
  BY GrownRetired
<1>2. /\ \A id \in Live' : /\ table'[id] \in New \/ (id \in Live /\ table'[id] = table[id])
                           /\ table'[id] \notin G
      /\ \A g \in G : g \in New \/ \E id \in Live : g = table[id]
      /\ \A i, j \in Live' : table'[i] = table'[j] /\ table'[i] \in New => i = j
      /\ \A id \in Live : table[id] \in Pointers
      /\ Pointers' = Pointers \cup New /\ \A n \in New : n \notin Pointers
  BY LiveIs DEF Grown, Grows, New, IdInv
<1>3. \A n \in New : Uppermost(n)'
  BY GrownUppermost
<1>5. ASSUME NEW x \in Pointers, Uppermost(x), \A id \in Live : x = table[id] => table'[id] \notin New \/ x \in G \/ id \notin Live'
      PROVE  Uppermost(x)'
  BY <1>5, GrownUppermost
<1>6. \A i, j \in Live : table[i] = table[j] => i = j
  BY DEF RootsOK
<1>7. ASSUME NEW id \in Live' PROVE \E x : x = table'[id] /\ Uppermost(x)'
  <2>1. CASE table'[id] \in New
    BY <1>3, <2>1
  <2>2. CASE table'[id] \notin New
    <3>1. PICK x : x = table[id] /\ x = table'[id] /\ id \in Live
      BY <1>2, <2>2
    <3>2. Uppermost(x) /\ x \in Pointers
      BY <1>2, <3>1 DEF RootsOK
    <3>3. Uppermost(x)'
      BY <1>5, <1>6, <2>2, <3>1, <3>2
    <3> QED BY <3>1, <3>3
  <2> QED BY <2>1, <2>2
<1>8. ASSUME NEW r \in retired' PROVE \E x : x = r.ptr /\ Uppermost(x)'
  <2>1. CASE r.ptr \in New
    BY <1>3, <2>1
  <2>2. CASE r.ptr \notin New /\ r.ptr \in G
    <3>1. PICK id \in Live : r.ptr = table[id]
      BY <1>2, <2>2
    <3>2. Uppermost(table[id]) /\ table[id] \in Pointers
      BY <1>2 DEF RootsOK
    <3>3. PICK x : x = r.ptr /\ x = table[id]
      BY <3>1
    <3>4. Uppermost(x)'
      BY <1>5, <2>2, <3>2, <3>3
    <3> QED BY <3>3, <3>4
  <2>3. CASE r.ptr \notin G
    <3>1. PICK q \in retired : r.ptr = q.ptr
      BY <1>1, <2>3
    <3>2. PICK x : x = q.ptr /\ x = r.ptr
      BY <3>1
    <3>3. Uppermost(x) /\ x \in Pointers /\ \A id \in Live : x # table[id]
      BY <1>1, <3>1, <3>2 DEF RootsOK
    <3>4. Uppermost(x)'
      BY <1>5, <3>3
    <3> QED BY <3>2, <3>4
  <2> QED BY <2>1, <2>2, <2>3
<1>9. \A i, j \in Live' : table'[i] = table'[j] => i = j
  BY <1>2, <1>6
<1>10. ASSUME NEW r \in retired', NEW s \in retired', r.ptr = s.ptr PROVE r = s
  <2>1. \A q, p \in retired : q.ptr = p.ptr => q = p
    BY DEF RootsOK
  <2>2. CASE r.ptr \in G
    <3>1. r = [ptr |-> r.ptr, until |-> Inside \ {t}]
      BY <1>1, <2>2
    <3>2. s = [ptr |-> s.ptr, until |-> Inside \ {t}]
      BY <1>1, <1>10, <2>2
    <3> QED BY <1>10, <3>1, <3>2, Zenon
  <2>3. CASE r.ptr \notin G
    BY <1>1, <1>10, <2>1, <2>3
  <2> QED BY <2>2, <2>3
<1>11. ASSUME NEW id \in Live', NEW r \in retired' PROVE table'[id] # r.ptr
  <2>1. CASE r.ptr \in G
    BY <1>2, <2>1
  <2>2. CASE r.ptr \notin G
    <3>1. PICK q \in retired : r.ptr = q.ptr /\ q.ptr \in Pointers
      BY <1>1, <2>2
    <3>2. CASE table'[id] \in New
      BY <1>2, <3>1, <3>2
    <3>3. CASE table'[id] \notin New
      BY <1>2, <3>1, <3>3 DEF RootsOK
    <3> QED BY <3>2, <3>3
  <2> QED BY <2>1, <2>2
<1>12. ASSUME NEW id \in Live', Removed(id)' PROVE \E x : x = heap'[table'[id]].child /\ ~Merged(x)'
  <2>1. PICK n : n = table'[id] /\ n \in Pointers'
    BY <1>2
  <2>2. heap'[n].child \in Pointers' /\ Null \notin Pointers' /\ IsRemove(n)'
    <3>1. IsNode(heap[table[id]].child)'
      BY <1>12 DEF IdInv, TreeOK
    <3>2. Null \notin Pointers'
      BY NullThen DEF NullFact, IdInv, Typed
    <3> QED BY <1>12, <2>1, <3>1, <3>2 DEF IsNode, Removed, IsRemove
  <2>3. CASE n \in New
    <3>1. ~Cut(n)'
      BY <2>2, <2>3, GrownCut
    <3> QED BY <2>1, <2>2, <3>1 DEF Cut
  <2>4. CASE n \notin New
    <3>1. n = table[id] /\ id \in Live /\ n \notin G /\ n \in Pointers
      BY <1>2, <2>1, <2>4
    <3>2. PICK x : x = heap[n].child /\ x = heap'[n].child /\ IsRemove(n) /\ x # Null
      BY <2>2, <3>1 DEF Grown, Grows, IsRemove, Kind
    <3>3. ~Merged(x)
      BY <3>1, <3>2, LiveIs DEF RootsOK, Removed, IsRemove, IdInv
    <3>4. ~Severed(n)
      BY <3>1, SeveredIs
    <3>5. \A m \in New : heap'[m].right # x
      BY <3>1, <3>2, <3>4 DEF Severed
    <3>6. ~Merged(x)'
      BY <3>3, <3>5, GrownKids
    <3> QED BY <2>1, <3>2, <3>6
  <2> QED BY <2>3, <2>4
<1>13. ASSUME NEW p \in Dead', IsRemove(p)' PROVE \E x : x = heap'[p].child /\ (x = Null \/ Merged(x)')
  <2>1. CASE p \in G
    BY <1>13, <2>1 DEF Grown, Merged, Pointers
  <2>2. CASE p \notin G
    <3>1. p \in Dead
      BY <1>1, <2>2 DEF Dead, Grown
    <3>2. p \in Pointers
      BY <3>1 DEF IdInv, PointersOK
    <3>3. PICK x : x = heap[p].child /\ x = heap'[p].child /\ IsRemove(p)
      BY <1>13, <3>2 DEF Grown, Grows, IsRemove, Kind
    <3>4. x = Null \/ Merged(x)
      BY <3>1, <3>3 DEF RootsOK
    <3> QED BY <3>3, <3>4, GrownKids
  <2> QED BY <2>1, <2>2
<1> QED BY <1>7, <1>8, <1>9, <1>10, <1>11, <1>12, <1>13 DEF RootsOK, Uppermost, Merged

(* What the cleaner has in its hands.                                       *)
LEMMA WalkPointers ==
  ASSUME IdInv, MemInv
  PROVE  /\ \A i \in DOMAIN todo : /\ todo[i].ptr \in Pointers /\ Of(i) \in Pointers
                                   /\ todo[i].right => /\ Kind(todo[i].ptr) = "merge"
                                                       /\ IsNode(heap[todo[i].ptr].child)
                                                       /\ IsNode(heap[todo[i].ptr].right)
                                                       /\ Link(todo[i].ptr, heap[todo[i].ptr].right)
         /\ todo # <<>> => \E g \in Pointers : Root(g) /\ \A i \in DOMAIN todo :
                              todo[i].ptr \in Under[g] /\ Of(i) \in Under[g]
<1>1. \A p \in Dead : p \in Pointers /\ NodeOK(p)
  BY DEF IdInv, PointersOK, HeapOK
<1>2. \A i \in DOMAIN todo : todo[i].ptr \in Dead /\ (todo[i].right => Kind(todo[i].ptr) = "merge")
  BY DEF Dead, IdInv, PointersOK
<1>3. ASSUME NEW i \in DOMAIN todo
      PROVE  /\ todo[i].ptr \in Pointers /\ Of(i) \in Pointers
             /\ todo[i].right => /\ Kind(todo[i].ptr) = "merge"
                                 /\ IsNode(heap[todo[i].ptr].child)
                                 /\ IsNode(heap[todo[i].ptr].right)
                                 /\ Link(todo[i].ptr, heap[todo[i].ptr].right)
  <2>1. Null \notin Pointers
    BY NullNowhere DEF IdInv, Typed
  <2>2. ASSUME todo[i].right
        PROVE  IsNode(heap[todo[i].ptr].child) /\ IsNode(heap[todo[i].ptr].right)
    BY <1>1, <1>2, <2>2 DEF NodeOK, Kind
  <2> QED BY <1>1, <1>2, <2>1, <2>2 DEF Of, IsNode, Link
<1>4. ASSUME todo # <<>>
      PROVE  \E g \in Pointers : Root(g) /\ \A i \in DOMAIN todo : todo[i].ptr \in Under[g] /\ Of(i) \in Under[g]
  <2>1. PICK g \in Pointers : Root(g) /\ \A i \in DOMAIN todo : todo[i].ptr \in Under[g]
    BY <1>4 DEF MemInv, WalkOK
  <2>2. \A q \in Under[g] : \A c : Link(q, c) => c \in Under[g]
    BY <2>1, UnderNow DEF UnderFact, IdInv, MemInv
  <2>3. \A i \in DOMAIN todo : Of(i) \in Under[g]
    BY <1>3, <2>1, <2>2 DEF Of
  <2> QED BY <2>1, <2>3
<1> QED BY <1>3, <1>4

(* The call does not touch what the cleaner is in.                          *)
LEMMA GrownWalk ==
  ASSUME IdInv, IdInv', MemInv, NEW t \in Threads, NEW G, Grown(t, G)
  PROVE  /\ WalkOK'
         /\ \A i \in DOMAIN todo : Of(i)' = Of(i) /\ Under'[Of(i)] = Under[Of(i)]
<1>1. todo # <<>> => \E g \in Pointers : Root(g) /\ \A i \in DOMAIN todo :
                         todo[i].ptr \in Under[g] /\ Of(i) \in Under[g]
  BY WalkPointers
<1>10. \A i \in DOMAIN todo : todo[i].ptr \in Pointers /\ Of(i) \in Pointers
  BY WalkPointers
<1>11. \A i \in DOMAIN todo : todo[i].right => IsNode(heap[todo[i].ptr].child)
  BY WalkPointers
<1>2. /\ todo' = todo /\ \A p \in Pointers : heap'[p] = heap[p]
      /\ Pointers \subseteq Pointers'
  BY DEF Grown, Grows
<1>3. ASSUME NEW i \in DOMAIN todo PROVE Of(i)' = Of(i)
  <2>1. todo[i].ptr \in Pointers
    BY <1>10
  <2>2. heap'[todo[i].ptr] = heap[todo[i].ptr]
    BY <1>2, <2>1
  <2> QED BY <1>2, <2>2 DEF Of
<1>4. \A p \in Pointers : ~Severed(p) => Under'[p] = Under[p]
  BY GrownUnder
<1>5. ASSUME NEW g \in Pointers, Root(g)
      PROVE  Root(g)' /\ Under'[g] = Under[g] /\ \A x \in Under[g] : ~Severed(x)
  <2>1. \A id \in Live : g # table[id]
    BY <1>5 DEF Root
  <2>2. ~Severed(g)
    BY <2>1, SeveredIs
  <2>3. Uppermost(g)'
    BY <1>5, <2>1, GrownUppermost DEF Root
  <2>4. g \notin New
    BY DEF New
  <2>5. \A id \in Live' : g # table'[id]
    BY <2>1, <2>4 DEF Grown
  <2>6. g \notin G
    BY <2>1, <2>4 DEF Grown
  <2>7. \A r \in retired' : g # r.ptr
    BY <1>5, <2>6, GrownRetired DEF Root
  <2>8. \A x \in Under[g] : Kind(x) = "remove" => x = g
    BY RemoveUppermost DEF IdInv, MemInv
  <2>9. \A x \in Under[g] : ~Severed(x)
    BY <2>2, <2>8 DEF Severed, IsRemove
  <2> QED BY <1>2, <1>4, <2>2, <2>3, <2>5, <2>7, <2>9 DEF Root
<1>6. \A i \in DOMAIN todo : Under'[Of(i)] = Under[Of(i)]
  <2>1. ASSUME NEW i \in DOMAIN todo PROVE ~Severed(Of(i))
    <3>1. todo # <<>>
      BY DEF IdInv, Typed, CleanTyped
    <3>2. PICK g \in Pointers : Root(g) /\ Of(i) \in Under[g]
      BY <1>1, <3>1
    <3> QED BY <1>5, <3>2
  <2>2. ASSUME NEW i \in DOMAIN todo PROVE Under'[Of(i)] = Under[Of(i)]
    <3>1. PICK x \in Pointers : x = Of(i)
      BY <1>10
    <3>2. ~Severed(x)
      BY <2>1, <3>1
    <3> QED BY <1>4, <3>1, <3>2
  <2> QED BY <2>2
<1>7. todo' # <<>> => \E g \in Pointers' : Root(g)' /\ \A i \in DOMAIN todo' : todo'[i].ptr \in Under'[g]
  <2> SUFFICES ASSUME todo # <<>>
               PROVE  \E g \in Pointers' : Root(g)' /\ \A i \in DOMAIN todo : todo[i].ptr \in Under'[g]
    BY <1>2
  <2>1. PICK g \in Pointers : Root(g) /\ \A i \in DOMAIN todo : todo[i].ptr \in Under[g]
    BY <1>1
  <2>2. Root(g)' /\ Under'[g] = Under[g]
    BY <1>5, <2>1
  <2> QED BY <1>2, <2>1, <2>2
<1>8. ASSUME NEW i \in DOMAIN todo, NEW j \in DOMAIN todo, i < j
      PROVE  Of(i)' \in Under'[heap'[todo[j].ptr].child]
  <2>1. j # 1
    BY <1>8 DEF IdInv, Typed, CleanTyped
  <2>2. todo[j].right /\ Of(i) \in Under[heap[todo[j].ptr].child]
    BY <1>8, <2>1 DEF MemInv, WalkOK
  <2>3. PICK x : x = heap[todo[j].ptr].child /\ x \in Pointers /\ Kind(x) # "remove"
    <3>1. IsNode(heap[todo[j].ptr].child)
      BY <1>11, <2>2
    <3> QED BY <3>1 DEF IsNode
  <2>4. Under'[x] = Under[x]
    BY <1>4, <2>3 DEF Severed, IsRemove
  <2>5. x = heap'[todo[j].ptr].child
    <3>1. todo[j].ptr \in Pointers
      BY <1>10
    <3> QED BY <1>2, <2>3, <3>1
  <2> QED BY <1>3, <2>2, <2>3, <2>4, <2>5
<1>9. WalkOK'
  <2>1. \A i \in DOMAIN todo' : i # 1 => todo'[i].right
    BY <1>2 DEF MemInv, WalkOK
  <2>2. \A i, j \in DOMAIN todo' : i < j => Of(i)' \in Under'[heap'[todo'[j].ptr].child]
    BY <1>2, <1>8
  <2> QED BY <1>7, <2>1, <2>2 DEF WalkOK
<1> QED BY <1>3, <1>6, <1>9

(* Everything has the holder it had, or a new one.                          *)
LEMMA GrownHeld ==
  ASSUME IdInv, IdInv', MemInv, NEW t \in Threads, NEW G, Grown(t, G)
  PROVE  /\ \A x \in Pointers : Held(x)' <=> Held(x)
         /\ \A x \in New : Held(x)'
         /\ \A x \in Pointers : \A u \in Threads \ {t} : u \in Inside /\ Guarded(u, x) => Guarded(u, x)'
<1>1. /\ \A r \in retired' : \/ \E q \in retired : r = [q EXCEPT !.until = @ \ {t}] /\ r.ptr = q.ptr
                             \/ r.ptr \in G /\ r = [ptr |-> r.ptr, until |-> Inside \ {t}]
      /\ \A q \in retired : [q EXCEPT !.until = @ \ {t}] \in retired'
      /\ \A p \in G : [ptr |-> p, until |-> Inside \ {t}] \in retired'
      /\ \A q \in retired : /\ q.ptr \in Pointers /\ q.ptr \notin G /\ ~Severed(q.ptr)
                            /\ [q EXCEPT !.until = @ \ {t}].ptr = q.ptr
                            /\ [q EXCEPT !.until = @ \ {t}].until = q.until \ {t}
  BY GrownRetired
<1>2. \A q \in retired : Under'[q.ptr] = Under[q.ptr]
  BY <1>1, GrownUnder
<1>3. /\ todo' = todo /\ \A i \in DOMAIN todo : Of(i)' = Of(i) /\ Under'[Of(i)] = Under[Of(i)]
  BY GrownWalk DEF Grown
<1>4. \A x : (\E r \in retired' : x \in Under'[r.ptr])
               <=> (\E q \in retired : x \in Under[q.ptr]) \/ (\E g \in G : x \in Under'[g])
  <2>1. ASSUME NEW x, NEW q \in retired, x \in Under[q.ptr] PROVE \E r \in retired' : x \in Under'[r.ptr]
    <3>1. PICK r : r = [q EXCEPT !.until = @ \ {t}]
      OBVIOUS
    <3>2. r \in retired' /\ r.ptr = q.ptr
      BY <1>1, <3>1
    <3> QED BY <1>2, <2>1, <3>2
  <2>2. ASSUME NEW x, NEW g \in G, x \in Under'[g] PROVE \E r \in retired' : x \in Under'[r.ptr]
    <3>1. PICK r : r = [ptr |-> g, until |-> Inside \ {t}]
      OBVIOUS
    <3>2. r \in retired' /\ r.ptr = g
      BY <1>1, <3>1
    <3> QED BY <2>2, <3>2
  <2>3. ASSUME NEW x, NEW r \in retired', x \in Under'[r.ptr]
        PROVE  (\E q \in retired : x \in Under[q.ptr]) \/ (\E g \in G : x \in Under'[g])
    BY <1>1, <1>2, <2>3
  <2> QED BY <2>1, <2>2, <2>3
<1>5. \A x : (\E i \in DOMAIN todo' : x \in Under'[Of(i)']) <=> (\E i \in DOMAIN todo : x \in Under[Of(i)])
  BY <1>3
<1>6. /\ \A x \in Pointers : InTree(x) <=> Kept(G, x)
      /\ \A x \in New : Kept(G, x)
  BY GrownCover
<1>7. \A x : Held(x)' <=> Kept(G, x) \/ (\E q \in retired : x \in Under[q.ptr])
                           \/ \E i \in DOMAIN todo : x \in Under[Of(i)]
  BY <1>4, <1>5 DEF Held, Kept
<1>8. ASSUME NEW x \in Pointers, NEW u \in Threads \ {t}, u \in Inside, Guarded(u, x) PROVE Guarded(u, x)'
  <2>1. CASE InTree(x)
    <3>1. InTree(x)' \/ \E g \in G : x \in Under'[g]
      BY <1>6, <2>1 DEF Kept
    <3>2. ASSUME NEW g \in G, x \in Under'[g] PROVE Guarded(u, x)'
      <4>1. PICK r : r = [ptr |-> g, until |-> Inside \ {t}]
        OBVIOUS
      <4>2. r.ptr = g /\ r.until = Inside \ {t}
        BY <4>1
      <4>3. r \in retired' /\ u \in r.until
        BY <1>1, <1>8, <4>1, <4>2
      <4> QED BY <3>2, <4>2, <4>3 DEF Guarded
    <3> QED BY <3>1, <3>2 DEF Guarded
  <2>2. ASSUME NEW q \in retired, u \in q.until, x \in Under[q.ptr] PROVE Guarded(u, x)'
    <3>1. PICK r : r = [q EXCEPT !.until = @ \ {t}]
      OBVIOUS
    <3>2. r \in retired' /\ r.ptr = q.ptr /\ u \in r.until
      BY <1>1, <2>2, <3>1
    <3> QED BY <1>2, <2>2, <3>2 DEF Guarded
  <2> QED BY <1>8, <2>1, <2>2 DEF Guarded
<1> QED BY <1>6, <1>7, <1>8 DEF Held

(* The chains after the call, and what of them has been freed.              *)
LEMMA GrownChains ==
  ASSUME IdInv, IdInv', MemInv, NEW t \in Threads, NEW G, Grown(t, G)
  PROVE  /\ ChainsOK' /\ HeldOK'
         /\ \A h \in Blocks : ChunksFrom(h)' = ChunksFrom(h)
<1> USE DEF MemInv
<1>1. /\ MemTyped /\ MemTyped' /\ HeapOK /\ HeapOK' /\ Blocks \subseteq Blocks' /\ Pointers' = Pointers \cup New
      /\ \A p \in Pointers : heap'[p] = heap[p]
      /\ freed' = freed
      /\ \A b \in Blocks : next'[b] = next[b]
      /\ \A b \in Blocks' \ Blocks : next'[b] = NoBlock /\ End(b) \in Pointers'
      /\ \A n \in New : IF IsRecord(n)' THEN t \in Taken /\ n = call[t].new /\ HomeOf(n)' = HomeOfCall(call[t])
                                    ELSE n[1] \notin Blocks
  BY DEF Grown, Grows, IdInv, Typed, New
<1>2. /\ \A h \in Blocks : ChunksFrom(h)' = ChunksFrom(h)
      /\ \A h \in Blocks' \ Blocks : ChunksFrom(h)' = {h}
  BY <1>1, ChainsSame
<1>3. \A p \in Pointers : /\ (IsRemove(p)' <=> IsRemove(p)) /\ (IsRecord(p)' <=> IsRecord(p))
                          /\ HomeOf(p)' = HomeOf(p)
  <2>1. ASSUME NEW p \in Pointers PROVE HomeOf(p)' = HomeOf(p)
    <3>1. Kind(p) = "merge" => heap[p].right \in Pointers
      BY <1>1 DEF HeapOK, NodeOK, Kind, IsNode
    <3> QED BY <1>1, <3>1 DEF HomeOf, Kind
  <2> QED BY <1>1, <2>1 DEF IsRemove, IsRecord, Kind
<1>4. \A n \in New : n[2] = ChunkSize => n[1] \notin Blocks
  BY <1>1 DEF HeapOK, NodeOK, IsRecord, Kind
<1>5. \A b : End(b)[1] = b /\ End(b)[2] = ChunkSize
  BY DEF End
<1>6. /\ Heads \subseteq Heads' /\ \A b \in Heads' : b \in Blocks => b \in Heads
      /\ \A b \in Blocks' \ Blocks : b \in Heads'
      /\ Heads \subseteq Blocks /\ Heads' \subseteq Blocks'
  BY <1>1, <1>4, <1>5 DEF Heads
<1>7. /\ 0 \notin Blocks /\ NoBlock = 0 /\ \A b \in Blocks : next[b] # NoBlock => next[b] \in Blocks
      /\ 0 \notin Blocks'
  BY <1>1, BlocksAre DEF NoBlock, MemTyped, Blocks
<1>8. \A a, b \in Blocks' : next'[a] = next'[b] /\ next'[a] # NoBlock => a = b
  BY <1>1 DEF ChainsOK
<1>9. \A a \in Blocks' : next'[a] \notin Heads'
  BY <1>1, <1>6, <1>7 DEF ChainsOK
<1>10. \A b \in Blocks' : \E h \in Heads' : b \in ChunksFrom(h)'
  <2>1. ASSUME NEW b \in Blocks PROVE \E h \in Heads' : b \in ChunksFrom(h)'
    <3>1. PICK h \in Heads : b \in ChunksFrom(h)
      BY DEF ChainsOK
    <3> QED BY <1>2, <1>6, <3>1
  <2>2. ASSUME NEW b \in Blocks' \ Blocks PROVE \E h \in Heads' : b \in ChunksFrom(h)'
    <3>1. b \in ChunksFrom(b)'
      BY <1>2
    <3> QED BY <1>6, <3>1
  <2> QED BY <2>1, <2>2
<1>11. ASSUME NEW p \in Pointers', IsRemove(p)' PROVE next'[p[1]] = NoBlock
  <2>1. CASE p \in Pointers
    <3>1. p[1] \in Blocks
      BY <1>1, <2>1 DEF HeapOK, NodeOK
    <3> QED BY <1>1, <1>3, <1>11, <2>1, <3>1 DEF ChainsOK
  <2>2. CASE p \in New
    <3>1. p[1] \in Blocks' /\ p[2] = ChunkSize
      BY <1>1, <1>11 DEF HeapOK, NodeOK, IsRemove, Kind
    <3> QED BY <1>1, <1>4, <2>2, <3>1
  <2> QED BY <1>1, <2>1, <2>2
<1>12. ASSUME NEW p \in Pointers', IsRecord(p)' PROVE p[1] \in ChunksFrom(HomeOf(p))'
  <2>1. CASE p \in Pointers
    <3>1. PICK k : k = HomeOf(p)
      OBVIOUS
    <3>2. IsRecord(p) /\ p[1] \in ChunksFrom(k)
      BY <1>3, <1>12, <2>1, <3>1 DEF ChainsOK
    <3>3. k \in Blocks
      BY <1>1, <3>1, <3>2 DEF HomeOf, NodeOK, HeapOK, Kind, IsNode, IsRecord
    <3>4. ChunksFrom(HomeOf(p))' = ChunksFrom(k)'
      BY <1>3, <2>1, <3>1 DEF ChunksFrom
    <3> QED BY <1>2, <3>2, <3>3, <3>4
  <2>2. CASE p \in New
    <3>1. PICK k : k = HomeOfCall(call[t])
      OBVIOUS
    <3>2. t \in Taken /\ p = call[t].new /\ HomeOf(p)' = k
      BY <1>1, <1>12, <2>2, <3>1
    <3>3. p[1] \in ChunksFrom(k)
      BY <3>1, <3>2 DEF HomesOK
    <3>4. pc[t] # "out"
      BY DEF Grown
    <3>5. k \in Blocks
      BY <3>1, <3>4, CallHome
    <3>6. ChunksFrom(HomeOf(p))' = ChunksFrom(k)'
      BY <3>2 DEF ChunksFrom
    <3> QED BY <1>2, <3>3, <3>5, <3>6
  <2> QED BY <1>1, <2>1, <2>2
<1>13. ASSUME NEW h \in Heads', NEW b, b \in ChunksFrom(h)' PROVE b \in freed' <=> h \in freed'
  <2>1. CASE h \in Blocks
    BY <1>1, <1>2, <1>6, <1>13, <2>1 DEF ChainsOK
  <2>2. CASE h \notin Blocks
    BY <1>2, <1>6, <1>13, <2>2
  <2> QED BY <2>1, <2>2
<1>14. ChainsOK'
  BY <1>8, <1>9, <1>10, <1>11, <1>12, <1>13 DEF ChainsOK
<1>15. ASSUME NEW b \in Heads', NEW x, x = End(b) PROVE b \in freed' <=> ~Held(x)'
  <2>1. CASE b \in Blocks
    <3>1. b \in Heads /\ x \in Pointers
      BY <1>6, <1>15, <2>1 DEF Heads
    <3> QED BY <1>1, <1>15, <3>1, GrownHeld DEF HeldOK
  <2>2. CASE b \notin Blocks
    <3>1. x \in Pointers' /\ x \notin Pointers
      <4>1. x \in Pointers => x[1] \in Blocks
        BY <1>1 DEF HeapOK, NodeOK
      <4> QED BY <1>5, <1>15, <2>2, <4>1 DEF Heads
    <3>2. Held(x)'
      BY <3>1, GrownHeld DEF New
    <3>3. b \notin freed'
      BY <1>1, <2>2 DEF MemTyped
    <3> QED BY <3>2, <3>3
  <2> QED BY <2>1, <2>2
<1>16. HeldOK'
  <2>1. ASSUME NEW b \in Heads' PROVE b \in freed' <=> ~Held(End(b))'
    <3>1. PICK x : x = End(b)
      OBVIOUS
    <3>2. Held(End(b))' <=> Held(x)'
      BY <3>1 DEF Held, End, InTree
    <3> QED BY <1>15, <3>1, <3>2
  <2> QED BY <2>1 DEF HeldOK
<1> QED BY <1>2, <1>14, <1>16

LEMMA GrownMem ==
  ASSUME IdInv, IdInv', MemInv, NEW t \in Threads, NEW G, Grown(t, G)
  PROVE  MemInv'
<1>1. /\ ChainsOK' /\ HeldOK' /\ WalkOK' /\ RootsOK' /\ Founded' /\ KidsOnce'
      /\ \A h \in Blocks : ChunksFrom(h)' = ChunksFrom(h)
  BY GrownChains, GrownWalk, GrownRoots, GrownFounded, GrownOnce
<1>2. /\ pc'[t] = "out" /\ call'[t] = NoCall /\ \A u \in Threads \ {t} : Quiet(u)
      /\ NoCall.new = Null /\ \A p \in Pointers : heap'[p] = heap[p]
  BY GrownRetired, Constants DEF Grown, Grows
<1>3. ASSUME NEW u \in Threads, u # t, pc[u] # "out"
      PROVE  /\ Guarded(u, call[u].snap)' /\ (call[u].op = "merge" => Guarded(u, call[u].right)')
             /\ HomeOfCall(call[u])' = HomeOfCall(call[u])
             /\ ChunksFrom(HomeOfCall(call[u]))' = ChunksFrom(HomeOfCall(call[u]))
  <2>1. PICK s, r, h : s = call[u].snap /\ r = call[u].right /\ h = HomeOfCall(call[u])
    OBVIOUS
  <2>2. s \in Pointers /\ (call[u].op = "merge" => r \in Pointers) /\ h \in Blocks
    BY <1>3, <2>1, CallHome
  <2>3. Guarded(u, s) /\ (call[u].op = "merge" => Guarded(u, r)) /\ u \in Inside
    BY <1>3, <2>1 DEF MemInv, GuardsOK, Inside
  <2>4. Guarded(u, s)' /\ (call[u].op = "merge" => Guarded(u, r)')
    BY <1>3, <2>2, <2>3, GrownHeld
  <2>5. call'[u] = call[u]
    BY <1>2, <1>3 DEF Quiet
  <2>6. HomeOfCall(call[u])' = h
    BY <1>2, <2>1, <2>2, <2>5 DEF HomeOfCall
  <2>7. ChunksFrom(HomeOfCall(call[u]))' = ChunksFrom(h)'
    BY <2>6 DEF ChunksFrom
  <2>8. Guarded(u, call[u].snap)' <=> Guarded(u, s)'
    BY <2>1, <2>5 DEF Guarded, InTree
  <2>9. Guarded(u, call[u].right)' <=> Guarded(u, r)'
    BY <2>1, <2>5 DEF Guarded, InTree
  <2> QED BY <1>1, <2>1, <2>2, <2>4, <2>6, <2>7, <2>8, <2>9
<1>4. HomesOK'
  <2>1. ASSUME NEW u \in Threads
        PROVE  /\ pc'[u] \in InChunks => chunk'[u] \in ChunksFrom(HomeOfCall(call[u]))'
               /\ call'[u].new # Null => call'[u].new[1] \in ChunksFrom(HomeOfCall(call[u]))'
    <3>1. CASE u = t
      BY <1>2, <3>1 DEF InChunks
    <3>2. CASE u # t /\ pc[u] = "out"
      <4>1. call[u].new = Null /\ Quiet(u)
        BY <1>2, <3>2 DEF IdInv, CallsOK, CallOK
      <4> QED BY <3>2, <4>1 DEF Quiet, InChunks
    <3>3. CASE u # t /\ pc[u] # "out"
      <4>1. Quiet(u) /\ (pc[u] \in InChunks => chunk[u] \in ChunksFrom(HomeOfCall(call[u])))
            /\ (call[u].new # Null => call[u].new[1] \in ChunksFrom(HomeOfCall(call[u])))
        BY <1>2, <3>3 DEF MemInv, HomesOK, Taken
      <4> QED BY <1>3, <3>3, <4>1 DEF Quiet
    <3> QED BY <3>1, <3>2, <3>3
  <2> QED BY <2>1 DEF HomesOK, Taken
<1>5. GuardsOK'
  <2>1. ASSUME NEW u \in Threads, pc'[u] # "out"
        PROVE  Guarded(u, call[u].snap)' /\ (call'[u].op = "merge" => Guarded(u, call[u].right)')
    BY <1>2, <1>3, <2>1 DEF Quiet
  <2> QED BY <2>1 DEF GuardsOK
<1> QED BY <1>1, <1>4, <1>5 DEF MemInv

(* The nodes of the tree after a call has left with garbage.                *)
LEMMA LeaveLive ==
  ASSUME IdInv, NEW t \in Threads, NEW G, Leave(t, G), G \subseteq Pointers', HeapOK', Grows, todo' = todo
  PROVE  \A id : id \in Live' <=> /\ id \in Ids /\ table'[id] # Null /\ ~Dying(id)
                                  /\ ~\E g \in G : IsRemove(g)' /\ heap'[g].base = id
<1>1. G \in SUBSET Pairs /\ Typed
  BY DEF HeapOK, NodeOK, IdInv
<1>2. /\ \A r \in retired' : (\E q \in retired : r.ptr = q.ptr) \/ r.ptr \in G
      /\ \A q \in retired : \E r \in retired' : r.ptr = q.ptr
      /\ \A p \in G : \E r \in retired' : r.ptr = p
  BY <1>1, LeaveIs
<1>3. Dead' = Dead \cup G
  BY <1>2 DEF Dead
<1>4. \A p \in Dead : (IsRemove(p)' <=> IsRemove(p)) /\ heap'[p] = heap[p]
  BY DEF IdInv, PointersOK, Grows, IsRemove, Kind
<1>5. \A id : Dying(id)' <=> Dying(id) \/ \E g \in G : IsRemove(g)' /\ heap'[g].base = id
  BY <1>3, <1>4 DEF Dying, IsRemove
<1> QED BY <1>5 DEF Live

(* A CAS that wins puts one new node in the place of a snapshot.            *)
LEMMA ReplacesGrown ==
  ASSUME IdInv, IdInv', MemInv, NEW t \in Threads, NEW p, NEW n, NEW G, Replaces(t, p, n, G),
         NEW id, id = call[t].id, NEW s, s = call[t].snap,
         IF n.child = Null THEN s \in G /\ n.right = Null ELSE n.child = s /\ s \notin G,
         n.right # Null => \E j \in Live : Removed(j) /\ n.right = heap[table[j]].child /\ table[j] \in G,
         \A g \in G : \E j \in Live : g = table[j] /\ (j = id \/ (Removed(j) /\ heap[g].child = n.right)),
         \A b \in Blocks : next'[b] = next[b],
         \A b \in Blocks' \ Blocks : next'[b] = NoBlock /\ End(b) = p,
         IF IsRecord(p)' THEN t \in Taken /\ p = call[t].new /\ HomeOf(p)' = HomeOfCall(call[t])
                         ELSE p[1] \notin Blocks
  PROVE  MemInv'
<1>1. /\ id \in Live /\ ~Removed(id) /\ s = table[id] /\ heap'[p] = n /\ table'[id] = p
      /\ Grows /\ \A x \in Ids \ {id} : table'[x] = table[x]
      /\ p # Null
  BY ReplacesIs
<1>2. /\ p \notin Pointers /\ Pointers' = Pointers \cup {p} /\ G \subseteq Pointers /\ HeapOK'
      /\ pc[t] = "cas" /\ Leave(t, G) /\ todo' = todo /\ freed' = freed
  BY PutGrows DEF Replaces, IdInv, cleanVars
<1>3. \A q : q \in New <=> q = p
  BY <1>2 DEF New
<1>4. \A x : x \in Live' <=> /\ x \in Ids /\ table'[x] # Null /\ ~Dying(x)
                             /\ ~\E g \in G : IsRemove(g)' /\ heap'[g].base = x
  BY <1>1, <1>2, LeaveLive
<1>5. /\ \A x \in Live : x \in Ids /\ table[x] # Null /\ ~Dying(x) /\ table[x] \in Pointers
      /\ \A x \in Ids : table[x] # Null /\ ~Dying(x) => x \in Live
  BY LiveIs DEF Live, IdInv
<1>6. \A g \in G : IsRemove(g)' => \E j \in Live : /\ g = table[j] /\ heap'[g].base = j /\ j # id /\ Removed(j)
                                                   /\ heap[g].child = n.right
  <2>1. ASSUME NEW g \in G, IsRemove(g)'
        PROVE  \E j \in Live : /\ g = table[j] /\ heap'[g].base = j /\ j # id /\ Removed(j)
                               /\ heap[g].child = n.right
    <3>1. g \in Pointers /\ heap'[g] = heap[g] /\ IsRemove(g)
      BY <1>1, <1>2, <2>1 DEF Grows, IsRemove, Kind
    <3>2. PICK j \in Live : g = table[j] /\ (j = id \/ (Removed(j) /\ heap[g].child = n.right))
      OBVIOUS
    <3>3. Removed(j)
      BY <1>5, <3>1, <3>2, Constants DEF Removed, IsRemove
    <3>4. heap[g].base = j
      BY <3>2, <3>3 DEF IdInv, TreeOK
    <3> QED BY <1>1, <3>1, <3>2, <3>3, <3>4
  <2> QED BY <2>1
<1>7. \A x, y \in Live : table[x] = table[y] => x = y
  BY DEF MemInv, RootsOK
<1>8. id \in Live' /\ id \in Ids
  BY <1>1, <1>4, <1>5, <1>6
<1>9. \A x \in Live : x # id => table'[x] = table[x] /\ (x \in Live' \/ table[x] \in G)
  BY <1>1, <1>4, <1>5, <1>6
<1>10. ASSUME NEW x \in Live', x # id PROVE x \in Live /\ table'[x] = table[x] /\ table[x] \notin G
  <2>1. x \in Live /\ table'[x] = table[x]
    BY <1>1, <1>4, <1>5, <1>10
  <2>2. ASSUME table[x] \in G PROVE FALSE
    <3>1. PICK j \in Live : table[x] = table[j] /\ (j = id \/ Removed(j))
      BY <2>2
    <3>2. j = x /\ Removed(x)
      BY <1>7, <1>10, <2>1, <3>1
    <3>3. heap[table[x]].base = x
      BY <2>1, <3>2 DEF IdInv, TreeOK
    <3>4. IsRemove(table[x])
      BY <3>2 DEF Removed, IsRemove
    <3>5. PICK g \in G : g = table[x]
      BY <2>2
    <3>6. IsRemove(g)' /\ heap'[g].base = x
      BY <1>1, <1>2, <3>3, <3>4, <3>5 DEF Grows, IsRemove, Kind
    <3> QED BY <1>4, <1>10, <3>6
  <2> QED BY <2>1, <2>2
<1>11. \A m \in New : m \in G \/ \E x \in Live' : table'[x] = m
  BY <1>1, <1>3, <1>8
<1>12. \A m \in New : heap'[m].child # Null =>
       \E x \in Live : /\ heap'[m].child = table[x] /\ ~Removed(x) /\ x \in Live' /\ table'[x] = m
                       /\ table[x] \notin G
  BY <1>1, <1>3, <1>8
<1>13. \A m \in New : heap'[m].right # Null =>
       /\ heap'[m].child # Null
       /\ \E j \in Live : Removed(j) /\ heap'[m].right = heap[table[j]].child /\ table[j] \in G
  BY <1>1, <1>3
<1>14. \A x \in Live : \/ table[x] \in G
                       \/ x \in Live' /\ table'[x] = table[x]
                       \/ x \in Live' /\ table'[x] \in New /\ heap'[table'[x]].child = table[x]
  BY <1>1, <1>3, <1>8, <1>9
<1>15. \A x \in Live' : /\ table'[x] \in New \/ (x \in Live /\ table'[x] = table[x])
                        /\ table'[x] \notin G
  BY <1>1, <1>2, <1>3, <1>10
<1>16. \A g \in G : g \in New \/ \E x \in Live : g = table[x]
  OBVIOUS
<1>17. \A x, y \in Live' : table'[x] = table'[y] /\ table'[x] \in New => x = y
  BY <1>2, <1>3, <1>5, <1>10
<1>18. ASSUME NEW g \in G, IsRemove(g)'
       PROVE  heap'[g].child = Null \/ \E q \in Pointers' : heap'[q].right = heap'[g].child
  <2>1. heap[g].child = n.right /\ heap'[g] = heap[g]
    BY <1>1, <1>2, <1>6, <1>18 DEF Grows
  <2>2. p \in Pointers' /\ heap'[p].right = heap'[g].child
    BY <1>1, <1>2, <2>1
  <2> QED BY <2>2
<1>19. \A b \in Blocks' \ Blocks : next'[b] = NoBlock /\ End(b) \in Pointers'
  BY <1>2
<1>20. \A m \in New : IF IsRecord(m)' THEN t \in Taken /\ m = call[t].new /\ HomeOf(m)' = HomeOfCall(call[t])
                                      ELSE m[1] \notin Blocks
  BY <1>3
<1>21. \A m, q \in New : heap'[m].child # Null /\ heap'[q].child # Null => m = q
  BY <1>3
<1>22. G \subseteq Pointers'
  BY <1>2
<1>23. Grown(t, G)
  BY <1>1, <1>2, <1>11, <1>12, <1>13, <1>14, <1>15, <1>16, <1>17, <1>18, <1>19, <1>20, <1>21, <1>22 DEF Grown
<1> QED BY <1>23, GrownMem

(* A CAS that fails and leaves nothing behind.                              *)
LEMMA FailedMem ==
  ASSUME IdInv, IdInv', MemInv, NEW t \in Threads, pc[t] = "cas", Leave(t, {}),
         UNCHANGED <<tail, next, freed, heap, table, todo>>
  PROVE  MemInv'
<1>1. Pointers' = Pointers /\ Grows /\ Blocks' = Blocks /\ HeapOK'
  BY SameGrows DEF Pointers, IdInv, Blocks
<1>2. New = {}
  BY <1>1 DEF New
<1>3. \A id : id \in Live' <=> id \in Ids /\ table'[id] # Null /\ ~Dying(id)
  BY <1>1, LeaveLive
<1>4. Live' = Live
  BY <1>3 DEF Live
<1>5. Grown(t, {})
  BY <1>1, <1>2, <1>4 DEF Grown
<1> QED BY <1>5, GrownMem

(* The calls that post one by one.                                          *)
LEMMA PostDataMem ==
  ASSUME IdInv, IdInv', MemInv, NEW t \in Threads, PostData(t)
  PROVE  MemInv'
<1>1. /\ pc[t] = "cas" /\ call[t].op = "post" /\ Leave(t, {})
      /\ UNCHANGED <<tail, next, freed, stackVars, calls, cleanVars>>
  BY DEF PostData
<1>2. CASE Matches(t)
  <2>1. PICK p : p = call[t].new
    OBVIOUS
  <2>2. PICK s : s = call[t].snap
    OBVIOUS
  <2>3. PICK n : n = Record("data", s, heap[s].next)
    OBVIOUS
  <2>4. PICK id : id = call[t].id
    OBVIOUS
  <2>5. /\ t \in Taken /\ p \notin Pointers /\ p \in Pairs /\ p[1] \in Blocks /\ p[2] # ChunkSize
        /\ IsNode(s) /\ heap[s].next \in 0 .. NumIds /\ ~HeldBy(t)
    BY <1>1, <2>1, <2>2, CasIs DEF Allocating
  <2>6. heap' = Put(heap, p, n) /\ table' = [table EXCEPT ![call[t].id] = p]
    BY <1>2, <2>1, <2>2, <2>3 DEF PostData
  <2>7. Blocks' = Blocks /\ MemTyped'
    BY <1>1 DEF Blocks, IdInv, Typed, MemTyped
  <2>8. Grows /\ heap'[p] = n /\ p \in Pointers'
    BY <2>5, <2>6, <2>7, PutGrows
  <2>9. NodeOK(p)' /\ Kind(p)' = "data"
    BY <2>3, <2>5, <2>8, RecordOK
  <2>10. SizeAt(p)' = SizeOf(t)
    BY <1>1, <2>9 DEF SizeAt, SizeOf, RecordSize, Size
  <2>11. Replaces(t, p, n, {})
    BY <1>1, <1>2, <2>1, <2>5, <2>6, <2>7, <2>9, <2>10 DEF Replaces
  <2>12. n.child = s /\ n.right = Null /\ n.base = heap[s].base /\ s # Null
    BY <2>3, <2>5, NullNowhere DEF Record, IsNode, IdInv, Typed
  <2>13. HomeOf(p)' = HomeOfCall(call[t])
    BY <1>1, <2>2, <2>8, <2>9, <2>12 DEF HomeOf, HomeOfCall
  <2>14. /\ \A b \in Blocks : next'[b] = next[b]
         /\ \A b \in Blocks' \ Blocks : next'[b] = NoBlock /\ End(b) = p
    BY <1>1, <2>7
  <2>15. IF IsRecord(p)' THEN t \in Taken /\ p = call[t].new /\ HomeOf(p)' = HomeOfCall(call[t])
                         ELSE p[1] \notin Blocks
    BY <2>1, <2>5, <2>8, <2>9, <2>13 DEF IsRecord
  <2>16. /\ IF n.child = Null THEN s \in {} /\ n.right = Null ELSE n.child = s /\ s \notin {}
         /\ n.right # Null => \E j \in Live : Removed(j) /\ n.right = heap[table[j]].child /\ table[j] \in {}
    BY <2>12
  <2>17. \A g \in {} : \E j \in Live : g = table[j] /\ (j = id \/ (Removed(j) /\ heap[g].child = n.right))
    OBVIOUS
  <2> QED BY <2>2, <2>4, <2>11, <2>14, <2>15, <2>16, <2>17, ReplacesGrown
<1>3. CASE ~Matches(t)
  <2>1. heap' = heap /\ table' = table
    BY <1>3 DEF PostData
  <2> QED BY <1>1, <2>1, FailedMem DEF cleanVars
<1> QED BY <1>2, <1>3

LEMMA RemoveNodeMem ==
  ASSUME IdInv, IdInv', MemInv, NEW t \in Threads, RemoveNode(t)
  PROVE  MemInv'
<1>1. /\ pc[t] = "cas" /\ call[t].op = "remove" /\ Leave(t, {}) /\ freed' = freed
      /\ UNCHANGED <<stackVars, calls, cleanVars>>
  BY DEF RemoveNode
<1>2. /\ IsNode(call[t].snap) /\ ~HeldBy(t) /\ call[t].id \in Ids
  BY <1>1, CasIs
<1>3. CASE Matches(t)
  <2>1. PICK b : b = NewBlock
    OBVIOUS
  <2>2. PICK id : id = call[t].id
    OBVIOUS
  <2>3. PICK s : s = call[t].snap
    OBVIOUS
  <2>4. PICK n : n = RemoveRecord(id, s)
    OBVIOUS
  <2>5. /\ heap' = Put(heap, End(b), n) /\ table' = [table EXCEPT ![call[t].id] = End(b)]
        /\ tail' = Append(tail, 0) /\ next' = Append(next, NoBlock)
    BY <1>3, <2>1, <2>2, <2>3, <2>4 DEF RemoveNode
  <2>6. /\ MemTyped' /\ Blocks' = Blocks \cup {b} /\ b \notin Blocks /\ b \in Nat \ {0}
        /\ \A a \in Blocks : tail'[a] = tail[a] /\ next'[a] = next[a]
        /\ tail'[b] = 0 /\ 0 \in 0 .. ChunkSize /\ next'[b] = NoBlock
    <3>1. 0 \in 0 .. ChunkSize
      BY Constants
    <3> QED BY <1>1, <2>1, <2>5, <3>1, NewChunk DEF IdInv
  <2>7. End(b) \notin Pointers /\ End(b)[1] = b
    BY <2>6, BlockPlace DEF IdInv, End
  <2>8. Grows /\ Pointers' = Pointers \cup {End(b)} /\ heap'[End(b)] = n
    BY <2>5, <2>6, <2>7, PutGrows
  <2>9. NodeOK(End(b))' /\ Kind(End(b))' = "remove" /\ End(b) \in Pairs
    BY <1>2, <2>2, <2>3, <2>4, <2>6, <2>8, RemoveRecordOK
  <2>10. Replaces(t, End(b), n, {})
    BY <1>1, <1>2, <1>3, <2>5, <2>6, <2>7, <2>9 DEF Replaces, IsRecord
  <2>11. n.child = s /\ n.right = Null /\ s # Null
    BY <1>2, <2>3, <2>4, NullNowhere DEF RemoveRecord, IsNode, IdInv, Typed
  <2>12. /\ \A a \in Blocks : next'[a] = next[a]
         /\ \A a \in Blocks' \ Blocks : next'[a] = NoBlock /\ End(a) = End(b)
    BY <2>6
  <2>13. IF IsRecord(End(b))' THEN t \in Taken /\ End(b) = call[t].new /\ HomeOf(End(b))' = HomeOfCall(call[t])
                              ELSE End(b)[1] \notin Blocks
    BY <2>6, <2>7, <2>9 DEF IsRecord
  <2>14. /\ IF n.child = Null THEN s \in {} /\ n.right = Null ELSE n.child = s /\ s \notin {}
         /\ n.right # Null => \E j \in Live : Removed(j) /\ n.right = heap[table[j]].child /\ table[j] \in {}
    BY <2>11
  <2>15. \A g \in {} : \E j \in Live : g = table[j] /\ (j = id \/ (Removed(j) /\ heap[g].child = n.right))
    OBVIOUS
  <2> QED BY <2>2, <2>3, <2>10, <2>12, <2>13, <2>14, <2>15, ReplacesGrown
<1>4. CASE ~Matches(t)
  <2>1. heap' = heap /\ table' = table /\ tail' = tail /\ next' = next
    BY <1>4 DEF RemoveNode
  <2> QED BY <1>1, <2>1, FailedMem DEF cleanVars
<1> QED BY <1>3, <1>4

LEMMA MergeNodeMem ==
  ASSUME IdInv, IdInv', MemInv, NEW t \in Threads, MergeNode(t)
  PROVE  MemInv'
<1>1. /\ pc[t] = "cas" /\ call[t].op = "merge"
      /\ UNCHANGED <<tail, next, freed, stackVars, calls, cleanVars>>
  BY DEF MergeNode
<1>2. CASE Matches(t)
  <2>1. PICK p, id : p = call[t].new /\ id = call[t].id
    OBVIOUS
  <2>2. PICK s, r : s = call[t].snap /\ r = call[t].right
    OBVIOUS
  <2>3. PICK n : n = Merge(s, r)
    OBVIOUS
  <2>4. PICK j, g : j = heap[s].next /\ g = table[j]
    OBVIOUS
  <2>5. /\ t \in Taken /\ p \notin Pointers /\ p \in Pairs /\ p[1] \in Blocks /\ p[2] # ChunkSize
        /\ IsNode(s) /\ ~HeldBy(t) /\ id \in Ids
    BY <1>1, <2>1, <2>2, CasIs DEF Allocating
  <2>6. heap' = Put(heap, p, n) /\ table' = [table EXCEPT ![call[t].id] = p] /\ Leave(t, {g})
    BY <1>2, <2>1, <2>2, <2>3, <2>4 DEF MergeNode
  <2>7. id \in Live /\ Removed(j) /\ heap[g].child = r /\ IsNode(r) /\ table[id] = s /\ ~Removed(id)
    <3>1. SnapOK(t) /\ CallOK(t)
      BY DEF IdInv, SnapsOK, CallsOK
    <3>2. id \in Live /\ Removed(j) /\ heap[g].child = r /\ table[id] = s
      BY <1>1, <1>2, <2>1, <2>2, <2>4, <3>1 DEF SnapOK, Matches
    <3>3. IsNode(r)
      BY <1>1, <2>2, <3>1 DEF CallOK
    <3> QED BY <2>5, <3>2, <3>3 DEF Removed, IsNode
  <2>8. /\ j \in Live /\ heap[g].base = j /\ g \in Pointers
        /\ Kind(g) = "remove" /\ j # id /\ ~Dying(j) /\ j \in Ids
    <3>1. j = NextId(id) /\ j # 0
      BY <2>4, <2>7 DEF NextId, Removed
    <3>2. j \in Live \ {1} /\ heap[g].base = j
      BY <2>4, <2>7, <3>1 DEF IdInv, TreeOK
    <3> QED BY <2>4, <2>7, <3>1, <3>2 DEF IdInv, PointersOK, Live, Removed
  <2>9. Blocks' = Blocks /\ MemTyped'
    BY <1>1 DEF Blocks, IdInv, Typed, MemTyped
  <2>10. Grows /\ heap'[p] = n /\ Pointers' = Pointers \cup {p}
    BY <2>5, <2>6, <2>9, PutGrows
  <2>11. NodeOK(p)' /\ Kind(p)' = "merge"
    BY <2>3, <2>5, <2>7, <2>10, MergeOK
  <2>12. SizeAt(p)' = SizeOf(t)
    BY <1>1, <2>11 DEF SizeAt, SizeOf, RecordSize, Size
  <2>13. Replaces(t, p, n, {g})
    BY <1>1, <1>2, <2>1, <2>5, <2>6, <2>7, <2>8, <2>9, <2>11, <2>12 DEF Replaces
  <2>14. n.child = s /\ n.right = r /\ s # Null /\ r # Null /\ s # g
    <3>1. n.child = s /\ n.right = r
      BY <2>3 DEF Merge, Record
    <3>2. s # Null /\ r # Null /\ s # g
      BY <2>5, <2>7, <2>8, NullNowhere DEF IsNode, IdInv, Typed
    <3> QED BY <3>1, <3>2
  <2>15. HomeOf(p)' = HomeOfCall(call[t])
    <3>1. HomeOfCall(call[t]) = heap[r].base
      BY <1>1, <2>2 DEF HomeOfCall
    <3>2. heap'[heap'[p].right].base = heap[r].base
      BY <2>7, <2>10, <2>14 DEF Grows, IsNode
    <3> QED BY <2>11, <3>1, <3>2 DEF HomeOf
  <2>16. /\ \A b \in Blocks : next'[b] = next[b]
         /\ \A b \in Blocks' \ Blocks : next'[b] = NoBlock /\ End(b) = p
    BY <1>1, <2>9
  <2>17. IF IsRecord(p)' THEN t \in Taken /\ p = call[t].new /\ HomeOf(p)' = HomeOfCall(call[t])
                         ELSE p[1] \notin Blocks
    BY <2>1, <2>5, <2>10, <2>11, <2>15 DEF IsRecord
  <2>18. IF n.child = Null THEN s \in {g} /\ n.right = Null ELSE n.child = s /\ s \notin {g}
    BY <2>14
  <2>19. n.right # Null => \E x \in Live : Removed(x) /\ n.right = heap[table[x]].child /\ table[x] \in {g}
    BY <2>4, <2>7, <2>8, <2>14
  <2>20. \A q \in {g} : \E x \in Live : q = table[x] /\ (x = id \/ (Removed(x) /\ heap[q].child = n.right))
    BY <2>4, <2>7, <2>8, <2>14
  <2> QED BY <2>1, <2>2, <2>13, <2>16, <2>17, <2>18, <2>19, <2>20, ReplacesGrown
<1>3. CASE ~Matches(t)
  <2>1. heap' = heap /\ table' = table /\ Leave(t, {})
    BY <1>3 DEF MergeNode
  <2> QED BY <1>1, <2>1, FailedMem DEF cleanVars
<1> QED BY <1>2, <1>3

LEMMA ConsolidateMem ==
  ASSUME IdInv, IdInv', MemInv, NEW t \in Threads, Consolidate(t)
  PROVE  MemInv'
<1>1. PICK b : b = NewBlock
  OBVIOUS
<1>2. PICK s, id : s = call[t].snap /\ id = call[t].id
  OBVIOUS
<1>3. PICK n : n = Page(b, heap[s].next)
  OBVIOUS
<1>4. /\ pc[t] = "cas" /\ call[t].op = "consolidate" /\ heap' = Put(heap, End(b), n)
      /\ tail' = Append(tail, ChunkSize) /\ next' = Append(next, NoBlock) /\ freed' = freed
      /\ UNCHANGED <<stackVars, calls, cleanVars>> /\ todo' = todo
  BY <1>1, <1>2, <1>3 DEF Consolidate, cleanVars
<1>5. IsNode(s) /\ heap[s].next \in 0 .. NumIds /\ ~HeldBy(t)
  BY <1>2, <1>4, CasIs
<1>6. /\ MemTyped' /\ Blocks' = Blocks \cup {b} /\ b \notin Blocks /\ b \in Nat \ {0}
      /\ \A a \in Blocks : tail'[a] = tail[a] /\ next'[a] = next[a]
      /\ tail'[b] = ChunkSize /\ next'[b] = NoBlock
  <2>1. ChunkSize \in 0 .. ChunkSize
    BY Constants
  <2> QED BY <1>1, <1>4, <2>1, NewChunk DEF IdInv
<1>7. End(b) \notin Pointers /\ End(b)[1] = b
  BY <1>6, BlockPlace DEF IdInv, End
<1>8. Grows /\ Pointers' = Pointers \cup {End(b)} /\ heap'[End(b)] = n
  BY <1>4, <1>6, <1>7, PutGrows
<1>9. NodeOK(End(b))' /\ Kind(End(b))' = "page" /\ End(b) \in Pairs /\ ~IsRecord(End(b))' /\ ~IsRemove(End(b))'
  <2>1. NodeOK(End(b))' /\ Kind(End(b))' = "page" /\ End(b) \in Pairs
    BY <1>3, <1>5, <1>6, <1>8, PageOK
  <2> QED BY <2>1 DEF IsRecord, IsRemove
<1>10. n.child = Null /\ n.right = Null /\ n.kind = "page" /\ n.next = heap[s].next /\ ChunkSize \in 0 .. ChunkSize
  BY <1>3, Constants DEF Page
<1>11. /\ \A a \in Blocks : next'[a] = next[a]
       /\ \A a \in Blocks' \ Blocks : next'[a] = NoBlock /\ End(a) = End(b)
  BY <1>6
<1>12. CASE Matches(t)
  <2>1. table' = [table EXCEPT ![call[t].id] = End(b)] /\ Leave(t, {s})
    BY <1>1, <1>2, <1>12 DEF Consolidate
  <2>2. s \in Pointers /\ Kind(s) # "remove"
    BY <1>5 DEF IsNode
  <2>3. Replaces(t, End(b), n, {s})
    BY <1>4, <1>5, <1>6, <1>7, <1>9, <1>10, <1>12, <2>1, <2>2 DEF Replaces
  <2>4. id \in Live /\ s = table[id]
    BY <1>2, <2>3, ReplacesIs
  <2>5. IF IsRecord(End(b))' THEN t \in Taken /\ End(b) = call[t].new /\ HomeOf(End(b))' = HomeOfCall(call[t])
                             ELSE End(b)[1] \notin Blocks
    BY <1>6, <1>7, <1>9
  <2>6. IF n.child = Null THEN s \in {s} /\ n.right = Null ELSE n.child = s /\ s \notin {s}
    BY <1>10
  <2>7. n.right # Null => \E j \in Live : Removed(j) /\ n.right = heap[table[j]].child /\ table[j] \in {s}
    BY <1>10
  <2>8. \A g \in {s} : \E j \in Live : g = table[j] /\ (j = id \/ (Removed(j) /\ heap[g].child = n.right))
    BY <2>4
  <2> QED BY <1>2, <1>11, <2>3, <2>5, <2>6, <2>7, <2>8, ReplacesGrown
<1>13. CASE ~Matches(t)
  <2>1. table' = table /\ Leave(t, {End(b)})
    BY <1>1, <1>13 DEF Consolidate
  <2>2. \A m : m \in New <=> m = End(b)
    BY <1>7, <1>8 DEF New
  <2>3. {End(b)} \subseteq Pointers' /\ HeapOK'
    BY <1>8 DEF IdInv
  <2>4. \A x : x \in Live' <=> x \in Live
    <3>1. \A x : x \in Live' <=> /\ x \in Ids /\ table'[x] # Null /\ ~Dying(x)
                                 /\ ~\E g \in {End(b)} : IsRemove(g)' /\ heap'[g].base = x
      BY <1>4, <1>8, <2>1, <2>3, LeaveLive
    <3> QED BY <1>9, <2>1, <3>1 DEF Live
  <2>5. \A x \in Live : table[x] \in Pointers /\ table[x] \notin {End(b)}
    BY <1>7, LiveIs DEF IdInv
  <2>6. Grown(t, {End(b)})
    <3>1. \A m \in New : m \in {End(b)} /\ heap'[m].child = Null /\ heap'[m].right = Null /\ ~IsRecord(m)'
                           /\ m[1] \notin Blocks
      BY <1>6, <1>7, <1>8, <1>9, <1>10, <2>2
    <3>2. \A x \in Live' : table'[x] \notin New
      BY <1>7, <2>1, <2>2, <2>4, <2>5
    <3>3. \A x \in Live : x \in Live' /\ table'[x] = table[x]
      BY <2>1, <2>4
    <3>4. \A x \in Live' : x \in Live /\ table'[x] = table[x] /\ table'[x] \notin {End(b)}
      BY <2>1, <2>4, <2>5
    <3>5. \A a \in Blocks' \ Blocks : next'[a] = NoBlock /\ End(a) \in Pointers'
      BY <1>8, <1>11
    <3>6. \A g \in {End(b)} : g \in New /\ ~IsRemove(g)'
      BY <1>9, <2>2
    <3> QED BY <1>4, <1>8, <1>11, <2>1, <2>3, <3>1, <3>2, <3>3, <3>4, <3>5, <3>6 DEF Grown
  <2> QED BY <2>6, GrownMem
<1> QED BY <1>12, <1>13

LEMMA SplitWonMem ==
  ASSUME IdInv, IdInv', MemInv, NEW t \in Threads, SplitNode(t), Matches(t)
  PROVE  MemInv'
<1>1. PICK b, p : b = NewBlock /\ p = call[t].new
  OBVIOUS
<1>2. PICK s, d : s = call[t].snap /\ d = call[t].newid
  OBVIOUS
<1>3. PICK id : id = call[t].id
  OBVIOUS
<1>4. PICK m, n : m = Page(b, heap[s].next) /\ n = Record("split", s, d)
  OBVIOUS
<1>5. /\ pc[t] = "cas" /\ call[t].op = "split" /\ Leave(t, {}) /\ freed' = freed
      /\ UNCHANGED <<stackVars, calls, cleanVars>> /\ todo' = todo
      /\ tail' = Append(tail, ChunkSize) /\ next' = Append(next, NoBlock)
      /\ heap' = Put(Put(heap, End(b), m), p, n)
      /\ table' = [table EXCEPT ![d] = End(b), ![id] = p]
  BY <1>1, <1>2, <1>3, <1>4 DEF SplitNode, cleanVars
<1>6. /\ t \in Taken /\ p \notin Pointers /\ p # Null /\ p \in Pairs /\ p[1] \in Blocks /\ p[2] # ChunkSize
      /\ IsNode(s) /\ HeldBy(t) /\ id \in Ids /\ heap[s].next \in 0 .. NumIds
  BY <1>1, <1>2, <1>3, <1>5, CasIs DEF Allocating
<1>7. /\ d \in Ids /\ table[d] = Null /\ ~Removed(d) /\ d \notin Live /\ ~Dying(d) /\ d \in 0 .. NumIds
  BY <1>2, <1>6, NewIdIs, Constants
<1>8. id \in Live /\ table[id] = s /\ ~Removed(id) /\ table[id] # Null /\ id # d
  <2>1. SnapOK(t) /\ table[id] = s
    BY <1>2, <1>3 DEF IdInv, SnapsOK, Matches
  <2>2. id \in Live /\ ~Removed(id)
    BY <1>3, <1>5, <1>6, <2>1 DEF SnapOK, Removed, IsNode
  <2> QED BY <1>7, <2>1, <2>2 DEF Live
<1>9. /\ MemTyped' /\ Blocks' = Blocks \cup {b} /\ b \notin Blocks /\ b \in Nat \ {0}
      /\ \A a \in Blocks : next'[a] = next[a]
      /\ next'[b] = NoBlock
  <2>1. ChunkSize \in 0 .. ChunkSize
    BY Constants
  <2> QED BY <1>1, <1>5, <2>1, NewChunk DEF IdInv
<1>10. End(b) \notin Pointers /\ End(b) # Null /\ End(b) # p /\ End(b)[1] = b
  BY <1>6, <1>9, BlockPlace DEF IdInv, End
<1>11. Grows /\ Pointers' = Pointers \cup {End(b), p} /\ heap'[End(b)] = m /\ heap'[p] = n
  BY <1>5, <1>6, <1>9, <1>10, TwoPuts
<1>12. NodeOK(End(b))' /\ Kind(End(b))' = "page" /\ ~IsRecord(End(b))'
  <2>1. NodeOK(End(b))' /\ Kind(End(b))' = "page"
    BY <1>4, <1>6, <1>9, <1>11, PageOK
  <2> QED BY <2>1 DEF IsRecord
<1>13. NodeOK(p)' /\ Kind(p)' = "split" /\ IsRecord(p)'
  <2>1. NodeOK(p)' /\ Kind(p)' = "split"
    BY <1>4, <1>6, <1>7, <1>11, RecordOK
  <2> QED BY <1>11, <2>1 DEF IsRecord
<1>14. /\ table'[d] = End(b) /\ table'[id] = p /\ \A x \in Ids \ {d, id} : table'[x] = table[x]
  BY <1>5, <1>6, <1>7, <1>8 DEF IdInv, Typed, StackTyped
<1>15. \A q : q \in New <=> q = p \/ q = End(b)
  BY <1>6, <1>10, <1>11 DEF New
<1>16. n.child = s /\ n.right = Null /\ n.base = heap[s].base /\ m.child = Null /\ m.right = Null /\ s # Null
  BY <1>4, <1>6, NullNowhere DEF Record, Page, IsNode, IdInv, Typed
<1>17. HomeOf(p)' = HomeOfCall(call[t])
  BY <1>2, <1>5, <1>11, <1>13, <1>16 DEF HomeOf, HomeOfCall
<1>18. \A x : x \in Live' <=> x \in Live \/ x = d
  <2>1. PICK G : G = {}
    OBVIOUS
  <2>2. \A x : x \in Live' <=> x \in Ids /\ table'[x] # Null /\ ~Dying(x)
    <3>1. Leave(t, G) /\ G \subseteq Pointers' /\ HeapOK'
      BY <1>5, <2>1 DEF IdInv
    <3>2. \A x : x \in Live' <=> /\ x \in Ids /\ table'[x] # Null /\ ~Dying(x)
                                 /\ ~\E g \in G : IsRemove(g)' /\ heap'[g].base = x
      BY <1>5, <1>11, <3>1, LeaveLive
    <3> QED BY <2>1, <3>2
  <2>3. \A x \in Ids : table'[x] # Null <=> table[x] # Null \/ x = d
    BY <1>6, <1>7, <1>8, <1>10, <1>14
  <2> QED BY <1>7, <2>2, <2>3 DEF Live
<1>19. \A x \in Live : x \in Ids /\ table[x] \in Pointers
  BY LiveIs DEF IdInv, Live
<1>20. Grown(t, {})
  <2>1. \A q \in New : IF IsRecord(q)' THEN t \in Taken /\ q = call[t].new /\ HomeOf(q)' = HomeOfCall(call[t])
                                       ELSE q[1] \notin Blocks
    BY <1>1, <1>6, <1>9, <1>10, <1>12, <1>13, <1>15, <1>17
  <2>2. \A q \in New : \E x \in Live' : table'[x] = q
    BY <1>8, <1>14, <1>15, <1>18
  <2>3. \A q \in New : heap'[q].child # Null => q = p
    BY <1>11, <1>15, <1>16
  <2>4. heap'[p].child = table[id] /\ id \in Live' /\ table'[id] = p
    BY <1>8, <1>11, <1>14, <1>16, <1>18
  <2>5. \A q \in New : heap'[q].right = Null
    BY <1>11, <1>15, <1>16
  <2>6. \A x \in Live : \/ x \in Live' /\ table'[x] = table[x]
                        \/ x \in Live' /\ table'[x] \in New /\ heap'[table'[x]].child = table[x]
    <3>1. \A x \in Live : x # id => table'[x] = table[x]
      BY <1>7, <1>14, <1>19
    <3>2. p \in New
      BY <1>15
    <3> QED BY <1>18, <2>4, <3>1, <3>2
  <2>7. \A x \in Live' : table'[x] \in New \/ (x \in Live /\ table'[x] = table[x])
    <3>1. \A x \in Live : x # id => table'[x] = table[x]
      BY <1>7, <1>14, <1>19
    <3> QED BY <1>14, <1>15, <1>18, <3>1
  <2>8. \A x, y \in Live' : table'[x] = table'[y] /\ table'[x] \in New => x = y
    <3>1. \A x \in Live' : table'[x] \in New => x = d \/ x = id
      BY <1>14, <1>18, <1>19 DEF New
    <3> QED BY <1>10, <1>14, <3>1
  <2>9. \A a \in Blocks' \ Blocks : next'[a] = NoBlock /\ End(a) \in Pointers'
    BY <1>9, <1>11
  <2>10. \A q \in New : heap'[q].child # Null =>
           \E x \in Live : /\ heap'[q].child = table[x] /\ ~Removed(x) /\ x \in Live' /\ table'[x] = q
                           /\ table[x] \notin {}
    BY <1>8, <2>3, <2>4
  <2>11. \A q, r \in New : heap'[q].child # Null /\ heap'[r].child # Null => q = r
    BY <2>3
  <2> QED BY <1>5, <1>9, <1>11, <2>1, <2>2, <2>5, <2>6, <2>7, <2>8, <2>9, <2>10, <2>11 DEF Grown
<1> QED BY <1>20, GrownMem

LEMMA SplitLostMem ==
  ASSUME IdInv, IdInv', MemInv, NEW t \in Threads, SplitNode(t), ~Matches(t)
  PROVE  MemInv'
<1>1. PICK b, f : b = NewBlock /\ f = NewBlock + 1
  OBVIOUS
<1>2. PICK s, d : s = call[t].snap /\ d = call[t].newid
  OBVIOUS
<1>3. PICK m, n : m = Page(b, heap[s].next) /\ n = RemoveRecord(d, Null)
  OBVIOUS
<1>4. PICK G : G = {End(b), End(f)}
  OBVIOUS
<1>5. /\ pc[t] = "cas" /\ call[t].op = "split" /\ Leave(t, G) /\ freed' = freed
      /\ UNCHANGED <<stackVars, calls, cleanVars>> /\ todo' = todo
      /\ tail' = tail \o <<ChunkSize, 0>> /\ next' = next \o <<NoBlock, NoBlock>>
      /\ heap' = Put(Put(heap, End(b), m), End(f), n)
      /\ table' = [table EXCEPT ![d] = End(b)]
  BY <1>1, <1>2, <1>3, <1>4 DEF SplitNode, cleanVars
<1>6. IsNode(s) /\ HeldBy(t) /\ heap[s].next \in 0 .. NumIds
  BY <1>2, <1>5, CasIs
<1>7. /\ d \in Ids /\ table[d] = Null /\ ~Removed(d) /\ d \notin Live /\ ~Dying(d)
  BY <1>2, <1>6, NewIdIs
<1>8. /\ MemTyped' /\ Blocks' = Blocks \cup {b, f} /\ b \notin Blocks /\ f \notin Blocks
      /\ b \in Nat \ {0} /\ f \in Nat \ {0} /\ b # f
      /\ \A a \in Blocks : next'[a] = next[a]
      /\ next'[b] = NoBlock /\ next'[f] = NoBlock
  <2>1. /\ MemTyped' /\ Blocks' = Blocks \cup {b, f} /\ b \notin Blocks /\ f \notin Blocks
        /\ b \in Nat \ {0} /\ f = b + 1 /\ \A a \in Blocks : next'[a] = next[a]
        /\ next'[b] = NoBlock /\ next'[f] = NoBlock
    BY <1>1, <1>5, TwoChunks DEF IdInv
  <2>2. f \in Nat \ {0} /\ b # f
    BY <2>1
  <2> QED BY <2>1, <2>2
<1>9. /\ End(b) \notin Pointers /\ End(f) \notin Pointers /\ End(b) # Null /\ End(b) # End(f)
      /\ End(b)[1] = b /\ End(f)[1] = f
  BY <1>8, BlockPlace DEF IdInv
<1>10. Grows /\ Pointers' = Pointers \cup {End(b), End(f)} /\ heap'[End(b)] = m /\ heap'[End(f)] = n
  BY <1>5, <1>8, <1>9, TwoPuts
<1>11. NodeOK(End(b))' /\ Kind(End(b))' = "page"
  BY <1>3, <1>6, <1>8, <1>10, PageOK
<1>12. NodeOK(End(f))' /\ Kind(End(f))' = "remove"
  BY <1>3, <1>7, <1>8, <1>10, RemoveRecordOK
<1>13. /\ ~IsRecord(End(b))' /\ ~IsRecord(End(f))' /\ ~IsRemove(End(b))' /\ IsRemove(End(f))'
       /\ m.child = Null /\ m.right = Null /\ n.child = Null /\ n.right = Null /\ n.base = d
  BY <1>3, <1>11, <1>12 DEF IsRecord, IsRemove, Page, RemoveRecord
<1>14. /\ table'[d] = End(b) /\ \A x \in Ids \ {d} : table'[x] = table[x]
  BY <1>5, <1>7 DEF IdInv, Typed, StackTyped
<1>15. \A q : q \in New <=> q \in G
  BY <1>4, <1>9, <1>10 DEF New
<1>16. G \subseteq Pointers' /\ HeapOK'
  BY <1>4, <1>10 DEF IdInv
<1>17. \A x : x \in Live' <=> x \in Live
  <2>1. \A x : x \in Live' <=> /\ x \in Ids /\ table'[x] # Null /\ ~Dying(x)
                               /\ ~\E g \in G : IsRemove(g)' /\ heap'[g].base = x
    BY <1>5, <1>10, <1>16, LeaveLive
  <2>2. \A x : (\E g \in G : IsRemove(g)' /\ heap'[g].base = x) <=> x = d
    BY <1>4, <1>10, <1>13
  <2>3. \A x \in Ids : x # d => table'[x] = table[x]
    BY <1>14
  <2>4. \A x : x \in Live <=> x \in Ids /\ table[x] # Null /\ ~Dying(x)
    BY DEF Live
  <2> QED BY <1>7, <2>1, <2>2, <2>3, <2>4
<1>18. \A x \in Live : x \in Live' /\ table'[x] = table[x] /\ table[x] \in Pointers
  BY <1>7, <1>14, <1>17, LiveIs DEF IdInv, Live
<1>19. Grown(t, G)
  <2>1. \A q \in New : q \in G /\ ~IsRecord(q)' /\ q[1] \notin Blocks /\ heap'[q].child = Null /\ heap'[q].right = Null
    BY <1>4, <1>8, <1>9, <1>10, <1>13, <1>15
  <2>2. \A x \in Live' : x \in Live /\ table'[x] = table[x] /\ table'[x] \notin New /\ table'[x] \notin G
    BY <1>15, <1>17, <1>18 DEF New
  <2>3. \A a \in Blocks' \ Blocks : next'[a] = NoBlock /\ End(a) \in Pointers'
    BY <1>8, <1>10
  <2>4. \A g \in G : g \in New /\ heap'[g].child = Null
    BY <2>1, <1>15
  <2> QED BY <1>5, <1>8, <1>10, <1>16, <1>18, <2>1, <2>2, <2>3, <2>4 DEF Grown
<1> QED BY <1>19, GrownMem

-----------------------------------------------------------------------------
(* A step of the cleaner: the tree and the threads do not see it.           *)
Clears ==
  /\ UNCHANGED <<tail, next, heap, pc, call, chunk>> /\ Live' = Live
  /\ \A id \in Live : table'[id] = table[id]

LEMMA ClearsSame ==
  ASSUME IdInv, IdInv', MemInv, Clears
  PROVE  /\ Pointers' = Pointers /\ Heads' = Heads /\ Blocks' = Blocks /\ Founded' /\ KidsOnce'
         /\ \A p \in Pointers : Under'[p] = Under[p]
         /\ \A p : /\ (IsRemove(p)' <=> IsRemove(p)) /\ (IsRecord(p)' <=> IsRecord(p)) /\ HomeOf(p)' = HomeOf(p)
                   /\ (Uppermost(p)' <=> Uppermost(p)) /\ (Merged(p)' <=> Merged(p))
         /\ \A x \in Pointers : InTree(x)' <=> InTree(x)
         /\ \A h : ChunksFrom(h)' = ChunksFrom(h)
         /\ \A id \in Live : table[id] \in Pointers /\ (Removed(id)' <=> Removed(id))
         /\ \A r \in retired : r.ptr \in Pointers
<1> USE DEF IdInv, MemInv
<1>1. heap' = heap /\ Blocks' = Blocks
  BY DEF Clears, Blocks
<1>2. /\ Pointers' = Pointers /\ Founded' /\ KidsOnce'
      /\ \A p : /\ (IsRemove(p)' <=> IsRemove(p)) /\ (IsRecord(p)' <=> IsRecord(p)) /\ HomeOf(p)' = HomeOf(p)
                /\ (Uppermost(p)' <=> Uppermost(p)) /\ (Merged(p)' <=> Merged(p))
                /\ Kind(p)' = Kind(p)
      /\ \A p \in Pointers : Under'[p] = Under[p]
  BY <1>1, HeapSame
<1>3. Heads' = Heads
  BY <1>1, <1>2 DEF Heads
<1>4. \A id \in Live : table[id] \in Pointers
  BY LiveIs
<1>5. \A x \in Pointers : InTree(x)' <=> InTree(x)
  BY <1>2, <1>4 DEF InTree, Clears
<1>6. \A h : ChunksFrom(h)' = ChunksFrom(h)
  BY DEF Clears, ChunksFrom
<1>7. \A id \in Live : Removed(id)' <=> Removed(id)
  BY <1>2 DEF Removed, Clears
<1>8. \A r \in retired : r.ptr \in Pointers
  BY DEF PointersOK, Dead
<1> QED BY <1>1, <1>2, <1>3, <1>4, <1>5, <1>6, <1>7, <1>8

LEMMA ClearsMem ==
  ASSUME IdInv, IdInv', MemInv, Clears, retired' \subseteq retired,
         \A r \in retired : r.until # {} => r \in retired',
         \A p \in Dead' : p \in Dead \/ ~IsRemove(p),
         WalkOK', \A b \in Heads : b \in freed' <=> ~Held(End(b))',
         \A h \in Heads : \A b \in ChunksFrom(h) : b \in freed' <=> h \in freed'
  PROVE  MemInv'
<1> USE DEF IdInv, MemInv
<1>1. /\ Pointers' = Pointers /\ Heads' = Heads /\ Blocks' = Blocks /\ Founded' /\ KidsOnce'
      /\ \A p \in Pointers : Under'[p] = Under[p]
      /\ \A p : /\ (IsRemove(p)' <=> IsRemove(p)) /\ (IsRecord(p)' <=> IsRecord(p)) /\ HomeOf(p)' = HomeOf(p)
                /\ (Uppermost(p)' <=> Uppermost(p)) /\ (Merged(p)' <=> Merged(p))
      /\ \A x \in Pointers : InTree(x)' <=> InTree(x)
      /\ \A h : ChunksFrom(h)' = ChunksFrom(h)
      /\ \A id \in Live : table[id] \in Pointers /\ (Removed(id)' <=> Removed(id))
      /\ \A r \in retired : r.ptr \in Pointers
  BY ClearsSame
<1>2. ChainsOK'
  <2>1. \A p \in Pointers : IsRecord(p) => p[1] \in ChunksFrom(HomeOf(p))
    BY DEF ChainsOK
  <2>2. \A p \in Pointers' : IsRecord(p)' => p[1] \in ChunksFrom(HomeOf(p))'
    <3> SUFFICES ASSUME NEW p \in Pointers, IsRecord(p) PROVE p[1] \in ChunksFrom(HomeOf(p))'
      BY <1>1
    <3>1. PICK k : k = HomeOf(p)
      OBVIOUS
    <3>2. HomeOf(p)' = k
      BY <1>1, <3>1
    <3>3. ChunksFrom(HomeOf(p))' = ChunksFrom(k)'
      BY <3>2 DEF ChunksFrom
    <3> QED BY <1>1, <2>1, <3>1, <3>3
  <2>3. /\ \A a, b \in Blocks : next[a] = next[b] /\ next[a] # NoBlock => a = b
        /\ \A a \in Blocks : next[a] \notin Heads
        /\ \A p \in Pointers : IsRemove(p) => next[p[1]] = NoBlock
    BY DEF ChainsOK
  <2>4. \A b \in Blocks : \E h \in Heads : b \in ChunksFrom(h)
    BY DEF ChainsOK
  <2>5. \A b \in Blocks' : \E h \in Heads' : b \in ChunksFrom(h)'
    BY <1>1, <2>4
  <2>6. \A h \in Heads' : \A b \in ChunksFrom(h)' : b \in freed' <=> h \in freed'
    BY <1>1
  <2>7. next' = next
    BY DEF Clears
  <2> QED BY <1>1, <2>2, <2>3, <2>5, <2>6, <2>7 DEF ChainsOK
<1>3. HomesOK'
  <2> SUFFICES ASSUME NEW t \in Threads
               PROVE  /\ pc[t] \in InChunks => chunk[t] \in ChunksFrom(HomeOfCall(call[t]))'
                      /\ t \in Taken' => call[t].new[1] \in ChunksFrom(HomeOfCall(call[t]))'
    BY DEF HomesOK, Clears
  <2>1. PICK k : k = HomeOfCall(call[t])
    OBVIOUS
  <2>2. HomeOfCall(call[t])' = k
    BY <2>1 DEF HomeOfCall, Clears
  <2>3. ChunksFrom(HomeOfCall(call[t]))' = ChunksFrom(k)'
    BY <2>2 DEF ChunksFrom
  <2>4. t \in Taken' <=> t \in Taken
    BY DEF Taken, Clears
  <2> QED BY <1>1, <2>1, <2>3, <2>4 DEF HomesOK
<1>4. RootsOK'
  <2>1. \A p \in Dead' : IsRemove(p) => heap[p].child = Null \/ Merged(heap[p].child)
    BY DEF RootsOK
  <2> QED BY <1>1, <2>1 DEF RootsOK, Clears
<1>5. HeldOK'
  BY <1>1 DEF HeldOK
<1>6. GuardsOK'
  <2>1. ASSUME NEW t, NEW x \in Pointers, Guarded(t, x) PROVE Guarded(t, x)'
    <3>1. CASE InTree(x)
      BY <1>1, <3>1 DEF Guarded
    <3>2. ASSUME NEW r \in retired, t \in r.until, x \in Under[r.ptr] PROVE Guarded(t, x)'
      <4>1. r \in retired' /\ x \in Under'[r.ptr]
        BY <1>1, <3>2
      <4> QED BY <3>2, <4>1 DEF Guarded
    <3> QED BY <2>1, <3>1, <3>2 DEF Guarded
  <2> SUFFICES ASSUME NEW t \in Threads, pc[t] # "out"
               PROVE  /\ Guarded(t, call[t].snap)'
                      /\ call[t].op = "merge" => Guarded(t, call[t].right)'
    BY DEF GuardsOK, Clears
  <2>2. PICK s, r : s = call[t].snap /\ r = call[t].right
    OBVIOUS
  <2>3. s \in Pointers /\ (call[t].op = "merge" => r \in Pointers)
    BY <2>2, CallHome
  <2>4. Guarded(t, s) /\ (call[t].op = "merge" => Guarded(t, r))
    BY <2>2 DEF GuardsOK
  <2>5. Guarded(t, s)' /\ (call[t].op = "merge" => Guarded(t, r)')
    BY <2>1, <2>3, <2>4
  <2>6. call'[t].snap = s /\ call'[t].right = r
    BY <2>2 DEF Clears
  <2> QED BY <2>5, <2>6 DEF Guarded, InTree, Clears
<1> QED BY <1>1, <1>2, <1>3, <1>4, <1>5, <1>6

(* A new pointer to free is taken from the garbage. *)
LEMMA ClearEpochMem ==
  ASSUME IdInv, IdInv', MemInv, ClearEpoch
  PROVE  MemInv'
<1> USE DEF IdInv, MemInv
<1>1. PICK r \in retired : /\ todo = <<>> /\ r.until = {} /\ retired' = retired \ {r}
                           /\ todo' = <<[ptr |-> r.ptr, right |-> FALSE]>>
  BY DEF ClearEpoch
<1>2. UNCHANGED <<tail, next, heap, freed, table, pc, call, chunk>>
  BY DEF ClearEpoch, memVars
<1>3. PICK g : g = r.ptr
  OBVIOUS
<1>4. DOMAIN todo' = {1} /\ todo'[1].ptr = g /\ todo'[1].right = FALSE /\ DOMAIN todo = {}
  <2>1. \A e : DOMAIN <<e>> = {1} /\ <<e>>[1] = e
    OBVIOUS
  <2>2. PICK e : e = [ptr |-> g, right |-> FALSE]
    OBVIOUS
  <2>3. e.ptr = g /\ e.right = FALSE
    BY <2>2
  <2>4. todo' = <<e>>
    BY <1>1, <1>3, <2>2
  <2>5. todo'[1] = e /\ DOMAIN todo' = {1}
    BY <2>1, <2>4
  <2> QED BY <1>1, <2>3, <2>5
<1>5. Dead' = Dead
  BY <1>1, <1>3, <1>4 DEF Dead
<1>6. Live' = Live
  BY <1>2, <1>5, TreeKept
<1>7. Clears
  BY <1>2, <1>6 DEF Clears
<1>8. /\ Pointers' = Pointers /\ Heads' = Heads
      /\ \A p \in Pointers : Under'[p] = Under[p]
      /\ \A p : Uppermost(p)' <=> Uppermost(p)
      /\ \A x \in Pointers : InTree(x)' <=> InTree(x)
      /\ \A q \in retired : q.ptr \in Pointers
  BY <1>7, ClearsSame
<1>9. Of(1)' = g
  BY <1>4 DEF Of
<1>10. g \in Pointers /\ g \in Under[g]
  BY <1>3, <1>8, UnderNow DEF UnderFact
<1>11. WalkOK'
  <2>1. Root(g)'
    BY <1>1, <1>2, <1>3, <1>6, <1>8, <1>10 DEF Root, RootsOK
  <2>2. \A i \in DOMAIN todo' : todo'[i].ptr \in Under'[g]
    BY <1>4, <1>8, <1>10
  <2>3. \A i, j \in DOMAIN todo' : ~(i < j)
    BY <1>4
  <2> QED BY <1>4, <1>8, <1>10, <2>1, <2>2, <2>3 DEF WalkOK
<1>12. \A x \in Pointers : Held(x)' <=> Held(x)
  <2> SUFFICES ASSUME NEW x \in Pointers PROVE Held(x)' <=> Held(x)
    OBVIOUS
  <2>1. (\E i \in DOMAIN todo' : x \in Under'[Of(i)']) <=> x \in Under[g]
    BY <1>4, <1>8, <1>9, <1>10
  <2>2. (\E q \in retired' : x \in Under'[q.ptr]) <=> (\E q \in retired \ {r} : x \in Under[q.ptr])
    BY <1>1, <1>8
  <2>3. Held(x)' <=> InTree(x)' \/ (\E q \in retired' : x \in Under'[q.ptr]) \/ (\E i \in DOMAIN todo' : x \in Under'[Of(i)'])
    BY DEF Held
  <2>4. Held(x) <=> InTree(x) \/ (\E q \in retired : x \in Under[q.ptr])
    BY <1>4 DEF Held
  <2> QED BY <1>3, <1>8, <2>1, <2>2, <2>3, <2>4
<1>13. \A b \in Heads : b \in freed' <=> ~Held(End(b))'
  <2> SUFFICES ASSUME NEW b \in Heads PROVE b \in freed' <=> ~Held(End(b))'
    OBVIOUS
  <2>1. PICK x : x = End(b)
    OBVIOUS
  <2>2. x \in Pointers /\ (b \in freed <=> ~Held(x))
    BY <2>1 DEF Heads, HeldOK
  <2>3. Held(End(b))' <=> Held(x)'
    BY <2>1 DEF Held, InTree, End
  <2> QED BY <1>2, <1>12, <2>2, <2>3
<1>14. \A h \in Heads : \A b \in ChunksFrom(h) : b \in freed' <=> h \in freed'
  BY <1>2 DEF ChainsOK
<1> QED BY <1>1, <1>5, <1>7, <1>11, <1>13, <1>14, ClearsMem

(* What is known of a walk, step by step.                                   *)
LEMMA WalkIsOK ==
  ASSUME IdInv, MemInv
  PROVE  /\ DOMAIN todo \subseteq Nat \ {0}
         /\ todo # <<>> => 1 \in DOMAIN todo /\ Head(todo) = todo[1]
         /\ todo # <<>> => \E g \in Pointers : Root(g) /\ \A i \in DOMAIN todo : todo[i].ptr \in Under[g]
         /\ \A i \in DOMAIN todo : i # 1 => todo[i].right
         /\ \A i, j \in DOMAIN todo : i < j => Of(i) \in Under[heap[todo[j].ptr].child]
         /\ \A i \in DOMAIN todo : /\ todo[i].ptr \in Pointers /\ Of(i) \in Pointers
                                   /\ todo[i].right => heap[todo[i].ptr].child \in Pointers
<1>1. DOMAIN todo \subseteq Nat \ {0} /\ (todo # <<>> => 1 \in DOMAIN todo /\ Head(todo) = todo[1])
  BY DEF IdInv, Typed, CleanTyped
<1>2. \A i \in DOMAIN todo : /\ todo[i].ptr \in Pointers /\ Of(i) \in Pointers
                             /\ todo[i].right => heap[todo[i].ptr].child \in Pointers
  BY WalkPointers DEF IsNode
<1> QED BY <1>1, <1>2 DEF MemInv, WalkOK

LEMMA ClearsRoot ==
  ASSUME IdInv, IdInv', MemInv, Clears, retired' = retired, NEW g \in Pointers, Root(g)
  PROVE  Root(g)'
BY ClearsSame DEF Root, Clears

(* The cleaner goes down from a node: the blocks below are still to free.   *)
LEMMA HeadMem ==
  ASSUME IdInv, IdInv', MemInv, Clears, retired' = retired, freed' = freed, todo # <<>>,
         NEW q, IsNode(q), q \in Under[Of(1)],
         \A b \in Heads : End(b) \in Under[Of(1)] <=> End(b) \in Under[q],
         DOMAIN todo' = DOMAIN todo, todo'[1] = Visit(q), \A i \in DOMAIN todo : i # 1 => todo'[i] = todo[i]
  PROVE  MemInv'
<1>1. /\ Pointers' = Pointers /\ Heads' = Heads
      /\ \A p \in Pointers : Under'[p] = Under[p]
      /\ \A x \in Pointers : InTree(x)' <=> InTree(x)
      /\ \A r \in retired : r.ptr \in Pointers
      /\ heap' = heap
  BY ClearsSame DEF Clears
<1>2. /\ DOMAIN todo \subseteq Nat \ {0} /\ 1 \in DOMAIN todo
      /\ \A i \in DOMAIN todo : i # 1 => todo[i].right
      /\ \A i, j \in DOMAIN todo : i < j => Of(i) \in Under[heap[todo[j].ptr].child]
      /\ \A i \in DOMAIN todo : /\ todo[i].ptr \in Pointers /\ Of(i) \in Pointers
                                /\ todo[i].right => heap[todo[i].ptr].child \in Pointers
  BY WalkIsOK
<1>3. \A p \in Pointers : \A x \in Under[p] : x \in Pointers /\ Under[x] \subseteq Under[p]
  BY PartNow DEF PartFact, IdInv, MemInv
<1>4. q \in Pointers /\ Kind(q) # "remove" /\ todo'[1].ptr = q /\ todo'[1].right = FALSE
  BY DEF IsNode, Visit
<1>5. Of(1)' = q /\ \A i \in DOMAIN todo : i # 1 => Of(i)' = Of(i)
  BY <1>1, <1>4 DEF Of
<1>6. WalkOK'
  <2>1. PICK g \in Pointers : Root(g) /\ \A i \in DOMAIN todo : todo[i].ptr \in Under[g]
    BY WalkIsOK
  <2>2. Root(g)'
    BY <2>1, ClearsRoot
  <2>3. q \in Under[g]
    <3>1. Of(1) \in Under[g]
      <4>1. \E k \in Pointers : /\ Root(k) /\ \A i \in DOMAIN todo : todo[i].ptr \in Under[k] /\ Of(i) \in Under[k]
        BY WalkPointers
      <4>2. PICK k \in Pointers : Root(k) /\ \A i \in DOMAIN todo : todo[i].ptr \in Under[k] /\ Of(i) \in Under[k]
        BY <4>1
      <4>3. k = g
        <5>1. todo[1].ptr \in Under[k] \cap Under[g]
          BY <1>2, <2>1, <4>2
        <5> QED BY <2>1, <4>2, <5>1, RootsApart DEF Root, IdInv, MemInv
      <4> QED BY <1>2, <4>2, <4>3
    <3> QED BY <1>3, <2>1, <3>1
  <2>4. \A i \in DOMAIN todo : todo'[i].ptr \in Under'[g]
    BY <1>1, <1>4, <2>1, <2>3
  <2>5. ASSUME NEW i \in DOMAIN todo, NEW j \in DOMAIN todo, i < j
        PROVE  Of(i)' \in Under'[heap[todo'[j].ptr].child]
    <3>1. j # 1 /\ todo'[j] = todo[j] /\ todo[j].right
      BY <1>2, <2>5
    <3>2. PICK c : c = heap[todo[j].ptr].child
      OBVIOUS
    <3>3. c \in Pointers /\ Under'[c] = Under[c] /\ Of(i) \in Under[c]
      BY <1>1, <1>2, <2>5, <3>1, <3>2
    <3>4. Of(i)' \in Under[c]
      BY <1>3, <1>5, <3>3
    <3> QED BY <3>1, <3>2, <3>3, <3>4
  <2>6. \A i \in DOMAIN todo : i # 1 => todo'[i].right
    BY <1>2
  <2> QED BY <1>1, <2>1, <2>2, <2>4, <2>5, <2>6 DEF WalkOK
<1>7. ASSUME NEW b \in Heads PROVE b \in freed' <=> ~Held(End(b))'
  <2>1. PICK x : x = End(b)
    OBVIOUS
  <2>2. x \in Pointers /\ (b \in freed <=> ~Held(x))
    BY <2>1 DEF Heads, MemInv, HeldOK
  <2>3. Held(End(b))' <=> Held(x)'
    BY <2>1 DEF Held, InTree, End
  <2>4. (\E r \in retired' : x \in Under'[r.ptr]) <=> (\E r \in retired : x \in Under[r.ptr])
    BY <1>1
  <2>5. (\E i \in DOMAIN todo' : x \in Under'[Of(i)']) <=> (\E i \in DOMAIN todo : x \in Under[Of(i)])
    <3>1. \A i \in DOMAIN todo : x \in Under'[Of(i)'] <=> x \in Under[Of(i)]
      <4>1. \A i \in DOMAIN todo : i # 1 => (x \in Under'[Of(i)'] <=> x \in Under[Of(i)])
        BY <1>1, <1>2, <1>5
      <4>2. x \in Under'[Of(1)'] <=> x \in Under[Of(1)]
        BY <1>1, <1>4, <1>5, <2>1, <1>7
      <4> QED BY <4>1, <4>2
    <3> QED BY <3>1
  <2>6. Held(x)' <=> InTree(x)' \/ (\E r \in retired' : x \in Under'[r.ptr]) \/ (\E i \in DOMAIN todo' : x \in Under'[Of(i)'])
    BY DEF Held
  <2>7. Held(x) <=> InTree(x) \/ (\E r \in retired : x \in Under[r.ptr]) \/ (\E i \in DOMAIN todo : x \in Under[Of(i)])
    BY DEF Held
  <2> QED BY <1>1, <2>2, <2>3, <2>4, <2>5, <2>6, <2>7
<1>8. \A p \in Dead' : p \in Dead \/ ~IsRemove(p)
  <2>1. \A i \in DOMAIN todo' : todo'[i].ptr \in Dead \/ todo'[i].ptr = q
    BY <1>4 DEF Dead
  <2> QED BY <1>4, <2>1 DEF Dead, IsRemove
<1>9. \A h \in Heads : \A b \in ChunksFrom(h) : b \in freed' <=> h \in freed'
  BY DEF ChainsOK, MemInv
<1> QED BY <1>6, <1>7, <1>8, <1>9, ClearsMem

(* It goes down on the left of a merge record, to which it will come back.  *)
LEMMA ForkMem ==
  ASSUME IdInv, IdInv', MemInv, Clears, retired' = retired, freed' = freed, todo # <<>>,
         NEW m, m = todo[1].ptr, Kind(m) = "merge", ~todo[1].right,
         NEW l, NEW r, l = heap[m].child, r = heap[m].right,
         DOMAIN todo' \subseteq Nat, 1 \in DOMAIN todo', 2 \in DOMAIN todo',
         todo'[1].ptr = l, todo'[1].right = FALSE, todo'[2].ptr = m, todo'[2].right,
         \A i \in DOMAIN todo' : i # 1 /\ i # 2 => i - 1 \in DOMAIN todo /\ i - 1 # 1 /\ todo'[i] = todo[i - 1],
         \A i \in DOMAIN todo : i # 1 => i + 1 \in DOMAIN todo' /\ todo'[i + 1] = todo[i]
  PROVE  MemInv'
<1>1. /\ Pointers' = Pointers /\ Heads' = Heads
      /\ \A p \in Pointers : Under'[p] = Under[p]
      /\ \A x \in Pointers : InTree(x)' <=> InTree(x)
      /\ \A q \in retired : q.ptr \in Pointers
      /\ heap' = heap
  BY ClearsSame DEF Clears
<1>2. /\ DOMAIN todo \subseteq Nat \ {0} /\ 1 \in DOMAIN todo
      /\ \A i \in DOMAIN todo : i # 1 => todo[i].right
      /\ \A i, j \in DOMAIN todo : i < j => Of(i) \in Under[heap[todo[j].ptr].child]
      /\ \A i \in DOMAIN todo : /\ todo[i].ptr \in Pointers /\ Of(i) \in Pointers
                                /\ todo[i].right => heap[todo[i].ptr].child \in Pointers
  BY WalkIsOK
<1>3. \A p \in Pointers : \A x \in Under[p] : x \in Pointers /\ Under[x] \subseteq Under[p]
  BY PartNow DEF PartFact, IdInv, MemInv
<1>4. /\ m \in Pointers /\ Of(1) = m /\ l \in Pointers /\ r \in Pointers /\ Link(m, l) /\ Link(m, r)
  <2>1. m \in Pointers /\ Of(1) = m
    BY <1>2 DEF Of
  <2> QED BY <2>1, BranchesApart DEF IdInv, Typed, MemInv
<1>5. /\ \A x : x \in Under[m] <=> x = m \/ x \in Under[l] \/ x \in Under[r]
      /\ l \in Under[l] /\ r \in Under[r]
  <2>1. \A c : Link(m, c) => c = l \/ c = r
    BY DEF Link
  <2> QED BY <1>4, <2>1, UnderNow DEF UnderFact, IdInv, MemInv
<1>6. /\ Of(1)' = l /\ Of(2)' = r
      /\ \A i \in DOMAIN todo' : i # 1 /\ i # 2 => Of(i)' = Of(i - 1)
      /\ \A i \in DOMAIN todo : i # 1 => Of(i + 1)' = Of(i)
  BY <1>1 DEF Of
<1>7. WalkOK'
  <2>1. PICK g \in Pointers : Root(g) /\ \A i \in DOMAIN todo : todo[i].ptr \in Under[g]
    BY WalkIsOK
  <2>2. Root(g)'
    BY <2>1, ClearsRoot
  <2>3. m \in Under[g] /\ l \in Under[g]
    <3>1. m \in Under[g]
      BY <1>2, <2>1
    <3>2. Under[m] \subseteq Under[g]
      BY <1>3, <2>1, <3>1
    <3> QED BY <1>5, <3>1, <3>2
  <2>4. \A i \in DOMAIN todo' : todo'[i].ptr \in Under'[g]
    BY <1>1, <2>1, <2>3
  <2>5. \A i \in DOMAIN todo' : i # 1 => todo'[i].right
    BY <1>2
  <2>6. ASSUME NEW i \in DOMAIN todo', NEW j \in DOMAIN todo', i < j
        PROVE  Of(i)' \in Under'[heap[todo'[j].ptr].child]
    <3>1. j # 1
      <4>1. i >= 1
        <5>1. CASE i = 1
          BY <5>1
        <5>2. CASE i = 2
          BY <5>2
        <5>3. CASE i # 1 /\ i # 2
          BY <1>2, <5>3
        <5> QED BY <5>1, <5>2, <5>3
      <4> QED BY <2>6, <4>1
    <3>2. CASE j = 2
      <4>1. i = 1
        <5>1. i # 2
          BY <2>6, <3>2
        <5>2. ASSUME i # 1 PROVE FALSE
          <6>1. i - 1 \in Nat \ {0} /\ i - 1 # 1
            BY <1>2, <5>1, <5>2
          <6> QED BY <2>6, <3>2, <6>1
        <5> QED BY <5>2
      <4> QED BY <1>1, <1>4, <1>5, <1>6, <3>2, <4>1
    <3>3. CASE j # 2
      <4>1. PICK k : k = j - 1
        OBVIOUS
      <4>2. k \in DOMAIN todo /\ k # 1 /\ todo'[j] = todo[k] /\ todo[k].right
        BY <1>2, <3>1, <3>3, <4>1
      <4>3. PICK c : c = heap[todo[k].ptr].child
        OBVIOUS
      <4>4. c \in Pointers /\ Under'[c] = Under[c]
        BY <1>1, <1>2, <4>2, <4>3
      <4>5. m \in Under[c]
        <5>1. 1 < k
          BY <1>2, <4>2
        <5> QED BY <1>2, <1>4, <4>2, <4>3, <5>1
      <4>6. Under[m] \subseteq Under[c]
        BY <1>3, <4>4, <4>5
      <4>7. Of(i)' \in Under[c]
        <5>1. CASE i = 1 \/ i = 2
          BY <1>5, <1>6, <4>6, <5>1
        <5>2. CASE i # 1 /\ i # 2
          <6>1. i - 1 \in DOMAIN todo /\ Of(i)' = Of(i - 1)
            BY <1>6, <5>2
          <6>2. i - 1 < k
            BY <1>2, <2>6, <4>1, <4>2, <6>1
          <6> QED BY <1>2, <4>2, <4>3, <6>1, <6>2
        <5> QED BY <5>1, <5>2
      <4> QED BY <4>2, <4>3, <4>4, <4>7
    <3> QED BY <3>2, <3>3
  <2> QED BY <1>1, <2>1, <2>2, <2>4, <2>5, <2>6 DEF WalkOK
<1>8. ASSUME NEW b \in Heads PROVE b \in freed' <=> ~Held(End(b))'
  <2>1. PICK x : x = End(b)
    OBVIOUS
  <2>2. x \in Pointers /\ (b \in freed <=> ~Held(x)) /\ x # m
    <3>1. x \in Pointers /\ (b \in freed <=> ~Held(x))
      BY <2>1 DEF Heads, MemInv, HeldOK
    <3>2. m[2] # ChunkSize
      BY <1>4 DEF IdInv, HeapOK, NodeOK, Kind
    <3> QED BY <2>1, <3>1, <3>2 DEF End
  <2>3. Held(End(b))' <=> Held(x)'
    BY <2>1 DEF Held, InTree, End
  <2>4. (\E q \in retired' : x \in Under'[q.ptr]) <=> (\E q \in retired : x \in Under[q.ptr])
    BY <1>1
  <2>5. (\E i \in DOMAIN todo' : x \in Under'[Of(i)']) <=> (\E i \in DOMAIN todo : x \in Under[Of(i)])
    <3>1. x \in Under[m] <=> x \in Under'[l] \/ x \in Under'[r]
      BY <1>1, <1>4, <1>5, <2>2
    <3>2. ASSUME NEW i \in DOMAIN todo', x \in Under'[Of(i)'] PROVE \E k \in DOMAIN todo : x \in Under[Of(k)]
      <4>1. CASE i = 1 \/ i = 2
        BY <1>2, <1>4, <1>6, <3>1, <3>2, <4>1
      <4>2. CASE i # 1 /\ i # 2
        BY <1>1, <1>2, <1>6, <3>2, <4>2
      <4> QED BY <4>1, <4>2
    <3>3. ASSUME NEW i \in DOMAIN todo, x \in Under[Of(i)] PROVE \E k \in DOMAIN todo' : x \in Under'[Of(k)']
      <4>1. CASE i = 1
        BY <1>4, <1>6, <3>1, <3>3, <4>1
      <4>2. CASE i # 1
        BY <1>1, <1>2, <1>6, <3>3, <4>2
      <4> QED BY <4>1, <4>2
    <3> QED BY <3>2, <3>3
  <2>6. Held(x)' <=> InTree(x)' \/ (\E q \in retired' : x \in Under'[q.ptr]) \/ (\E i \in DOMAIN todo' : x \in Under'[Of(i)'])
    BY DEF Held
  <2>7. Held(x) <=> InTree(x) \/ (\E q \in retired : x \in Under[q.ptr]) \/ (\E i \in DOMAIN todo : x \in Under[Of(i)])
    BY DEF Held
  <2> QED BY <1>1, <2>2, <2>3, <2>4, <2>5, <2>6, <2>7
<1>9. \A p \in Dead' : p \in Dead \/ ~IsRemove(p)
  <2>1. \A i \in DOMAIN todo' : todo'[i].ptr \in Dead \/ todo'[i].ptr = l
    BY <1>2 DEF Dead
  <2>2. ~IsRemove(l)
    BY <1>4 DEF IdInv, HeapOK, NodeOK, Kind, IsNode, IsRemove
  <2> QED BY <2>1, <2>2 DEF Dead
<1>10. \A h \in Heads : \A b \in ChunksFrom(h) : b \in freed' <=> h \in freed'
  BY DEF ChainsOK, MemInv
<1> QED BY <1>7, <1>8, <1>9, <1>10, ClearsMem

(* It frees what it stands on: nobody else comes to that.                   *)
LEMMA FreedMem ==
  ASSUME IdInv, IdInv', MemInv, Clears, retired' = retired, todo # <<>>,
         NEW h \in Heads, Of(1) = End(h), todo[1].ptr = End(h), Under[End(h)] = {End(h)},
         freed' = freed \cup ChunksFrom(h),
         DOMAIN todo' \subseteq Nat \ {0},
         \A i \in DOMAIN todo' : i + 1 \in DOMAIN todo /\ todo'[i] = todo[i + 1],
         \A i \in DOMAIN todo : i # 1 => i - 1 \in DOMAIN todo' /\ todo'[i - 1] = todo[i]
  PROVE  MemInv'
<1> USE DEF IdInv, MemInv
<1>1. /\ Pointers' = Pointers /\ Heads' = Heads
      /\ \A p \in Pointers : Under'[p] = Under[p]
      /\ \A x \in Pointers : InTree(x)' <=> InTree(x)
      /\ \A q \in retired : q.ptr \in Pointers
      /\ heap' = heap
      /\ \A id \in Live : table[id] \in Pointers
  BY ClearsSame DEF Clears
<1>2. /\ DOMAIN todo \subseteq Nat \ {0} /\ 1 \in DOMAIN todo
      /\ \A i \in DOMAIN todo : i # 1 => todo[i].right
      /\ \A i, j \in DOMAIN todo : i < j => Of(i) \in Under[heap[todo[j].ptr].child]
      /\ \A i \in DOMAIN todo : /\ todo[i].ptr \in Pointers /\ Of(i) \in Pointers
                                /\ todo[i].right => heap[todo[i].ptr].child \in Pointers
  BY WalkIsOK
<1>3. PICK x : x = End(h)
  OBVIOUS
<1>4. x \in Pointers /\ Of(1) = x /\ todo[1].ptr = x /\ Under[x] = {x}
  BY <1>3 DEF Heads
<1>5. \A i \in DOMAIN todo' : Of(i)' = Of(i + 1)
  BY <1>1 DEF Of
<1>6. PICK g \in Pointers : Root(g) /\ \A i \in DOMAIN todo : todo[i].ptr \in Under[g]
  BY WalkIsOK
<1>7. WalkOK'
  <2>1. Root(g)'
    BY <1>6, ClearsRoot
  <2>2. \A i \in DOMAIN todo' : todo'[i].ptr \in Under'[g]
    BY <1>1, <1>6
  <2>3. \A i \in DOMAIN todo' : todo'[i].right
    BY <1>2
  <2>4. ASSUME NEW i \in DOMAIN todo', NEW j \in DOMAIN todo', i < j
        PROVE  Of(i)' \in Under'[heap[todo'[j].ptr].child]
    <3>1. i + 1 \in DOMAIN todo /\ j + 1 \in DOMAIN todo /\ i + 1 < j + 1 /\ j + 1 # 1
          /\ todo'[j] = todo[j + 1] /\ Of(i)' = Of(i + 1)
      BY <1>5, <2>4
    <3>2. PICK c : c = heap[todo[j + 1].ptr].child
      OBVIOUS
    <3>3. c \in Pointers /\ Under'[c] = Under[c] /\ Of(i + 1) \in Under[c]
      BY <1>1, <1>2, <3>1, <3>2
    <3> QED BY <3>1, <3>2, <3>3
  <2> QED BY <1>1, <1>6, <2>1, <2>2, <2>3, <2>4 DEF WalkOK
<1>8. ~InTree(x) /\ \A r \in retired : x \notin Under[r.ptr]
  <2>1. x \in Under[g] /\ Uppermost(g)
    BY <1>2, <1>4, <1>6 DEF Root
  <2>2. ASSUME NEW id \in Live PROVE x \notin Under[table[id]]
    <3>1. table[id] \in Pointers /\ Uppermost(table[id]) /\ g # table[id]
      BY <1>1, <1>6 DEF Root, RootsOK
    <3> QED BY <2>1, <3>1, RootsApart
  <2>3. ASSUME NEW r \in retired PROVE x \notin Under[r.ptr]
    <3>1. r.ptr \in Pointers /\ Uppermost(r.ptr) /\ g # r.ptr
      BY <1>1, <1>6 DEF Root, RootsOK
    <3> QED BY <2>1, <3>1, RootsApart
  <2> QED BY <2>2, <2>3 DEF InTree
<1>9. ASSUME NEW i \in DOMAIN todo, i # 1 PROVE x \notin Under[Of(i)]
  <2>1. PICK m : m = todo[i].ptr
    OBVIOUS
  <2>2. m \in Pointers /\ Kind(m) = "merge" /\ todo[i].right
    BY <1>2, <1>9, <2>1, WalkPointers
  <2>3. 1 < i
    BY <1>2, <1>9
  <2>4. x \in Under[heap[m].child]
    BY <1>2, <1>4, <2>1, <2>3
  <2>5. Of(i) = heap[m].right
    BY <2>1, <2>2 DEF Of
  <2>6. Under[heap[m].child] \cap Under[heap[m].right] = {}
    BY <2>2, BranchesApart DEF Typed
  <2> QED BY <2>4, <2>5, <2>6
<1>10. \A b \in Heads : b \in ChunksFrom(h) <=> b = h
  <2>1. \A b \in Heads : b \in ChunksFrom(b)
    <3>1. \A b \in Heads : b \in Blocks
      BY DEF Heads
    <3> QED BY <3>1, ChunksAre DEF Typed
  <2> QED BY <2>1, ChainOnce DEF Typed
<1>11. ASSUME NEW b \in Heads PROVE b \in freed' <=> ~Held(End(b))'
  <2>1. PICK y : y = End(b)
    OBVIOUS
  <2>2. y \in Pointers /\ (b \in freed <=> ~Held(y)) /\ (y = x => b = h)
    <3>1. y = x => b = h
      BY <1>3, <2>1 DEF End
    <3> QED BY <2>1, <3>1 DEF Heads, HeldOK
  <2>3. Held(End(b))' <=> Held(y)'
    BY <2>1 DEF Held, InTree, End
  <2>4. (\E q \in retired' : y \in Under'[q.ptr]) <=> (\E q \in retired : y \in Under[q.ptr])
    BY <1>1
  <2>5. (\E i \in DOMAIN todo' : y \in Under'[Of(i)']) <=> (\E i \in DOMAIN todo : i # 1 /\ y \in Under[Of(i)])
    <3>1. ASSUME NEW i \in DOMAIN todo', y \in Under'[Of(i)'] PROVE \E k \in DOMAIN todo : k # 1 /\ y \in Under[Of(k)]
      <4>1. i + 1 \in DOMAIN todo /\ i + 1 # 1 /\ Of(i)' = Of(i + 1) /\ Of(i + 1) \in Pointers
        BY <1>2, <1>5
      <4> QED BY <1>1, <3>1, <4>1
    <3>2. ASSUME NEW i \in DOMAIN todo, i # 1, y \in Under[Of(i)] PROVE \E k \in DOMAIN todo' : y \in Under'[Of(k)']
      <4>1. PICK k : k = i - 1
        OBVIOUS
      <4>2. k \in DOMAIN todo' /\ k + 1 = i
        BY <1>2, <3>2, <4>1
      <4>3. Of(k)' = Of(i) /\ Of(i) \in Pointers
        BY <1>2, <1>5, <4>2
      <4> QED BY <1>1, <3>2, <4>2, <4>3
    <3> QED BY <3>1, <3>2
  <2>6. Held(y)' <=> InTree(y)' \/ (\E q \in retired' : y \in Under'[q.ptr]) \/ (\E i \in DOMAIN todo' : y \in Under'[Of(i)'])
    BY DEF Held
  <2>7. Held(y) <=> InTree(y) \/ (\E q \in retired : y \in Under[q.ptr]) \/ (\E i \in DOMAIN todo : y \in Under[Of(i)])
    BY DEF Held
  <2>8. CASE b = h
    <3>1. y = x
      BY <1>3, <2>1, <2>8
    <3>2. ~Held(y)'
      BY <1>1, <1>8, <1>9, <2>2, <2>4, <2>5, <2>6, <3>1
    <3> QED BY <1>10, <2>3, <2>8, <3>2
  <2>9. CASE b # h
    <3>1. y \notin Under[Of(1)]
      BY <1>4, <2>2, <2>9
    <3>2. Held(y)' <=> Held(y)
      BY <1>1, <2>2, <2>4, <2>5, <2>6, <2>7, <3>1
    <3> QED BY <1>10, <2>2, <2>3, <2>9, <3>2
  <2> QED BY <2>8, <2>9
<1>12. ASSUME NEW k \in Heads, NEW b \in ChunksFrom(k) PROVE b \in freed' <=> k \in freed'
  <2>1. b \in freed <=> k \in freed
    BY DEF ChainsOK
  <2>2. b \in ChunksFrom(h) <=> k = h
    BY <1>12, ChainOnce DEF Typed
  <2> QED BY <1>10, <2>1, <2>2
<1>13. \A p \in Dead' : p \in Dead \/ ~IsRemove(p)
  <2>1. \A i \in DOMAIN todo' : todo'[i].ptr \in Dead
    BY DEF Dead
  <2> QED BY <2>1 DEF Dead
<1> QED BY <1>7, <1>11, <1>12, <1>13, ClearsMem

(* ... and it takes a NodeID out of the mapping table.                      *)
LEMMA UnmapMem ==
  ASSUME IdInv, IdInv', MemInv, Clears, retired' = retired, freed' = freed, todo' = todo
  PROVE  MemInv'
<1> USE DEF IdInv, MemInv
<1>1. /\ Pointers' = Pointers /\ Heads' = Heads
      /\ \A p \in Pointers : Under'[p] = Under[p]
      /\ \A x \in Pointers : InTree(x)' <=> InTree(x)
      /\ \A q \in retired : q.ptr \in Pointers
      /\ heap' = heap
  BY ClearsSame DEF Clears
<1>2. /\ DOMAIN todo \subseteq Nat \ {0}
      /\ \A i \in DOMAIN todo : i # 1 => todo[i].right
      /\ \A i, j \in DOMAIN todo : i < j => Of(i) \in Under[heap[todo[j].ptr].child]
      /\ \A i \in DOMAIN todo : /\ todo[i].ptr \in Pointers /\ Of(i) \in Pointers
                                /\ todo[i].right => heap[todo[i].ptr].child \in Pointers
  BY WalkIsOK
<1>3. \A i : Of(i)' = Of(i)
  BY <1>1 DEF Of
<1>4. WalkOK'
  <2>1. todo # <<>> => \E g \in Pointers : Root(g) /\ \A i \in DOMAIN todo : todo[i].ptr \in Under[g]
    BY WalkIsOK
  <2>2. \A g \in Pointers : Root(g) => Root(g)'
    BY ClearsRoot
  <2>3. ASSUME NEW i \in DOMAIN todo, NEW j \in DOMAIN todo, i < j
        PROVE  Of(i) \in Under'[heap[todo[j].ptr].child]
    <3>1. j # 1
      BY <1>2, <2>3
    <3>2. PICK c : c = heap[todo[j].ptr].child
      OBVIOUS
    <3> QED BY <1>1, <1>2, <2>3, <3>1, <3>2
  <2> QED BY <1>1, <1>2, <1>3, <2>1, <2>2, <2>3 DEF WalkOK
<1>5. ASSUME NEW b \in Heads PROVE b \in freed' <=> ~Held(End(b))'
  <2>1. PICK y : y = End(b)
    OBVIOUS
  <2>2. y \in Pointers /\ (b \in freed <=> ~Held(y))
    BY <2>1 DEF Heads, HeldOK
  <2>3. Held(End(b))' <=> Held(y)'
    BY <2>1 DEF Held, InTree, End
  <2>4. Held(y)' <=> Held(y)
    BY <1>1, <1>2, <1>3, <2>2 DEF Held
  <2> QED BY <2>2, <2>3, <2>4
<1>6. Dead' = Dead
  BY DEF Dead
<1>7. \A h \in Heads : \A b \in ChunksFrom(h) : b \in freed' <=> h \in freed'
  BY DEF ChainsOK
<1> QED BY <1>4, <1>5, <1>6, <1>7, ClearsMem

(* The steps of the cleaner one by one.                                     *)
LEMMA VisitClears ==
  ASSUME IdInv, todo # <<>>, ~IsRemove(Head(todo).ptr), Visits(todo', todo),
         UNCHANGED <<tail, next, heap, table, retired, pc, call, chunk>>
  PROVE  Clears
<1> USE DEF IdInv
<1>1. todo \in Seq([ptr : Pairs, right : BOOLEAN]) /\ 1 \in DOMAIN todo /\ Head(todo) = todo[1]
      /\ DOMAIN todo = 1 .. Len(todo)
  BY DEF Typed, CleanTyped
<1>2. \A i \in DOMAIN todo : ~IsRemove(todo[i].ptr)
  <2> SUFFICES ASSUME NEW i \in DOMAIN todo, IsRemove(todo[i].ptr) PROVE FALSE
    OBVIOUS
  <2>1. Len(todo) = 1
    BY DEF DyingOK
  <2>2. i = 1
    BY <1>1, <2>1
  <2> QED BY <1>1, <2>2
<1>3. \A i \in DOMAIN todo' : ~IsRemove(todo'[i].ptr)
  BY <1>2 DEF Visits, IsNode, IsRemove
<1>4. \A p : IsRemove(p)' <=> IsRemove(p)
  BY DEF IsRemove, Kind
<1>5. \A p : p \in Dead /\ IsRemove(p) <=> p \in Dead' /\ IsRemove(p)
  BY <1>2, <1>3 DEF Dead
<1>6. \A id : Dying(id)' <=> Dying(id)
  BY <1>4, <1>5 DEF Dying, IsRemove
<1>7. Live' = Live
  BY <1>6 DEF Live
<1> QED BY <1>7 DEF Clears

(* A page or a remove record leads nowhere. *)
LEMMA LastOne ==
  ASSUME IdInv, MemInv, NEW p \in Pointers,
         Kind(p) = "page" \/ (IsRemove(p) /\ p \in Dead)
  PROVE  /\ p[1] \in Heads /\ p = End(p[1]) /\ Under[p] = {p}
         /\ IsRemove(p) => ChunksFrom(p[1]) = {p[1]}
<1> USE DEF IdInv, MemInv
<1>1. NodeOK(p) /\ p \in Pairs
  BY DEF HeapOK, NodeOK
<1>2. p[2] = ChunkSize /\ p[1] \in Blocks
  BY <1>1 DEF NodeOK, Kind, IsRemove
<1>3. p = End(p[1]) /\ p[1] \in Heads
  <2>1. p = <<p[1], p[2]>>
    BY <1>1 DEF Pairs
  <2> QED BY <1>2, <2>1 DEF End, Heads
<1>4. \A c : ~Link(p, c)
  <2>1. CASE Kind(p) = "page"
    BY <1>1, <2>1 DEF NodeOK, Kind, Link
  <2>2. CASE IsRemove(p) /\ p \in Dead
    <3>1. heap[p].child = Null \/ Merged(heap[p].child)
      BY <2>2 DEF RootsOK
    <3>2. heap[p].right = Null
      BY <1>1, <2>2 DEF NodeOK, IsRemove, Kind
    <3> QED BY <2>2, <3>1, <3>2 DEF Link, Cut
  <2> QED BY <2>1, <2>2
<1>5. Under[p] = {p}
  <2>1. \A x : x \in Under[p] <=> x = p \/ \E c : Link(p, c) /\ x \in Under[c]
    BY UnderNow DEF UnderFact
  <2> QED BY <1>4, <2>1
<1>6. ASSUME IsRemove(p) PROVE ChunksFrom(p[1]) = {p[1]}
  <2>1. next[p[1]] = NoBlock
    BY <1>6 DEF ChainsOK
  <2>2. PICK h : h = p[1]
    OBVIOUS
  <2>3. h \in ChunksFrom(h)
    BY <1>2, <2>2, ChunksAre DEF Typed
  <2>4. ChunksFrom(h) \subseteq {h}
    <3>1. PICK S : S = {h}
      OBVIOUS
    <3>2. h \in S /\ \A a \in Blocks : a \in S /\ next[a] # NoBlock => next[a] \in S
      BY <2>1, <2>2, <3>1
    <3>3. ChunksFrom(h) \subseteq S
      BY <1>2, <2>2, <3>2, ChunksLeast DEF Typed
    <3> QED BY <3>1, <3>3
  <2> QED BY <2>2, <2>3, <2>4
<1> QED BY <1>3, <1>5, <1>6

(* SingleThreadPush: the remove record has done its work.                   *)
LEMMA PushMem ==
  ASSUME IdInv, IdInv', MemInv, SingleThreadPush
  PROVE  MemInv'
<1> USE DEF IdInv
<1>1. /\ tail' = tail /\ next' = next /\ heap' = heap /\ pc' = pc /\ call' = call /\ chunk' = chunk
      /\ table' = table /\ todo' = Tail(todo) /\ retired' = retired
      /\ freed' = freed \cup {Head(todo).ptr[1]} /\ pushing.top # NoTop
  BY DEF SingleThreadPush, Rest
<1>2. PICK d : d = pushing.id
  OBVIOUS
<1>3. /\ todo # <<>> /\ IsRemove(Head(todo).ptr) /\ heap[Head(todo).ptr].base = d /\ table[d] = Null
  BY <1>1, <1>2 DEF PushOK
<1>4. 1 \in DOMAIN todo /\ Head(todo) = todo[1] /\ DOMAIN todo = {1} /\ todo' = <<>> /\ ~todo[1].right
  <2>1. todo \in Seq([ptr : Pairs, right : BOOLEAN])
    BY DEF Typed, CleanTyped
  <2>2. 1 \in DOMAIN todo /\ Head(todo) = todo[1]
    BY <1>3, <2>1
  <2>3. Len(todo) = 1
    BY <1>3, <2>2 DEF DyingOK
  <2>4. ~todo[1].right
    BY <1>3, <2>2 DEF PointersOK, IsRemove
  <2> QED BY <1>1, <2>1, <2>2, <2>3, <2>4
<1>5. \A p : IsRemove(p)' <=> IsRemove(p)
  BY <1>1 DEF IsRemove, Kind
<1>6. Dead' = {r.ptr : r \in retired} /\ Dead = Dead' \cup {Head(todo).ptr}
  BY <1>1, <1>4 DEF Dead
<1>7. \A r \in retired : IsRemove(r.ptr) => heap[r.ptr].base # d
  BY <1>3, <1>4 DEF DyingOK
<1>8. \A id : Dying(id)' <=> Dying(id) /\ id # d
  BY <1>1, <1>3, <1>5, <1>6, <1>7 DEF Dying, IsRemove
<1>9. Live' = Live
  BY <1>1, <1>3, <1>8 DEF Live
<1>10. Clears
  BY <1>1, <1>9 DEF Clears
<1>11. PICK p : p = todo[1].ptr
  OBVIOUS
<1>12. p \in Pointers /\ p \in Dead /\ IsRemove(p)
  BY <1>3, <1>4, <1>11 DEF PointersOK, Dead
<1>13. PICK h : h = p[1]
  OBVIOUS
<1>14. h \in Heads /\ p = End(h) /\ Under[p] = {p} /\ ChunksFrom(h) = {h}
  BY <1>12, <1>13, LastOne
<1>15. Of(1) = End(h) /\ todo[1].ptr = End(h) /\ Under[End(h)] = {End(h)}
  BY <1>4, <1>11, <1>14 DEF Of
<1>16. freed' = freed \cup ChunksFrom(h)
  BY <1>1, <1>4, <1>11, <1>13, <1>14
<1>17. /\ DOMAIN todo' \subseteq Nat \ {0}
       /\ \A i \in DOMAIN todo' : i + 1 \in DOMAIN todo /\ todo'[i] = todo[i + 1]
       /\ \A i \in DOMAIN todo : i # 1 => i - 1 \in DOMAIN todo' /\ todo'[i - 1] = todo[i]
  BY <1>4
<1> QED BY <1>1, <1>3, <1>10, <1>14, <1>15, <1>16, <1>17, FreedMem

(* What a sequence is after its head has been replaced or taken away.       *)
LEMMA FrontIs ==
  ASSUME NEW S, NEW s \in Seq(S), s # <<>>, NEW x \in S, NEW new, new = <<x>> \o Tail(s)
  PROVE  /\ DOMAIN new = DOMAIN s /\ new[1] = x /\ \A i \in DOMAIN s : i # 1 => new[i] = s[i]
OBVIOUS

LEMMA RestIs ==
  ASSUME NEW S, NEW s \in Seq(S), s # <<>>, NEW new, new = Tail(s)
  PROVE  /\ DOMAIN new \subseteq Nat \ {0}
         /\ \A i \in DOMAIN new : i + 1 \in DOMAIN s /\ new[i] = s[i + 1]
         /\ \A i \in DOMAIN s : i # 1 => i - 1 \in DOMAIN new /\ new[i - 1] = s[i]
OBVIOUS

LEMMA TwoFrontsAre ==
  ASSUME NEW S, NEW s \in Seq(S), s # <<>>, NEW x \in S, NEW y \in S, NEW new, new = <<x, y>> \o Tail(s)
  PROVE  /\ DOMAIN new \subseteq Nat \ {0} /\ 1 \in DOMAIN new /\ 2 \in DOMAIN new /\ new[1] = x /\ new[2] = y
         /\ \A i \in DOMAIN new : i # 1 /\ i # 2 => i - 1 \in DOMAIN s /\ i - 1 # 1 /\ new[i] = s[i - 1]
         /\ \A i \in DOMAIN s : i # 1 => i + 1 \in DOMAIN new /\ new[i + 1] = s[i]
OBVIOUS

(* FreeEpochDeltaChain.                                                     *)
LEMMA FreeMem ==
  ASSUME IdInv, IdInv', MemInv, FreeEpochDeltaChain
  PROVE  MemInv'
<1> USE DEF IdInv
<1>1. PICK v, n : v = Head(todo) /\ n = heap[v.ptr]
  OBVIOUS
<1>2. todo # <<>> /\ pushing = NoPush
      /\ UNCHANGED <<tail, next, heap, retired, stackVars, pc, call, chunk, popped, calls>>
  BY DEF FreeEpochDeltaChain
<1>3. PICK E : E = [ptr : Pairs, right : BOOLEAN]
  OBVIOUS
<1>4. /\ todo \in Seq(E) /\ v = todo[1] /\ v \in E /\ 1 \in DOMAIN todo /\ DOMAIN todo \subseteq Nat
  <2>1. todo \in Seq(E)
    BY <1>3 DEF Typed, CleanTyped
  <2>2. DOMAIN todo = 1 .. Len(todo) /\ Len(todo) \in Nat
    BY <2>1
  <2> QED BY <1>1, <1>2, <2>1, <2>2, TailIs
<1>5. v.ptr \in Pointers /\ NodeOK(v.ptr) /\ (v.right => n.kind = "merge") /\ Kind(v.ptr) = n.kind /\ v.ptr \in Dead
  BY <1>1, <1>4 DEF PointersOK, Dead, HeapOK, Kind
<1>6. Of(1) = IF v.right THEN n.right ELSE v.ptr
  BY <1>1, <1>4 DEF Of
<1>7. ASSUME n.kind # "remove", Visits(todo', todo), table' = table PROVE Clears
  <2>1. ~IsRemove(Head(todo).ptr)
    BY <1>1, <1>7 DEF IsRemove, Kind
  <2> QED BY <1>2, <1>7, <2>1, VisitClears
<1>8. ASSUME NEW q, IsNode(q), todo' = <<Visit(q)>> \o Rest, table' = table, n.kind # "remove"
      PROVE  /\ Clears
             /\ DOMAIN todo' = DOMAIN todo /\ todo'[1] = Visit(q) /\ \A i \in DOMAIN todo : i # 1 => todo'[i] = todo[i]
  <2>1. Visit(q) \in E /\ Visit(q).ptr = q /\ Visit(q).right = FALSE
    BY <1>3, <1>8 DEF HeapOK, NodeOK, IsNode, Visit
  <2>2. DOMAIN todo' = DOMAIN todo /\ todo'[1] = Visit(q) /\ \A i \in DOMAIN todo : i # 1 => todo'[i] = todo[i]
    <3>1. PICK x : x = Visit(q)
      OBVIOUS
    <3>2. todo' = <<x>> \o Tail(todo) /\ x \in E
      BY <1>8, <2>1, <3>1 DEF Rest
    <3> QED BY <1>2, <1>4, <3>1, <3>2, FrontIs
  <2>3. Visits(todo', todo)
    <3> SUFFICES ASSUME NEW i \in DOMAIN todo'
                 PROVE  \/ IsNode(todo'[i].ptr) /\ (todo'[i].right => Kind(todo'[i].ptr) = "merge")
                        \/ \E j \in DOMAIN todo : j # 1 /\ todo'[i] = todo[j]
      BY DEF Visits
    <3>1. CASE i = 1
      BY <1>8, <2>1, <2>2, <3>1
    <3>2. CASE i # 1
      BY <2>2, <3>2
    <3> QED BY <3>1, <3>2
  <2> QED BY <1>7, <1>8, <2>2, <2>3
<1>9. \A p \in Pointers : p \in Under[p] /\ \A x : x \in Under[p] <=> x = p \/ \E c : Link(p, c) /\ x \in Under[c]
  BY UnderNow DEF UnderFact, MemInv
<1>10. \A p \in Pointers : IsNode(p) => p # Null /\ p \in Under[p]
  BY <1>9, NullNowhere DEF Typed
<1>11. CASE n.kind \in {"data", "split"} /\ todo' = <<Visit(n.child)>> \o Rest /\ UNCHANGED <<freed, table, pushing>>
  <2>1. PICK q : q = n.child
    OBVIOUS
  <2>2. IsNode(q) /\ q \in Pointers /\ n.right = Null /\ ~v.right /\ v.ptr[2] # ChunkSize
    BY <1>1, <1>5, <1>11, <2>1 DEF NodeOK, IsNode
  <2>3. \A c : Link(v.ptr, c) <=> c = q
    BY <1>1, <1>10, <1>11, <2>1, <2>2 DEF Link, Cut, IsRemove, Kind
  <2>4. \A x : x \in Under[Of(1)] <=> x = v.ptr \/ x \in Under[q]
    BY <1>5, <1>6, <1>9, <2>2, <2>3
  <2>5. q \in Under[Of(1)]
    BY <1>9, <2>2, <2>4
  <2>6. \A b \in Heads : End(b) \in Under[Of(1)] <=> End(b) \in Under[q]
    BY <2>2, <2>4 DEF End
  <2>7. /\ Clears
        /\ DOMAIN todo' = DOMAIN todo /\ todo'[1] = Visit(q) /\ \A i \in DOMAIN todo : i # 1 => todo'[i] = todo[i]
    BY <1>8, <1>11, <2>1, <2>2
  <2> QED BY <1>2, <1>11, <2>2, <2>5, <2>6, <2>7, HeadMem
<1>12. CASE n.kind = "merge" /\ v.right /\ todo' = <<Visit(n.right)>> \o Rest /\ UNCHANGED <<freed, table, pushing>>
  <2>1. PICK q : q = n.right
    OBVIOUS
  <2>2. IsNode(q) /\ q \in Pointers
    BY <1>1, <1>5, <1>12, <2>1 DEF NodeOK, IsNode
  <2>3. Of(1) = q
    BY <1>6, <1>12, <2>1
  <2>4. /\ Clears
        /\ DOMAIN todo' = DOMAIN todo /\ todo'[1] = Visit(q) /\ \A i \in DOMAIN todo : i # 1 => todo'[i] = todo[i]
    BY <1>8, <1>12, <2>1, <2>2
  <2>5. q \in Under[Of(1)] /\ \A b \in Heads : End(b) \in Under[Of(1)] <=> End(b) \in Under[q]
    BY <1>9, <2>2, <2>3
  <2> QED BY <1>2, <1>12, <2>2, <2>4, <2>5, HeadMem
<1>13. CASE /\ n.kind = "merge" /\ ~v.right
            /\ todo' = <<Visit(n.child), [v EXCEPT !.right = TRUE]>> \o Rest
            /\ UNCHANGED <<freed, table, pushing>>
  <2>1. PICK l, r : l = n.child /\ r = n.right
    OBVIOUS
  <2>2. PICK x, w : x = Visit(l) /\ w = [v EXCEPT !.right = TRUE]
    OBVIOUS
  <2>3. IsNode(l) /\ l \in Pairs /\ x \in E /\ x.ptr = l /\ x.right = FALSE
    BY <1>1, <1>3, <1>5, <1>13, <2>1, <2>2 DEF NodeOK, HeapOK, IsNode, Visit
  <2>4. w \in E /\ w.ptr = v.ptr /\ IsNode(w.ptr) /\ Kind(w.ptr) = "merge" /\ w.right
    BY <1>3, <1>4, <1>5, <1>13, <2>2 DEF IsNode
  <2>5. todo' = <<x, w>> \o Tail(todo)
    BY <1>13, <2>1, <2>2 DEF Rest
  <2>6. /\ DOMAIN todo' \subseteq Nat \ {0} /\ 1 \in DOMAIN todo' /\ 2 \in DOMAIN todo' /\ todo'[1] = x /\ todo'[2] = w
        /\ \A i \in DOMAIN todo' : i # 1 /\ i # 2 => i - 1 \in DOMAIN todo /\ i - 1 # 1 /\ todo'[i] = todo[i - 1]
        /\ \A i \in DOMAIN todo : i # 1 => i + 1 \in DOMAIN todo' /\ todo'[i + 1] = todo[i]
    BY <1>2, <1>4, <2>3, <2>4, <2>5, TwoFrontsAre
  <2>7. Visits(todo', todo)
    <3> SUFFICES ASSUME NEW i \in DOMAIN todo'
                 PROVE  \/ IsNode(todo'[i].ptr) /\ (todo'[i].right => Kind(todo'[i].ptr) = "merge")
                        \/ \E j \in DOMAIN todo : j # 1 /\ todo'[i] = todo[j]
      BY DEF Visits
    <3>1. CASE i = 1 \/ i = 2
      BY <2>3, <2>4, <2>6, <3>1
    <3>2. CASE i # 1 /\ i # 2
      BY <2>6, <3>2
    <3> QED BY <3>1, <3>2
  <2>8. Clears
    BY <1>7, <1>13, <2>7
  <2>9. PICK m : m = v.ptr
    OBVIOUS
  <2>10. /\ m = todo[1].ptr /\ Kind(m) = "merge" /\ ~todo[1].right /\ l = heap[m].child /\ r = heap[m].right
         /\ DOMAIN todo' \subseteq Nat /\ todo'[1].ptr = l /\ todo'[1].right = FALSE /\ todo'[2].ptr = m /\ todo'[2].right
    BY <1>1, <1>4, <1>5, <1>13, <2>1, <2>3, <2>4, <2>6, <2>9
  <2> QED BY <1>2, <1>13, <2>6, <2>8, <2>10, ForkMem
<1>14. CASE n.kind = "page" /\ freed' = freed \cup ChunksFrom(v.ptr[1]) /\ todo' = Rest /\ UNCHANGED <<table, pushing>>
  <2>1. PICK h, p : h = v.ptr[1] /\ p = v.ptr
    OBVIOUS
  <2>2. h \in Heads /\ p = End(h) /\ Under[p] = {p}
    BY <1>5, <1>14, <2>1, LastOne
  <2>3. Of(1) = End(h) /\ todo[1].ptr = End(h) /\ Under[End(h)] = {End(h)}
    BY <1>4, <1>5, <1>6, <1>14, <2>1, <2>2
  <2>4. /\ DOMAIN todo' \subseteq Nat \ {0}
        /\ \A i \in DOMAIN todo' : i + 1 \in DOMAIN todo /\ todo'[i] = todo[i + 1]
        /\ \A i \in DOMAIN todo : i # 1 => i - 1 \in DOMAIN todo' /\ todo'[i - 1] = todo[i]
    <3>1. todo' = Tail(todo)
      BY <1>14 DEF Rest
    <3> QED BY <1>2, <1>4, <3>1, RestIs
  <2>5. Visits(todo', todo)
    <3>1. \A i \in DOMAIN todo' : i + 1 # 1 /\ i + 1 \in DOMAIN todo /\ todo'[i] = todo[i + 1]
      BY <2>4
    <3> QED BY <3>1 DEF Visits
  <2>6. Clears
    BY <1>7, <1>14, <2>5
  <2>7. freed' = freed \cup ChunksFrom(h)
    BY <1>14, <2>1
  <2> QED BY <1>2, <2>2, <2>3, <2>4, <2>6, <2>7, FreedMem
<1>15. CASE /\ n.kind = "remove" /\ table' = [table EXCEPT ![n.base] = Null]
            /\ pushing' = [top |-> NoTop, id |-> n.base] /\ UNCHANGED <<freed, todo>>
  <2>1. PICK b : b = n.base
    OBVIOUS
  <2>2. b \in Ids /\ Dying(b)
    BY <1>1, <1>5, <1>15, <2>1 DEF NodeOK, Kind, Dying
  <2>3. table'[b] = Null /\ \A id \in Ids \ {b} : table'[id] = table[id]
    BY <1>15, <2>1, <2>2 DEF Typed, StackTyped
  <2>4. Dead' = Dead
    BY <1>2, <1>15 DEF Dead
  <2>5. \A id : Dying(id)' <=> Dying(id)
    BY <1>2, <2>4 DEF Dying, Kind
  <2>6. Live' = Live
    BY <2>2, <2>3, <2>5 DEF Live
  <2>7. \A id \in Live : table'[id] = table[id]
    BY <2>2, <2>3 DEF Live
  <2>8. Clears
    BY <1>2, <2>6, <2>7 DEF Clears
  <2> QED BY <1>2, <1>15, <2>8, UnmapMem
<1> QED BY <1>1, <1>11, <1>12, <1>13, <1>14, <1>15 DEF FreeEpochDeltaChain

(* Every step keeps the invariant.                                          *)
LEMMA NextMemInv == IdInv /\ MemInv /\ [Next]_vars => IdInv' /\ MemInv'
<1> SUFFICES ASSUME IdInv, MemInv, [Next]_vars PROVE MemInv' /\ IdInv'
  OBVIOUS
<1>1. IdInv'
  BY NextIdInv
<1>2. CASE Cleaner
  <2>1. CASE PreparePush
    <3>1. UNCHANGED <<tail, next, freed, heap, table, retired, todo, pc, call, chunk, popped>>
      BY <2>1 DEF PreparePush, memVars
    <3> QED BY <1>1, <3>1, IdleMem
  <2> QED BY <1>1, <1>2, <2>1, ClearEpochMem, FreeMem, PushMem DEF Cleaner
<1>3. ASSUME NEW t \in Threads, Start(t) PROVE MemInv'
  BY <1>3, StartBegins, BegunMem
<1>4. ASSUME NEW t \in Threads, Step(t) PROVE MemInv'
  <2>1. CASE LinkChunk(t)
    BY <2>1, SeekMem, LinkMem
  <2>2. CASE SplitNode(t)
    BY <1>1, <2>2, SplitWonMem, SplitLostMem
  <2> QED BY <1>1, <1>4, <2>1, <2>2, SeekMem, TakeMem, PopMem, PostDataMem, ConsolidateMem,
             RemoveNodeMem, MergeNodeMem DEF Step
<1>5. CASE Done \/ UNCHANGED vars
  <2>1. UNCHANGED <<tail, next, freed, heap, table, retired, todo, pc, call, chunk, popped>>
    BY <1>5 DEF Done, vars, memVars, cleanVars
  <2> QED BY <1>1, <2>1, IdleMem
<1> QED BY <1>1, <1>2, <1>3, <1>4, <1>5 DEF Next

LEMMA SpecMemInv == Spec => [](IdInv /\ MemInv)
<1>1. Init => IdInv /\ MemInv
  BY InitIdInv, InitMemInv
<1> QED BY <1>1, NextMemInv, PTL DEF Spec

(* What has a holder has not been freed.                                    *)
LEMMA HeldStands ==
  ASSUME IdInv, MemInv, NEW p \in Pointers, NEW h \in Heads, p[1] \in ChunksFrom(h), Held(End(h))
  PROVE  p[1] \notin freed
BY DEF MemInv, ChainsOK, HeldOK

(* A thread reads only what the epoch protects.                             *)
LEMMA ReadStands ==
  ASSUME IdInv, MemInv, NEW t, NEW x, Guarded(t, x), NEW p \in Under[x], x \in Pointers
  PROVE  p[1] \notin freed
<1>1. p \in Pointers /\ Under[p] \subseteq Under[x]
  BY PartNow DEF PartFact, IdInv, MemInv
<1>2. PICK h \in Heads : p[1] \in ChunksFrom(h) /\ End(h) \in Under[p]
  BY <1>1, OwnerIs DEF IdInv, Typed, MemInv
<1>3. Held(End(h))
  BY <1>1, <1>2, GuardedOver
<1> QED BY <1>1, <1>2, <1>3, HeldStands

(* The cleaner comes back only to what stands: a merge record is in the     *)
(* chain of its right branch, which it frees last.                          *)
LEMMA CleanerReads ==
  ASSUME IdInv, MemInv, NEW i \in DOMAIN todo
  PROVE  todo[i].ptr[1] \notin freed
<1>1. PICK p : p = todo[i].ptr
  OBVIOUS
<1>2. p \in Pointers /\ Of(i) \in Pointers
  BY <1>1, WalkPointers
<1>3. CASE ~todo[i].right
  <2>1. Of(i) = p
    BY <1>1, <1>3 DEF Of
  <2>2. PICK h \in Heads : p[1] \in ChunksFrom(h) /\ End(h) \in Under[p]
    BY <1>2, OwnerIs DEF IdInv, Typed, MemInv
  <2>3. Held(End(h))
    BY <2>1, <2>2 DEF Held
  <2> QED BY <1>1, <1>2, <2>2, <2>3, HeldStands
<1>4. CASE todo[i].right
  <2>1. PICK r : r = heap[p].right
    OBVIOUS
  <2>2. Kind(p) = "merge" /\ IsNode(r) /\ Of(i) = r
    BY <1>1, <1>4, <2>1, WalkPointers DEF Of
  <2>3. PICK h : h = heap[r].base
    OBVIOUS
  <2>4. h \in Heads /\ End(h) \in Under[r]
    BY <2>2, <2>3, BaseUnder DEF IsNode, IdInv, Typed, MemInv
  <2>5. p[1] \in ChunksFrom(h)
    BY <1>2, <2>1, <2>2, <2>3 DEF MemInv, ChainsOK, IsRecord, HomeOf
  <2>6. Held(End(h))
    BY <2>2, <2>4 DEF Held
  <2> QED BY <1>1, <1>2, <2>4, <2>5, <2>6, HeldStands
<1> QED BY <1>3, <1>4

LEMMA MemNoRead == IdInv /\ MemInv => NoReadOfFreed
<1> SUFFICES ASSUME IdInv, MemInv PROVE NoReadOfFreed
  OBVIOUS
<1>1. ASSUME NEW t \in Inside, NEW p \in Under[call[t].snap] PROVE p[1] \notin freed
  <2>1. t \in Threads /\ pc[t] # "out"
    BY DEF Inside
  <2>2. Guarded(t, call[t].snap) /\ call[t].snap \in Pointers
    BY <2>1, CallHome DEF MemInv, GuardsOK
  <2> QED BY <1>1, <2>2, ReadStands
<1> QED BY <1>1, CleanerReads DEF NoReadOfFreed

(* FreeEpochDeltaChain, AddGarbageNode and the comment in PostLeafMergeNode: *)
(* a thread inside the tree never reads a freed block under its snapshot,   *)
(* and the cleaner never comes back to a freed merge record, whatever is    *)
(* consolidated, split and merged meanwhile.                                *)
THEOREM TreeMemoryNoReadOfFreed == Spec => []NoReadOfFreed
BY SpecMemInv, MemNoRead, PTL

-----------------------------------------------------------------------------
(* The line has room for all nodes of the tree.                             *)
LEMMA LineOnce ==
  ASSUME TreeOK, NEW f, Line(f, NumIds)
  PROVE  \A i, j \in 1 .. NumIds : f[i] = f[j] /\ f[i] # 0 => i = j
<1>1. /\ f[1] = 1
      /\ \A i \in 1 .. NumIds : f[i] \in Live \cup {0}
      /\ \A i \in 1 .. NumIds : i # 1 => f[i] = IF f[i - 1] = 0 THEN 0 ELSE NextId(f[i - 1])
  BY LineLive
<1> DEFINE Bad == {i \in 1 .. NumIds : \E j \in 1 .. NumIds : i < j /\ f[i] = f[j] /\ f[i] # 0}
<1>2. Bad = {}
  <2> SUFFICES ASSUME Bad # {} PROVE FALSE
    OBVIOUS
  <2>1. PICK i \in Bad : \A k \in Bad : i <= k
    <3>1. Bad \in SUBSET Nat
      OBVIOUS
    <3> HIDE DEF Bad
    <3> QED BY <3>1, LeastOf
  <2>2. PICK j \in 1 .. NumIds : i < j /\ f[i] = f[j] /\ f[i] # 0
    BY <2>1
  <2>3. j # 1 /\ j - 1 \in 1 .. NumIds /\ f[j - 1] # 0 /\ f[j] = NextId(f[j - 1]) /\ f[j - 1] \in Live
    <3>1. j # 1 /\ j - 1 \in 1 .. NumIds
      BY <2>1, <2>2, Constants
    <3> QED BY <1>1, <2>2, <3>1
  <2>4. i # 1
    BY <1>1, <2>2, <2>3, Constants DEF TreeOK
  <2>5. i - 1 \in 1 .. NumIds /\ f[i - 1] # 0 /\ f[i] = NextId(f[i - 1]) /\ f[i - 1] \in Live
    <3>1. i - 1 \in 1 .. NumIds
      BY <2>1, <2>4, Constants
    <3> QED BY <1>1, <2>1, <2>2, <2>4, <3>1
  <2>6. f[i - 1] = f[j - 1]
    BY <2>2, <2>3, <2>5 DEF TreeOK
  <2>7. i - 1 < j - 1
    BY <2>1, <2>2
  <2>8. i - 1 \in Bad
    BY <2>3, <2>5, <2>6, <2>7
  <2>9. i <= i - 1
    BY <2>1, <2>8
  <2> QED BY <2>1, <2>9
<1>3. ASSUME NEW i \in 1 .. NumIds, NEW j \in 1 .. NumIds, f[i] = f[j], f[i] # 0, i # j PROVE FALSE
  <2>1. i < j \/ j < i
    BY <1>3
  <2> QED BY <1>2, <1>3, <2>1
<1> QED BY <1>3

(* ... so it ends inside the line, after the last node.                     *)
LEMMA LineCloses ==
  ASSUME TreeOK
  PROVE  1 \in TreeIds /\ \A id \in TreeIds : NextId(id) # 0 => NextId(id) \in TreeIds
<1>1. PICK f : Line(f, NumIds) /\ TreeIds = {f[i] : i \in 1 .. NumIds} \ {0}
  BY TreeLine
<1>2. /\ f[1] = 1
      /\ \A i \in 1 .. NumIds : f[i] \in Live \cup {0}
      /\ \A i \in 1 .. NumIds : i # 1 => f[i] = IF f[i - 1] = 0 THEN 0 ELSE NextId(f[i - 1])
      /\ \A i, j \in 1 .. NumIds : f[i] = f[j] /\ f[i] # 0 => i = j
  BY <1>1, LineLive, LineOnce
<1>3. PICK n : n = NumIds
  OBVIOUS
<1>4. n \in Nat /\ n >= 4 /\ 1 \in 1 .. n /\ n \in 1 .. n
  BY <1>3, Constants
<1>5. 1 \in TreeIds
  BY <1>1, <1>2, <1>3, <1>4
<1>6. ASSUME NEW i \in 1 .. n, f[i] # 0, NextId(f[i]) # 0, NextId(f[i]) \notin TreeIds PROVE FALSE
  <2>1. i = n
    <3> SUFFICES ASSUME i # n PROVE FALSE
      OBVIOUS
    <3>1. i + 1 \in 1 .. n /\ i + 1 # 1 /\ (i + 1) - 1 = i
      BY <1>4
    <3>2. f[i + 1] = NextId(f[i])
      BY <1>2, <1>3, <1>6, <3>1
    <3> QED BY <1>1, <1>3, <1>6, <3>1, <3>2
  <2> DEFINE Bad == {k \in 1 .. n : f[n + 1 - k] = 0}
  <2>2. \A k \in 1 .. n : f[k] # 0
    <3> SUFFICES ASSUME Bad # {} PROVE FALSE
      <4>1. \A k \in 1 .. n : n + 1 - k \in 1 .. n /\ n + 1 - (n + 1 - k) = k
        BY <1>4
      <4> QED BY <4>1
    <3>1. PICK k \in Bad : \A m \in Bad : k <= m
      <4>1. Bad \in SUBSET Nat
        OBVIOUS
      <4> HIDE DEF Bad
      <4> QED BY <4>1, LeastOf
    <3>2. k # 1
      BY <1>4, <1>6, <2>1, <3>1
    <3>3. PICK m : m = n + 1 - k
      OBVIOUS
    <3>4. m \in 1 .. n /\ m # n /\ f[m] = 0
      BY <1>4, <3>1, <3>2, <3>3
    <3>5. m + 1 \in 1 .. n /\ m + 1 # 1 /\ (m + 1) - 1 = m
      BY <1>4, <3>4
    <3>6. f[m + 1] = 0
      BY <1>2, <1>3, <3>4, <3>5
    <3>7. k - 1 \in 1 .. n /\ n + 1 - (k - 1) = m + 1
      BY <1>4, <3>1, <3>2, <3>3
    <3>8. k - 1 \in Bad
      BY <3>6, <3>7
    <3>9. k <= k - 1
      BY <3>1, <3>8
    <3> QED BY <3>1, <3>9
  <2> HIDE DEF Bad
  <2>3. PICK v : v = NextId(f[n])
    OBVIOUS
  <2>4. v \in Ids /\ \A k \in 1 .. n : f[k] # v /\ f[k] \in Ids
    <3>1. \A k \in 1 .. n : f[k] \in Live
      BY <1>2, <1>3, <2>2
    <3>2. v \in Live
      BY <1>4, <1>6, <2>1, <2>3, <3>1 DEF TreeOK
    <3>3. \A k \in 1 .. n : f[k] \in TreeIds
      BY <1>1, <1>3, <2>2
    <3> QED BY <1>6, <2>1, <2>3, <3>1, <3>2, <3>3 DEF Live
  <2>5. IsFiniteSet(Ids) /\ Cardinality(Ids) = n
    BY <1>3, FS_Interval, Constants
  <2>6. IsFiniteSet(Ids \ {v}) /\ Cardinality(Ids \ {v}) = n - 1
    BY <2>4, <2>5, FS_RemoveElement
  <2>7. IsFiniteSet(1 .. n) /\ Cardinality(1 .. n) = n
    BY <1>4, FS_Interval
  <2>8. PICK g : g = [k \in 1 .. n |-> f[k]]
    OBVIOUS
  <2>9. g \in Injection(1 .. n, Ids \ {v})
    <3>1. \A k \in 1 .. n : g[k] \in Ids \ {v}
      BY <2>4, <2>8
    <3>2. \A k, m \in 1 .. n : g[k] = g[m] => k = m
      BY <1>2, <1>3, <2>2, <2>8
    <3> QED BY <2>8, <3>1, <3>2 DEF Injection, IsInjective
  <2>10. n <= n - 1
    BY <2>6, <2>7, <2>9, FS_Injection
  <2> QED BY <1>4, <2>10
<1>7. \A id \in TreeIds : \E i \in 1 .. n : id = f[i] /\ f[i] # 0
  BY <1>1, <1>3
<1> QED BY <1>5, <1>6, <1>7

(* The nodes along the line are all that are live.                          *)
LEMMA TreeIdsAre == TreeOK => TreeIds = Live
<1> SUFFICES ASSUME TreeOK PROVE TreeIds = Live
  OBVIOUS
<1>1. TreeIds \subseteq Live
  BY TreeIdsLive
<1>2. Live \subseteq TreeIds
  <2>1. PICK S : S = TreeIds
    OBVIOUS
  <2>2. S \in SUBSET Ids /\ 1 \in S /\ \A id \in Live : id \in S /\ NextId(id) # 0 => NextId(id) \in S
    BY <1>1, <2>1, LineCloses DEF Live
  <2>3. Reached
    BY DEF TreeOK
  <2> QED BY <2>1, <2>2, <2>3 DEF Reached
<1> QED BY <1>1, <1>2

(* The blocks of a branch are the chunks of the pages and remove records in it. *)
LEMMA BlocksUnderAre ==
  ASSUME IdInv, MemInv, NEW p \in Pointers, NEW k \in Heads, NEW b \in ChunksFrom(k)
  PROVE  b \in BlocksUnder(p) <=> End(k) \in Under[p]
<1>1. Under[p] \subseteq Pointers
  BY UnderNow DEF UnderFact, IdInv, MemInv
<1>2. ASSUME End(k) \in Under[p] PROVE b \in BlocksUnder(p)
  <2>1. PICK q : q = End(k)
    OBVIOUS
  <2>2. q[1] = k /\ q[2] = ChunkSize /\ NodeOK(q)
    BY <1>1, <1>2, <2>1 DEF End, IdInv, HeapOK
  <2>3. heap[q].kind \in {"page", "remove"}
    BY <2>2 DEF NodeOK
  <2> QED BY <1>2, <2>1, <2>2, <2>3 DEF BlocksUnder
<1>3. ASSUME b \in BlocksUnder(p) PROVE End(k) \in Under[p]
  <2>1. PICK q \in Under[p] : heap[q].kind \in {"page", "remove"} /\ b \in ChunksFrom(q[1])
    BY <1>3 DEF BlocksUnder
  <2>2. NodeOK(q)
    BY <1>1, <2>1 DEF IdInv, HeapOK
  <2>3. PICK m \in Nat, n \in Nat : q = <<m, n>>
    BY <2>2 DEF NodeOK, Pairs
  <2>4. q[1] = m /\ q = End(m) /\ m \in Blocks
    BY <2>1, <2>2, <2>3 DEF NodeOK, End
  <2>5. m \in Heads
    BY <1>1, <2>1, <2>4 DEF Heads
  <2>6. m = k
    BY <2>1, <2>4, <2>5, ChainOnce DEF IdInv, Typed, MemInv
  <2> QED BY <2>1, <2>4, <2>6
<1> QED BY <1>2, <1>3

(* The holders, as roots of the forest and places of the walk.              *)
LEMMA HoldersAre ==
  ASSUME IdInv, MemInv
  PROVE  /\ \A h \in Holders :
              /\ h.of \in Pointers
              /\ \/ \E id \in Live : h = [who |-> "tree", of |-> table[id]]
                 \/ \E r \in retired : h = [who |-> "retired", of |-> r.ptr]
                 \/ \E i \in DOMAIN todo : h = [who |-> "cleaner", of |-> Of(i)]
         /\ \A id \in Live : [who |-> "tree", of |-> table[id]] \in Holders
         /\ \A r \in retired : [who |-> "retired", of |-> r.ptr] \in Holders
         /\ \A i \in DOMAIN todo : [who |-> "cleaner", of |-> Of(i)] \in Holders
<1>1. TreeIds = Live
  BY TreeIdsAre DEF IdInv
<1>2. /\ \A id \in Live : table[id] \in Pointers
      /\ \A r \in retired : r.ptr \in Pointers
      /\ \A i \in DOMAIN todo : Of(i) \in Pointers
  BY LiveIs, WalkPointers DEF IdInv, PointersOK, Dead
<1>3. \A h : h \in Holders <=>
        \/ \E id \in Live : h = [who |-> "tree", of |-> table[id]]
        \/ \E r \in retired : h = [who |-> "retired", of |-> r.ptr]
        \/ \E i \in DOMAIN todo : h = [who |-> "cleaner", of |-> Of(i)]
  BY <1>1, Zenon DEF Holders, Of
<1>4. \A h \in Holders : h.of \in Pointers
  BY <1>2, <1>3
<1>5. \A id \in Live : [who |-> "tree", of |-> table[id]] \in Holders
  BY <1>3, Zenon
<1>6. \A r \in retired : [who |-> "retired", of |-> r.ptr] \in Holders
  BY <1>3, Zenon
<1>7. \A i \in DOMAIN todo : [who |-> "cleaner", of |-> Of(i)] \in Holders
  BY <1>3, Zenon
<1> QED BY <1>3, <1>4, <1>5, <1>6, <1>7

(* No two of them have a node in common.                                    *)
LEMMA HoldersApart ==
  ASSUME IdInv, MemInv, NEW h \in Holders, NEW g \in Holders, NEW x, x \in Under[h.of], x \in Under[g.of]
  PROVE  h = g
<1> DEFINE InLine(k) == \E id \in Live : k = [who |-> "tree", of |-> table[id]]
           Waiting(k) == \E r \in retired : k = [who |-> "retired", of |-> r.ptr]
           Walked(k) == \E i \in DOMAIN todo : k = [who |-> "cleaner", of |-> Of(i)]
           AtTop(k) == InLine(k) \/ Waiting(k)
<1>1. /\ h.of \in Pointers /\ g.of \in Pointers
      /\ AtTop(h) \/ Walked(h)
      /\ AtTop(g) \/ Walked(g)
  BY HoldersAre
<1>2. \A k : AtTop(k) => Uppermost(k.of)
  BY DEF MemInv, RootsOK
<1>3. CASE AtTop(h) /\ AtTop(g)
  <2>1. h.of = g.of
    <3>1. Uppermost(h.of) /\ Uppermost(g.of)
      BY <1>2, <1>3
    <3> HIDE DEF AtTop
    <3> QED BY <1>1, <3>1, RootsApart DEF IdInv, MemInv
  <2>2. ~(InLine(h) /\ Waiting(g)) /\ ~(Waiting(h) /\ InLine(g))
    BY <2>1 DEF MemInv, RootsOK
  <2> QED BY <1>3, <2>1, <2>2
<1>4. ASSUME NEW k, AtTop(k), k.of \in Pointers, NEW m, Walked(m), x \in Under[k.of], x \in Under[m.of]
      PROVE  FALSE
  <2>1. PICK i \in DOMAIN todo : m.of = Of(i)
    BY <1>4
  <2>2. todo # <<>>
    BY <2>1
  <2>3. PICK r \in Pointers : Root(r) /\ Of(i) \in Under[r]
    BY <2>1, <2>2, WalkPointers
  <2>4. x \in Under[r]
    BY <1>4, <2>1, <2>3, UnderPart DEF IdInv, MemInv
  <2>5. Uppermost(r) /\ r # k.of
    BY <1>4, <2>3 DEF Root
  <2>6. Uppermost(k.of)
    BY <1>2, <1>4
  <2> QED BY <1>4, <2>3, <2>4, <2>5, <2>6, RootsApart DEF IdInv, MemInv
<1>5. ASSUME NEW i \in DOMAIN todo, NEW j \in DOMAIN todo, i < j, x \in Under[Of(i)], x \in Under[Of(j)]
      PROVE  FALSE
  <2>1. j # 1
    BY <1>5 DEF IdInv, Typed, CleanTyped
  <2>2. PICK m : m = todo[j].ptr
    OBVIOUS
  <2>3. todo[j].right /\ Of(i) \in Under[heap[m].child]
    BY <1>5, <2>1, <2>2 DEF MemInv, WalkOK
  <2>4. Of(j) = heap[m].right /\ m \in Pointers /\ Kind(m) = "merge"
    BY <2>2, <2>3, WalkPointers DEF Of
  <2>5. heap[m].child \in Pointers /\ Under[heap[m].child] \cap Under[heap[m].right] = {}
    BY <2>4, BranchesApart DEF IdInv, Typed, MemInv
  <2>6. x \in Under[heap[m].child]
    BY <1>5, <2>3, <2>5, UnderPart DEF IdInv, MemInv
  <2> QED BY <1>5, <2>4, <2>5, <2>6
<1>6. CASE Walked(h) /\ Walked(g)
  <2>1. PICK i \in DOMAIN todo : h = [who |-> "cleaner", of |-> Of(i)]
    BY <1>6
  <2>2. PICK j \in DOMAIN todo : g = [who |-> "cleaner", of |-> Of(j)]
    BY <1>6
  <2>3. i = j \/ i < j \/ j < i
    BY DEF IdInv, Typed, CleanTyped
  <2>4. ~(i < j) /\ ~(j < i)
    BY <1>5, <2>1, <2>2
  <2> QED BY <2>1, <2>2, <2>3, <2>4
<1>7. ~(AtTop(h) /\ Walked(g)) /\ ~(Walked(h) /\ AtTop(g))
  <2> HIDE DEF AtTop, Walked
  <2> QED BY <1>1, <1>4
<1> HIDE DEF AtTop, Walked
<1> QED BY <1>1, <1>3, <1>6, <1>7

(* What is held has a holder among them.                                    *)
LEMMA HeldBySome ==
  ASSUME IdInv, MemInv, NEW x
  PROVE  Held(x) <=> \E h \in Holders : x \in Under[h.of]
<1>1. ASSUME Held(x) PROVE \E h \in Holders : x \in Under[h.of]
  <2>1. ASSUME NEW id \in Live, x \in Under[table[id]] PROVE \E h \in Holders : x \in Under[h.of]
    <3>1. PICK h : h = [who |-> "tree", of |-> table[id]]
      OBVIOUS
    <3>2. h \in Holders /\ h.of = table[id]
      BY <3>1, HoldersAre
    <3> QED BY <2>1, <3>2
  <2>2. ASSUME NEW r \in retired, x \in Under[r.ptr] PROVE \E h \in Holders : x \in Under[h.of]
    <3>1. PICK h : h = [who |-> "retired", of |-> r.ptr]
      OBVIOUS
    <3>2. h \in Holders /\ h.of = r.ptr
      BY <3>1, HoldersAre
    <3> QED BY <2>2, <3>2
  <2>3. ASSUME NEW i \in DOMAIN todo, x \in Under[Of(i)] PROVE \E h \in Holders : x \in Under[h.of]
    <3>1. PICK h : h = [who |-> "cleaner", of |-> Of(i)]
      OBVIOUS
    <3>2. h \in Holders /\ h.of = Of(i)
      BY <3>1, HoldersAre
    <3> QED BY <2>3, <3>2
  <2> QED BY <1>1, <2>1, <2>2, <2>3 DEF Held, InTree
<1>2. ASSUME NEW h \in Holders, x \in Under[h.of] PROVE Held(x)
  <2>1. \/ \E id \in Live : h.of = table[id]
        \/ \E r \in retired : h.of = r.ptr
        \/ \E i \in DOMAIN todo : h.of = Of(i)
    BY HoldersAre
  <2> QED BY <1>2, <2>1 DEF Held, InTree
<1> QED BY <1>1, <1>2

(* One holder for a block: the one of the head of its chain.                *)
LEMMA MemOneHolder == IdInv /\ MemInv => OneHolder
<1> SUFFICES ASSUME IdInv, MemInv, NEW b \in Blocks
             PROVE  Cardinality({h \in Holders : b \in BlocksUnder(h.of)}) = IF b \in freed THEN 0 ELSE 1
  BY DEF OneHolder
<1>1. PICK k \in Heads : b \in ChunksFrom(k)
  BY DEF MemInv, ChainsOK
<1>2. b \in freed <=> ~Held(End(k))
  BY <1>1 DEF MemInv, ChainsOK, HeldOK
<1>3. PICK S : S = {h \in Holders : b \in BlocksUnder(h.of)}
  OBVIOUS
<1>4. \A h \in Holders : h \in S <=> End(k) \in Under[h.of]
  BY <1>1, <1>3, HoldersAre, BlocksUnderAre
<1>5. \A h, g \in S : h = g
  BY <1>3, <1>4, HoldersApart
<1>6. S = {} <=> b \in freed
  BY <1>2, <1>3, <1>4, HeldBySome
<1> QED BY <1>3, <1>5, <1>6, CountOne

(* AddGarbageNode, FreeEpochDeltaChain and AllocationMeta::Destroy: every   *)
(* block that was ever allocated, a page with its chain of chunks or a      *)
(* remove record, is reached by exactly one of those who will free it until *)
(* it has been freed, and by none after that: nothing is lost and nothing   *)
(* is freed twice, however consolidations, splits, merges and the cleaner's *)
(* walk interleave; and every NodeID is in one place.                       *)
THEOREM TreeMemoryNothingLost == Spec => []NothingLost
<1>1. OneHolder /\ IdsConserved => NothingLost
  BY DEF NothingLost
<1> QED BY <1>1, SpecMemInv, MemOneHolder, TreeMemoryIdsConserved, PTL
=============================================================================
