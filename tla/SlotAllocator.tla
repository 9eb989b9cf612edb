---------------------------- MODULE SlotAllocator ----------------------------
(***************************************************************************)
(* The slot allocator of src/mm.cpp: a bump pointer over huge pages and one *)
(* linked free list per slot size, whose head is guarded by a consumer      *)
(* spinlock and whose tail by a producer spinlock that do not exclude each  *)
(* other.  A list of one slot counts as empty.                              *)
(*                                                                         *)
(* Addresses are natural numbers; segment i is mapped at (i + 1) *          *)
(* RegionSize, as init_mem asks shmat for it.  A user may free a slot from  *)
(* another thread than the one that allocated it, as the workers do.        *)
(***************************************************************************)
EXTENDS Naturals, Sequences

CONSTANTS
  Threads,     \* threads calling larm_new_item and larm_delete_item
  NumTypes,    \* NUM_SLOT_TYPES
  SlotSize,    \* SLOT_SIZE[], as a function on 0 .. NumTypes - 1
  NumSegs,     \* num_segs, the huge pages
  RegionSize,  \* LARM_REGION_SIZE
  InitSize,    \* INIT_SIZE, bytes carved for each class by init_mem
  StraySegs,   \* what a read of seg_info[num_segs].seg may give
  NoThread     \* nobody holds the lock

Classes == 0 .. NumTypes - 1
NULL    == 0
Base    == RegionSize                \* seg_info[0].seg
Limit   == Base + NumSegs * RegionSize
Addrs   == Base .. Limit - 1
Count(c) == InitSize \div SlotSize[c]

(* Where init_mem starts carving class c. *)
Offset[c \in 0 .. NumTypes] ==
  IF c = 0 THEN Base ELSE Offset[c - 1] + Count(c - 1) * SlotSize[c - 1]

InitSlot(c, j) == Offset[c] + (j - 1) * SlotSize[c]

ASSUME SizeAssumption == /\ NumTypes \in Nat \ {0}
                         /\ SlotSize \in [Classes -> Nat \ {0}]
                         /\ NumSegs \in Nat \ {0} /\ RegionSize \in Nat \ {0}
                         /\ \A c \in Classes : SlotSize[c] <= RegionSize
ASSUME InitAssumption == /\ \A c \in Classes : Count(c) \in Nat \ {0}
                         /\ Offset[NumTypes] <= Base + RegionSize
ASSUME StrayAssumption == StraySegs \subseteq Nat /\ NoThread \notin Threads

VARIABLES
  head,          \* free_ptrs[].head
  tail,          \* free_ptrs[].tail
  consumer_lock, \* free_ptrs[].consumer_lock, and who holds it
  producer_lock, \* free_ptrs[].producer_lock, and who holds it
  next_slot,     \* next_slot of the header at an address
  lsize,         \* lsize of the header at an address
  current,       \* lmem_stat.current
  region,        \* lmem_stat.region
  mlock,         \* lmem_stat.mlock, and who holds it
  pc,            \* where a thread is
  index,         \* its local `index'
  item,          \* its local `item'
  ptr,           \* its local `ptr'
  owned,         \* history: slots handed to users and not given back
  chain,         \* history: slots linked into the free list of a class
  faulted        \* history: a header was written outside the segments

listVars   == <<head, tail, consumer_lock, producer_lock>>
headerVars == <<next_slot, lsize>>
poolVars   == <<current, region, mlock>>
localVars  == <<index, item, ptr>>
vars == <<listVars, headerVars, poolVars, pc, localVars, owned, chain, faulted>>

Init ==
  /\ chain = [c \in Classes |-> [j \in 1 .. Count(c) |-> InitSlot(c, j)]]
  /\ head = [c \in Classes |-> InitSlot(c, 1)]
  /\ tail = [c \in Classes |-> InitSlot(c, Count(c))]
  /\ consumer_lock = [c \in Classes |-> NoThread]
  /\ producer_lock = [c \in Classes |-> NoThread]
  /\ next_slot = [a \in Addrs |->
       IF \E c \in Classes : \E j \in 1 .. Count(c) - 1 : a = InitSlot(c, j)
       THEN a + SlotSize[CHOOSE c \in Classes : Offset[c] <= a /\ a < Offset[c + 1]]
       ELSE NULL]
  /\ lsize = [a \in Addrs |->
       IF a < Offset[NumTypes]
       THEN CHOOSE c \in Classes : Offset[c] <= a /\ a < Offset[c + 1] ELSE 0]
  /\ current = Offset[NumTypes]
  /\ region = 1
  /\ mlock = NoThread
  /\ pc = [t \in Threads |-> "idle"]
  /\ index = [t \in Threads |-> 0]
  /\ item = [t \in Threads |-> NULL]
  /\ ptr = [t \in Threads |-> NULL]
  /\ owned = {}
  /\ faulted = FALSE
-----------------------------------------------------------------------------
(* larm_new_item; its locals die when it returns. *)

Return(t) == /\ index' = [index EXCEPT ![t] = 0]
             /\ item' = [item EXCEPT ![t] = NULL]
             /\ ptr' = [ptr EXCEPT ![t] = NULL]

Move(t, from, to) == pc[t] = from /\ pc' = [pc EXCEPT ![t] = to]

(* A call with a size of class c: the index >= NUM_SLOT_TYPES check throws  *)
(* before any state changes.                                               *)
NewItem(t, c) ==
  /\ Move(t, "idle", "lock_head")
  /\ index' = [index EXCEPT ![t] = c]
  /\ UNCHANGED <<listVars, headerVars, poolVars, item, ptr, owned, chain, faulted>>

LockHead(t) ==
  /\ Move(t, "lock_head", "read_next")
  /\ consumer_lock[index[t]] = NoThread
  /\ consumer_lock' = [consumer_lock EXCEPT ![index[t]] = t]
  /\ UNCHANGED <<head, tail, producer_lock, headerVars, poolVars, localVars,
                 owned, chain, faulted>>

(* item = head->next_slot: NULL if the list holds one slot. *)
ReadNext_NoCheck(t) ==
  /\ Move(t, "read_next", "pop")
  /\ item' = [item EXCEPT ![t] = next_slot[head[index[t]]]]
  /\ UNCHANGED <<listVars, headerVars, poolVars, index, ptr, owned, chain, faulted>>
ReadNext(t) ==
  LET next == next_slot[head[index[t]]]
  IN  /\ Move(t, "read_next", IF next # NULL THEN "pop" ELSE "release")
      /\ item' = [item EXCEPT ![t] = next]
      /\ UNCHANGED <<listVars, headerVars, poolVars, index, ptr, owned, chain, faulted>>

(* Move the head out of the list, unlock and return it. *)
Pop(t) ==
  LET c == index[t]
  IN  /\ Move(t, "pop", "idle")
      /\ head' = [head EXCEPT ![c] = item[t]]
      /\ consumer_lock' = [consumer_lock EXCEPT ![c] = NoThread]
      /\ owned' = owned \cup {head[c]}
      /\ chain' = [chain EXCEPT ![c] = Tail(@)]
      /\ Return(t)
      /\ UNCHANGED <<tail, producer_lock, headerVars, poolVars, faulted>>

(* The list is empty: unlock it, then lock the pool. *)
ReleaseHead(t) ==
  /\ Move(t, "release", "lock_pool")
  /\ consumer_lock' = [consumer_lock EXCEPT ![index[t]] = NoThread]
  /\ UNCHANGED <<head, tail, producer_lock, headerVars, poolVars, localVars,
                 owned, chain, faulted>>

LockPool(t) ==
  /\ Move(t, "lock_pool", "carve")
  /\ mlock = NoThread
  /\ mlock' = t
  /\ UNCHANGED <<listVars, headerVars, current, region, localVars, owned, chain, faulted>>

(* seg_info[r].seg; past the array the read gives whatever lies there. *)
Segments(r) == IF r < NumSegs THEN {(r + 1) * RegionSize} ELSE StraySegs

(* "Do not enough space": larm_malloc returns NULL. *)
OutOfSpace(t) ==
  /\ Move(t, "carve", "idle")
  /\ current + SlotSize[index[t]] >= Limit
  /\ mlock' = NoThread
  /\ Return(t)
  /\ UNCHANGED <<listVars, headerVars, current, region, owned, chain, faulted>>

(* Move to the next segment when msize bytes do not end within this one.    *)
Moves_Never(t, seg) == FALSE
Moves(t, seg) == current + SlotSize[index[t]] > seg

Place(t) ==
  /\ Move(t, "carve", "header")
  /\ current + SlotSize[index[t]] < Limit
  /\ \E seg \in Segments(region) :
       IF Moves(t, seg)
         THEN /\ current' = seg /\ region' = region + 1
              /\ ptr' = [ptr EXCEPT ![t] = seg]
         ELSE /\ UNCHANGED <<current, region>>
              /\ ptr' = [ptr EXCEPT ![t] = current]
  /\ UNCHANGED <<listVars, headerVars, mlock, index, item, owned, chain, faulted>>

(* Mutant: current moves by the size asked for, the header forgotten.       *)
Carve_Short(t) ==
  LET p == ptr[t]
  IN  /\ Move(t, "header", "idle")
      /\ IF p \in Addrs
           THEN /\ lsize' = [lsize EXCEPT ![p] = index[t]]
                /\ owned' = owned \cup {p}
                /\ UNCHANGED faulted
           ELSE faulted' = TRUE /\ UNCHANGED <<lsize, owned>>
      /\ current' = current + SlotSize[index[t]] - 1
      /\ mlock' = NoThread
      /\ Return(t)
      /\ UNCHANGED <<listVars, next_slot, region, chain>>

(* Write the size class into the header, move current, unlock. *)
Carve(t) ==
  LET p == ptr[t]
  IN  /\ Move(t, "header", "idle")
      /\ IF p \in Addrs
           THEN /\ lsize' = [lsize EXCEPT ![p] = index[t]]
                /\ owned' = owned \cup {p}
                /\ UNCHANGED faulted
           ELSE faulted' = TRUE /\ UNCHANGED <<lsize, owned>>
      /\ current' = current + SlotSize[index[t]]
      /\ mlock' = NoThread
      /\ Return(t)
      /\ UNCHANGED <<listVars, next_slot, region, chain>>
-----------------------------------------------------------------------------
(* larm_delete_item *)

(* The header is made the end of a list before any lock is taken. *)
DeleteItem(t, p) ==
  /\ p \in owned
  /\ Move(t, "idle", "lock_tail")
  /\ owned' = owned \ {p}
  /\ ptr' = [ptr EXCEPT ![t] = p]
  /\ index' = [index EXCEPT ![t] = lsize[p]]
  /\ next_slot' = [next_slot EXCEPT ![p] = NULL]
  /\ UNCHANGED <<listVars, lsize, poolVars, item, chain, faulted>>

LockTail_Ignored(t) ==
  /\ Move(t, "lock_tail", "link")
  /\ producer_lock' = [producer_lock EXCEPT ![index[t]] = t]
  /\ UNCHANGED <<head, tail, consumer_lock, headerVars, poolVars, localVars,
                 owned, chain, faulted>>
LockTail(t) ==
  /\ Move(t, "lock_tail", "link")
  /\ producer_lock[index[t]] = NoThread
  /\ producer_lock' = [producer_lock EXCEPT ![index[t]] = t]
  /\ UNCHANGED <<head, tail, consumer_lock, headerVars, poolVars, localVars,
                 owned, chain, faulted>>

(* tail->next_slot = ptr *)
Link(t) ==
  LET c == index[t]
  IN  /\ Move(t, "link", "set_tail")
      /\ next_slot' = [next_slot EXCEPT ![tail[c]] = ptr[t]]
      /\ chain' = [chain EXCEPT ![c] = Append(@, ptr[t])]
      /\ UNCHANGED <<listVars, lsize, poolVars, localVars, owned, faulted>>

(* tail = ptr, unlock *)
SetTail(t) ==
  LET c == index[t]
  IN  /\ Move(t, "set_tail", "idle")
      /\ tail' = [tail EXCEPT ![c] = ptr[t]]
      /\ producer_lock' = [producer_lock EXCEPT ![c] = NoThread]
      /\ Return(t)
      /\ UNCHANGED <<head, consumer_lock, headerVars, poolVars, owned, chain, faulted>>
-----------------------------------------------------------------------------
Inside(t) == \/ LockHead(t) \/ ReadNext(t) \/ Pop(t) \/ ReleaseHead(t)
             \/ LockPool(t) \/ OutOfSpace(t) \/ Place(t) \/ Carve(t)
             \/ LockTail(t) \/ Link(t) \/ SetTail(t)

(* A write outside the mapped segments kills the process. *)
Next == ~faulted /\ \E t \in Threads : \/ \E c \in Classes : NewItem(t, c)
                                       \/ \E p \in owned : DeleteItem(t, p)
                                       \/ Inside(t)

Spec == Init /\ [][Next]_vars
-----------------------------------------------------------------------------
(* Properties *)

TypeOK ==
  /\ head \in [Classes -> Addrs] /\ tail \in [Classes -> Addrs]
  /\ consumer_lock \in [Classes -> Threads \cup {NoThread}]
  /\ producer_lock \in [Classes -> Threads \cup {NoThread}]
  /\ next_slot \in [Addrs -> Addrs \cup {NULL}]
  /\ lsize \in [Addrs -> Classes]
  /\ current \in Nat /\ region \in Nat
  /\ mlock \in Threads \cup {NoThread}
  /\ pc \in [Threads -> {"idle", "lock_head", "read_next", "pop", "release", "lock_pool",
                         "carve", "header", "lock_tail", "link", "set_tail"}]
  /\ index \in [Threads -> Classes]
  /\ item \in [Threads -> Addrs \cup {NULL}]
  /\ ptr \in [Threads -> Nat]
  /\ owned \subseteq Addrs
  /\ chain \in [Classes -> Seq(Addrs)]
  /\ faulted \in BOOLEAN

Links(c) == 1 .. Len(chain[c])

(* The free list of a class is never empty and is what head, tail and the  *)
(* next_slot pointers say, though consumers and producers run together:    *)
(* tail trails by one slot only while a producer is between its two writes. *)
ListShape ==
  \A c \in Classes :
    LET n == Len(chain[c])
    IN  /\ n > 0 /\ head[c] = chain[c][1]
        /\ \A i \in 1 .. n - 1 : next_slot[chain[c][i]] = chain[c][i + 1]
        /\ next_slot[chain[c][n]] = NULL
        /\ tail[c] = chain[c][n]
             \/ \E t \in Threads : /\ pc[t] = "set_tail" /\ index[t] = c
                                   /\ ptr[t] = chain[c][n]

(* Slots on their way back, after larm_delete_item was called. *)
Returning == {t \in Threads : pc[t] \in {"lock_tail", "link"}}

Slots == owned \cup {ptr[t] : t \in Returning}
               \cup UNION {{chain[c][i] : i \in Links(c)} : c \in Classes}

(* Two slots never share a byte. *)
SlotsDisjoint ==
  \A a, b \in Slots : a < b => a + SlotSize[lsize[a]] <= b

(* A slot lies within one segment: the network layer registers each segment *)
(* by itself and picks the key of a buffer by its first byte               *)
(* (LARM_GET_REGION in src/bnet.cpp).                                      *)
SlotsWithinSegment ==
  \A a \in Slots : a \div RegionSize = (a + SlotSize[lsize[a]] - 1) \div RegionSize

(* The allocator implements the pool: popping is Reuse, carving is Carve,  *)
(* and the write of tail->next_slot is GiveBack.                           *)
Pool == INSTANCE SlotPool WITH
          free <- chain,
          used <- {<<a, lsize[a]>> : a \in owned \cup {ptr[t] : t \in Returning}}
PoolSpec == Pool!Spec

(* A slot is memory of its own, all of it registered under one key.         *)
SlotsApart == SlotsDisjoint /\ SlotsWithinSegment
=============================================================================
