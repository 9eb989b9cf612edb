------------------------ MODULE SlotAllocatorProofs ------------------------
(* The slot allocator for every number of threads, classes and segments and *)
(* every slot size: the lists are what head, tail and next_slot say, no two *)
(* slots share a byte, and the allocator is the pool of SlotPool.           *)
EXTENDS SlotAllocator, FiniteSetTheorems, TLAPS

-----------------------------------------------------------------------------
(* The word past seg_info[], if it is taken for a segment, is the address   *)
(* of none: larm_malloc stays in the last segment or faults.                *)
StrayOutside == StraySegs \cap Addrs = {}

(* A slot is in one place: in a user's hands, on its way back, or once in   *)
(* the free list of one class.                                              *)
Apart ==
  /\ \A t \in Returning : ptr[t] \notin owned /\ \A u \in Returning : ptr[t] = ptr[u] => t = u
  /\ \A c \in Classes : \A i \in Links(c) :
       /\ chain[c][i] \notin owned
       /\ \A t \in Returning : chain[c][i] # ptr[t]
       /\ \A d \in Classes : \A j \in Links(d) : chain[c][i] = chain[d][j] => c = d /\ i = j

(* A slot knows its class, and is the end of its list before it is linked. *)
Classed ==
  /\ \A t \in Returning :
       ptr[t] \in Addrs /\ index[t] = lsize[ptr[t]] /\ next_slot[ptr[t]] = NULL
  /\ \A c \in Classes : \A i \in Links(c) : lsize[chain[c][i]] = c

Locked ==
  \A t \in Threads :
    /\ pc[t] \in {"read_next", "pop", "release"} => consumer_lock[index[t]] = t
    /\ pc[t] \in {"link", "set_tail"} => producer_lock[index[t]] = t
    /\ pc[t] \in {"carve", "header"} => mlock = t

(* What a thread read under its lock still holds. *)
Consuming ==
  \A t \in Threads : pc[t] = "pop" =>
    Len(chain[index[t]]) >= 2 /\ item[t] = chain[index[t]][2]
Producing ==
  \A t \in Threads : pc[t] = "set_tail" =>
    ptr[t] = chain[index[t]][Len(chain[index[t]])]

(* current is within the segment before seg_info[region], above every slot. *)
Regular ==
  /\ region \in 1 .. NumSegs
  /\ region * RegionSize <= current /\ current <= region * RegionSize + RegionSize
  /\ \A t \in Threads : pc[t] = "header" =>
       /\ ptr[t] = current /\ current \in Addrs
       /\ current + SlotSize[index[t]] <= region * RegionSize + RegionSize
  /\ \A a \in Slots : a + SlotSize[lsize[a]] <= current

(* A word that is no segment was taken for one: the next write faults. *)
Doomed == \E t \in Threads : pc[t] = "header" /\ ptr[t] \notin Addrs

PoolOK == faulted \/ Doomed \/ Regular

AllocInv ==
  /\ TypeOK /\ Apart /\ Classed /\ Locked /\ ListShape /\ Consuming /\ Producing
  /\ SlotsApart /\ PoolOK

-----------------------------------------------------------------------------
(* Arithmetic of slots and segments. *)

LEMMA Times == \A a, b, s \in Nat :
  /\ a <= b => a * s <= b * s
  /\ (a + 1) * s = a * s + s /\ a * s \in Nat
OBVIOUS

LEMMA Quotient ==
  ASSUME NEW x \in Nat, NEW r \in Nat \ {0}, NEW q \in Nat, q * r <= x, x < q * r + r
  PROVE  x \div r = q
<1>1. PICK d \in Nat, m \in 0 .. r - 1 : d = x \div r /\ x = r * d + m
  OBVIOUS
<1>2. CASE d < q
  <2>1. (d + 1) * r <= q * r /\ (d + 1) * r = d * r + r
    BY <1>2, Times
  <2> QED BY <1>1, <2>1
<1>3. CASE d > q
  <2>1. (q + 1) * r <= d * r /\ (q + 1) * r = q * r + r
    BY <1>3, Times
  <2> QED BY <1>1, <2>1
<1> QED BY <1>1, <1>2, <1>3

LEMMA LeastOf ==
  ASSUME NEW S \in SUBSET Nat, S # {}
  PROVE  \E x \in S : \A y \in S : x <= y
<1>1. \E x \in S : \A y \in S : ~(<<y, x>> \in OpToRel(<, Nat))
  BY NatLessThanWellFounded, WFMin
<1>2. \A x, y \in Nat : y < x => <<y, x>> \in OpToRel(<, Nat)
  BY DEF OpToRel
<1>3. PICK x \in S : \A y \in S : ~(y < x)
  BY <1>1, <1>2
<1>4. \A y \in S : x <= y
  BY <1>3
<1> QED BY <1>4

LEMMA Sizes ==
  /\ NumTypes \in Nat /\ NumTypes >= 1 /\ NumSegs \in Nat /\ NumSegs >= 1
  /\ RegionSize \in Nat /\ RegionSize >= 1 /\ Base = RegionSize
  /\ Limit \in Nat /\ Limit = NumSegs * RegionSize + RegionSize
  /\ \A c \in Classes : SlotSize[c] \in 1 .. RegionSize
  /\ Addrs = RegionSize .. Limit - 1 /\ NULL = 0 /\ 0 \notin Addrs
  /\ \A a \in Addrs : a \in Nat /\ a # NULL
  /\ 0 \in Classes /\ \A c \in Classes : c \in Nat /\ c + 1 \in 0 .. NumTypes /\ c \in 0 .. NumTypes
BY SizeAssumption DEF Base, Limit, Classes, Addrs, NULL

(* The bytes of a class at start-up. *)
Width(c) == Count(c) * SlotSize[c]

LEMMA WidthIs == \A c \in Classes : Width(c) \in Nat /\ Width(c) >= 1
<1> SUFFICES ASSUME NEW c \in Classes PROVE Width(c) \in Nat /\ Width(c) >= 1
  OBVIOUS
<1>1. PICK n \in Nat \ {0}, s \in Nat \ {0} : n = Count(c) /\ s = SlotSize[c]
  BY SizeAssumption, InitAssumption
<1>2. n * s \in Nat /\ n * s >= 1 * s
  BY Times
<1> QED BY <1>1, <1>2 DEF Width

(* The recursion that places the classes has a solution: up to 0, and from  *)
(* each class on to the next.                                               *)
Placed(g, n) ==
  \A c \in 0 .. n : g[c] = IF c = 0 THEN Base ELSE g[c - 1] + Width(c - 1)

LEMMA PlacedExists == \E g : Placed(g, NumTypes)
<1> DEFINE Bad == {n \in 0 .. NumTypes : ~\E g : Placed(g, n)}
<1> SUFFICES ASSUME Bad # {} PROVE FALSE
  BY Sizes
<1>1. PICK n \in Bad : \A m \in Bad : n <= m
  <2>1. Bad \in SUBSET Nat
    OBVIOUS
  <2> HIDE DEF Bad
  <2> QED BY <2>1, LeastOf
<1>2. CASE n = 0
  <2>1. Placed([c \in 0 .. 0 |-> Base], 0)
    BY DEF Placed
  <2> QED BY <1>1, <1>2, <2>1
<1>3. CASE n # 0
  <2>1. n - 1 \notin Bad /\ n - 1 \in 0 .. NumTypes
    BY <1>1, <1>3, Sizes
  <2>2. PICK g : Placed(g, n - 1)
    BY <2>1
  <2> DEFINE h == [c \in 0 .. n |-> IF c = n THEN g[n - 1] + Width(n - 1) ELSE g[c]]
  <2>3. ASSUME NEW c \in 0 .. n
        PROVE  h[c] = IF c = 0 THEN Base ELSE h[c - 1] + Width(c - 1)
    <3>1. CASE c = n
      <4>1. h[c] = g[n - 1] + Width(n - 1) /\ h[c - 1] = g[n - 1]
        BY <1>1, <1>3, <3>1
      <4> HIDE DEF h
      <4> QED BY <1>3, <3>1, <4>1
    <3>2. CASE c # n
      <4>1. c \in 0 .. n - 1 /\ (c # 0 => c - 1 \in 0 .. n - 1)
        BY <1>1, <3>2
      <4>2. h[c] = g[c] /\ (c # 0 => h[c - 1] = g[c - 1])
        BY <4>1
      <4>3. g[c] = IF c = 0 THEN Base ELSE g[c - 1] + Width(c - 1)
        BY <2>2, <4>1 DEF Placed
      <4> HIDE DEF h
      <4> QED BY <4>2, <4>3
    <3> QED BY <3>1, <3>2
  <2>4. Placed(h, n)
    BY <2>3 DEF Placed
  <2> QED BY <1>1, <2>4
<1> QED BY <1>2, <1>3

LEMMA OffsetIs ==
  \A c \in 0 .. NumTypes : Offset[c] = IF c = 0 THEN Base ELSE Offset[c - 1] + Width(c - 1)
<1>1. PICK f : Placed(f, NumTypes)
  BY PlacedExists
<1> DEFINE g == [c \in 0 .. NumTypes |-> f[c]]
<1>2. g = [c \in 0 .. NumTypes |->
             IF c = 0 THEN Base ELSE g[c - 1] + Count(c - 1) * SlotSize[c - 1]]
  <2> SUFFICES ASSUME NEW c \in 0 .. NumTypes
               PROVE  g[c] = IF c = 0 THEN Base ELSE g[c - 1] + Count(c - 1) * SlotSize[c - 1]
    OBVIOUS
  <2>1. c # 0 => c - 1 \in 0 .. NumTypes
    BY Sizes
  <2> QED BY <1>1, <2>1 DEF Placed, Width
<1> HIDE DEF g
<1>3. Offset = [c \in 0 .. NumTypes |->
             IF c = 0 THEN Base ELSE Offset[c - 1] + Count(c - 1) * SlotSize[c - 1]]
  BY <1>2, Zenon DEF Offset
<1> QED BY <1>3 DEF Width

LEMMA OffsetNat == \A c \in 0 .. NumTypes : Offset[c] \in Nat /\ Offset[c] >= Base
<1> DEFINE Bad == {c \in 0 .. NumTypes : ~(Offset[c] \in Nat /\ Offset[c] >= Base)}
<1> SUFFICES ASSUME Bad # {} PROVE FALSE
  OBVIOUS
<1>1. PICK n \in Bad : \A m \in Bad : n <= m
  <2>1. Bad \in SUBSET Nat
    OBVIOUS
  <2> HIDE DEF Bad
  <2> QED BY <2>1, LeastOf
<1>2. CASE n = 0
  BY <1>2, OffsetIs, Sizes
<1>3. CASE n # 0
  <2>1. n - 1 \notin Bad /\ n - 1 \in 0 .. NumTypes /\ n - 1 \in Classes
    BY <1>1, <1>3, Sizes DEF Classes
  <2>2. Offset[n - 1] \in Nat /\ Offset[n - 1] >= Base /\ Width(n - 1) \in Nat
    BY <2>1, WidthIs
  <2>3. Offset[n] = Offset[n - 1] + Width(n - 1)
    BY <1>3, OffsetIs
  <2> QED BY <2>2, <2>3, Sizes
<1> QED BY <1>2, <1>3

LEMMA OffsetNext == \A c \in Classes : Offset[c + 1] = Offset[c] + Width(c)
BY OffsetIs, Sizes

(* A later class starts where an earlier one ends, or above. *)
LEMMA OffsetGrows == \A c \in Classes : \A d \in c + 1 .. NumTypes : Offset[c + 1] <= Offset[d]
<1> SUFFICES ASSUME NEW c \in Classes PROVE \A d \in c + 1 .. NumTypes : Offset[c + 1] <= Offset[d]
  OBVIOUS
<1> DEFINE Bad == {d \in c + 1 .. NumTypes : ~(Offset[c + 1] <= Offset[d])}
<1> SUFFICES ASSUME Bad # {} PROVE FALSE
  OBVIOUS
<1>0. c \in Nat /\ NumTypes \in Nat
  BY Sizes
<1>1. PICK n \in Bad : \A m \in Bad : n <= m
  <2>1. Bad \in SUBSET Nat
    BY <1>0
  <2> HIDE DEF Bad
  <2> QED BY <2>1, LeastOf
<1>2. Offset[c + 1] \in Nat /\ Offset[n] \in Nat
  BY <1>0, OffsetNat
<1>3. CASE n = c + 1
  BY <1>2, <1>3
<1>4. CASE n # c + 1
  <2>1. n - 1 \notin Bad /\ n - 1 \in c + 1 .. NumTypes /\ n - 1 \in Classes
    BY <1>0, <1>1, <1>4 DEF Classes
  <2>2. Offset[c + 1] <= Offset[n - 1] /\ Offset[n - 1] \in Nat /\ Width(n - 1) \in Nat
    BY <1>0, <2>1, WidthIs, OffsetNat
  <2>3. Offset[n] = Offset[n - 1] + Width(n - 1)
    BY <1>0, <1>4, OffsetIs
  <2> QED BY <1>2, <2>2, <2>3
<1> QED BY <1>3, <1>4

(* The slots of a class at start-up. *)
LEMMA SlotIs ==
  ASSUME NEW c \in Classes, NEW j \in 1 .. Count(c)
  PROVE  /\ Count(c) \in Nat \ {0} /\ InitSlot(c, j) \in Nat
         /\ Offset[c] <= InitSlot(c, j) /\ InitSlot(c, j) + SlotSize[c] <= Offset[c + 1]
         /\ \A k \in 1 .. Count(c) : j < k => InitSlot(c, j) + SlotSize[c] <= InitSlot(c, k)
         /\ InitSlot(c, j + 1) = InitSlot(c, j) + SlotSize[c]
         /\ InitSlot(c, j) \in Addrs
<1>1. PICK n \in Nat \ {0}, s \in Nat \ {0}, o \in Nat :
        n = Count(c) /\ s = SlotSize[c] /\ o = Offset[c] /\ o >= Base
  BY SizeAssumption, InitAssumption, OffsetNat, Sizes
<1>2. j \in Nat /\ j - 1 \in Nat /\ j >= 1 /\ j <= n
  BY <1>1
<1>3. Offset[c + 1] = o + n * s
  BY <1>1, OffsetNext DEF Width
<1>4. PICK b \in Nat : b = (j - 1) * s /\ b + s = j * s
  <2>1. ((j - 1) + 1) * s = (j - 1) * s + s /\ (j - 1) * s \in Nat
    BY <1>2, Times
  <2> QED BY <1>2, <2>1
<1>5. InitSlot(c, j) = o + b
  BY <1>1, <1>4 DEF InitSlot
<1>6. j * s <= n * s /\ n * s \in Nat
  BY <1>1, <1>2, Times
<1>7. ASSUME NEW k \in 1 .. Count(c), j < k
      PROVE  InitSlot(c, j) + SlotSize[c] <= InitSlot(c, k)
  <2>1. k \in Nat /\ k - 1 \in Nat /\ j <= k - 1
    BY <1>1, <1>2, <1>7
  <2>2. j * s <= (k - 1) * s /\ (k - 1) * s \in Nat
    BY <1>2, <2>1, Times
  <2>3. InitSlot(c, k) = o + (k - 1) * s
    BY <1>1 DEF InitSlot
  <2> QED BY <1>1, <1>4, <1>5, <2>2, <2>3
<1>8. InitSlot(c, j + 1) = o + (b + s)
  <2>1. (j + 1) - 1 = j
    BY <1>2
  <2> QED BY <1>1, <1>4, <2>1 DEF InitSlot
<1>9. Offset[c + 1] <= Offset[NumTypes] /\ Offset[NumTypes] <= RegionSize + RegionSize
      /\ Offset[NumTypes] \in Nat /\ Offset[c + 1] \in Nat
  <2>1. NumTypes \in c + 1 .. NumTypes
    BY Sizes
  <2> QED BY <2>1, OffsetGrows, OffsetNat, InitAssumption, Sizes
<1>10. RegionSize + RegionSize <= Limit
  <2>1. 1 * RegionSize <= NumSegs * RegionSize
    BY Sizes, Times
  <2> QED BY <2>1, Sizes
<1>11. InitSlot(c, j) \in Addrs
  <2>1. o + b < Offset[c + 1]
    BY <1>1, <1>3, <1>4, <1>6
  <2>2. /\ Addrs = RegionSize .. Limit - 1 /\ Limit \in Nat /\ RegionSize \in Nat
        /\ Base = RegionSize
    BY Sizes
  <2>3. Offset[c + 1] <= Limit
    BY <1>9, <1>10, <2>2
  <2>4. o + b \in Nat /\ RegionSize <= o + b /\ o + b <= Limit - 1
    <3>1. b \in Nat /\ o \in Nat /\ RegionSize <= o
      BY <1>1, <1>4, <2>2
    <3>2. \A l, m \in Nat : o + b < m /\ m <= l => o + b <= l - 1
      BY <3>1
    <3> QED BY <1>9, <2>1, <2>2, <2>3, <3>1, <3>2
  <2> QED BY <1>5, <2>2, <2>4
<1> QED BY <1>1, <1>3, <1>4, <1>5, <1>6, <1>7, <1>8, <1>11

(* The class that an address of the initial lists was carved for. *)
LEMMA ClassOfSlot ==
  ASSUME NEW c \in Classes, NEW j \in 1 .. Count(c)
  PROVE  (CHOOSE d \in Classes : Offset[d] <= InitSlot(c, j) /\ InitSlot(c, j) < Offset[d + 1]) = c
<1>1. PICK a \in Nat : /\ a = InitSlot(c, j) /\ Offset[c] <= a /\ a < Offset[c + 1]
  <2>1. SlotSize[c] \in Nat \ {0} /\ Offset[c + 1] \in Nat
    BY Sizes, OffsetNat
  <2> QED BY <2>1, SlotIs
<1>2. ASSUME NEW d \in Classes, Offset[d] <= a, a < Offset[d + 1] PROVE d = c
  <2>1. /\ Offset[c] \in Nat /\ Offset[c + 1] \in Nat /\ Offset[d] \in Nat /\ Offset[d + 1] \in Nat
        /\ c \in Nat /\ d \in Nat /\ c \in 0 .. NumTypes /\ d \in 0 .. NumTypes
    BY OffsetNat, Sizes
  <2>2. CASE d < c
    <3>1. Offset[d + 1] <= Offset[c]
      BY <2>1, <2>2, OffsetGrows
    <3> QED BY <1>1, <1>2, <2>1, <3>1
  <2>3. CASE c < d
    <3>1. Offset[c + 1] <= Offset[d]
      BY <2>1, <2>3, OffsetGrows
    <3> QED BY <1>1, <1>2, <2>1, <3>1
  <2> QED BY <2>1, <2>2, <2>3
<1> QED BY <1>1, <1>2

LEMMA SlotUnique ==
  ASSUME NEW c \in Classes, NEW j \in 1 .. Count(c), NEW d \in Classes, NEW k \in 1 .. Count(d),
         InitSlot(c, j) = InitSlot(d, k)
  PROVE  c = d /\ j = k
<1>1. c = d
  BY ClassOfSlot
<1>2. /\ InitSlot(c, j) \in Nat /\ InitSlot(c, k) \in Nat /\ SlotSize[c] \in Nat \ {0}
      /\ Count(c) \in Nat
  BY <1>1, SlotIs, Sizes
<1>3. j < k => InitSlot(c, j) + SlotSize[c] <= InitSlot(c, k)
  BY <1>1, SlotIs
<1>4. k < j => InitSlot(c, k) + SlotSize[c] <= InitSlot(c, j)
  BY <1>1, SlotIs
<1> QED BY <1>1, <1>2, <1>3, <1>4

-----------------------------------------------------------------------------
(* What is a slot. *)

LEMMA SlotPlaces ==
  \A a : a \in Slots <=> \/ a \in owned \/ \E t \in Returning : a = ptr[t]
                         \/ \E c \in Classes : \E i \in Links(c) : a = chain[c][i]
BY DEF Slots

LEMMA SlotPlacesNext ==
  \A a : a \in Slots' <=> \/ a \in owned' \/ \E t \in Returning' : a = ptr'[t]
                          \/ \E c \in Classes : \E i \in 1 .. Len(chain'[c]) : a = chain'[c][i]
BY DEF Slots, Links

LEMMA SlotsAreAddrs ==
  ASSUME TypeOK, Classed
  PROVE  Slots \in SUBSET Addrs
<1>1. \A c \in Classes : \A i \in Links(c) : chain[c][i] \in Addrs
  BY DEF TypeOK, Links
<1>2. ASSUME NEW a \in Slots PROVE a \in Addrs
  <2>1. CASE a \in owned
    BY <2>1 DEF TypeOK
  <2>2. CASE \E t \in Returning : a = ptr[t]
    BY <2>2 DEF Classed
  <2>3. CASE \E c \in Classes : \E i \in Links(c) : a = chain[c][i]
    BY <1>1, <2>3
  <2> QED BY <2>1, <2>2, <2>3, SlotPlaces
<1> QED BY <1>2

LEMMA InitAlloc == Init => AllocInv
<1> SUFFICES ASSUME Init PROVE AllocInv
  OBVIOUS
<1>1. /\ chain = [c \in Classes |-> [j \in 1 .. Count(c) |-> InitSlot(c, j)]]
      /\ head = [c \in Classes |-> InitSlot(c, 1)]
      /\ tail = [c \in Classes |-> InitSlot(c, Count(c))]
      /\ consumer_lock = [c \in Classes |-> NoThread]
      /\ producer_lock = [c \in Classes |-> NoThread]
      /\ current = Offset[NumTypes] /\ region = 1 /\ mlock = NoThread
      /\ pc = [t \in Threads |-> "idle"] /\ index = [t \in Threads |-> 0]
      /\ item = [t \in Threads |-> NULL] /\ ptr = [t \in Threads |-> NULL]
      /\ owned = {} /\ faulted = FALSE
  BY DEF Init
<1>2. \A c \in Classes : Count(c) \in Nat \ {0} /\ 1 \in 1 .. Count(c) /\ Count(c) \in 1 .. Count(c)
  BY InitAssumption
<1>3. ASSUME NEW c \in Classes
      PROVE  chain[c] \in Seq(Addrs) /\ Len(chain[c]) = Count(c)
             /\ \A j \in 1 .. Count(c) : chain[c][j] = InitSlot(c, j)
  <2>1. chain[c] = [j \in 1 .. Count(c) |-> InitSlot(c, j)]
    BY <1>1
  <2>2. \A j \in 1 .. Count(c) : InitSlot(c, j) \in Addrs
    BY SlotIs
  <2> QED BY <1>2, <2>1, <2>2
<1>4. ASSUME NEW c \in Classes, NEW j \in 1 .. Count(c)
      PROVE  lsize[InitSlot(c, j)] = c
  <2>1. InitSlot(c, j) \in Addrs /\ InitSlot(c, j) < Offset[NumTypes]
    <3>1. /\ InitSlot(c, j) \in Nat /\ InitSlot(c, j) + SlotSize[c] <= Offset[c + 1]
          /\ InitSlot(c, j) \in Addrs
      BY SlotIs
    <3>2. /\ Offset[c + 1] <= Offset[NumTypes] /\ SlotSize[c] \in Nat \ {0}
          /\ Offset[c + 1] \in Nat /\ Offset[NumTypes] \in Nat
      <4>1. NumTypes \in c + 1 .. NumTypes
        BY Sizes
      <4> QED BY <4>1, OffsetGrows, OffsetNat, Sizes
    <3> QED BY <3>1, <3>2
  <2>2. lsize[InitSlot(c, j)]
          = CHOOSE d \in Classes : Offset[d] <= InitSlot(c, j) /\ InitSlot(c, j) < Offset[d + 1]
    BY <2>1 DEF Init
  <2> QED BY <2>2, ClassOfSlot
<1>5. ASSUME NEW c \in Classes, NEW j \in 1 .. Count(c)
      PROVE  next_slot[InitSlot(c, j)]
               = IF j < Count(c) THEN InitSlot(c, j + 1) ELSE NULL
  <2>1. InitSlot(c, j) \in Addrs /\ InitSlot(c, j + 1) = InitSlot(c, j) + SlotSize[c]
    BY SlotIs
  <2>2. (\E d \in Classes : \E k \in 1 .. Count(d) - 1 : InitSlot(c, j) = InitSlot(d, k))
          <=> j < Count(c)
    <3>1. ASSUME NEW d \in Classes, NEW k \in 1 .. Count(d) - 1, InitSlot(c, j) = InitSlot(d, k)
          PROVE  j < Count(c)
      <4>1. k \in 1 .. Count(d) /\ k < Count(d)
        BY <1>2
      <4> QED BY <3>1, <4>1, SlotUnique
    <3>2. ASSUME j < Count(c) PROVE j \in 1 .. Count(c) - 1
      BY <1>2, <3>2
    <3> QED BY <3>1, <3>2
  <2>3. next_slot[InitSlot(c, j)]
          = IF \E d \in Classes : \E k \in 1 .. Count(d) - 1 : InitSlot(c, j) = InitSlot(d, k)
            THEN InitSlot(c, j) + SlotSize[CHOOSE d \in Classes :
                                   Offset[d] <= InitSlot(c, j) /\ InitSlot(c, j) < Offset[d + 1]]
            ELSE NULL
    BY <2>1 DEF Init
  <2> QED BY <2>1, <2>2, <2>3, ClassOfSlot
<1>6. Returning = {} /\ \A t \in Threads : pc[t] = "idle"
  BY <1>1 DEF Returning
<1>7. Offset[NumTypes] \in Nat /\ RegionSize <= Offset[NumTypes]
      /\ Offset[NumTypes] <= RegionSize + RegionSize
  BY OffsetNat, InitAssumption, Sizes
<1>8. TypeOK
  <2>1. head \in [Classes -> Addrs] /\ tail \in [Classes -> Addrs]
    BY <1>1, <1>2, SlotIs
  <2>2. lsize \in [Addrs -> Classes]
    <3> DEFINE C(a) == IF a < Offset[NumTypes]
                       THEN CHOOSE c \in Classes : Offset[c] <= a /\ a < Offset[c + 1] ELSE 0
    <3>1. lsize = [a \in Addrs |-> C(a)]
      BY DEF Init
    <3>2. ASSUME NEW a \in Addrs PROVE C(a) \in Classes
      <4>1. CASE a < Offset[NumTypes]
        <5> DEFINE Above == {c \in 0 .. NumTypes : a < Offset[c]}
        <5>1. PICK c \in Above : \A d \in Above : c <= d
          <6>1. Above \in SUBSET Nat /\ NumTypes \in Above
            BY <4>1, Sizes
          <6> HIDE DEF Above
          <6> QED BY <6>1, LeastOf
        <5>2. c # 0
          BY <5>1, OffsetIs, Sizes
        <5>3. c - 1 \in Classes /\ c - 1 \in 0 .. NumTypes /\ c - 1 \notin Above /\ (c - 1) + 1 = c
          BY <5>1, <5>2, Sizes DEF Classes
        <5>4. Offset[c - 1] <= a /\ a < Offset[(c - 1) + 1]
          BY <5>1, <5>3, OffsetNat, Sizes
        <5> QED BY <4>1, <5>3, <5>4
      <4>2. CASE ~(a < Offset[NumTypes])
        BY <4>2, Sizes
      <4> QED BY <4>1, <4>2
    <3> HIDE DEF C
    <3> QED BY <3>1, <3>2
  <2>3. next_slot \in [Addrs -> Addrs \cup {NULL}]
    <3> DEFINE N(a) == IF \E c \in Classes : \E j \in 1 .. Count(c) - 1 : a = InitSlot(c, j)
                       THEN a + SlotSize[CHOOSE c \in Classes : Offset[c] <= a /\ a < Offset[c + 1]]
                       ELSE NULL
    <3>1. next_slot = [a \in Addrs |-> N(a)]
      BY DEF Init
    <3>2. ASSUME NEW a \in Addrs PROVE N(a) \in Addrs \cup {NULL}
      <4>1. CASE \E c \in Classes : \E j \in 1 .. Count(c) - 1 : a = InitSlot(c, j)
        <5>1. PICK c \in Classes : \E j \in 1 .. Count(c) - 1 : a = InitSlot(c, j)
          BY <4>1
        <5>2. PICK j \in 1 .. Count(c) - 1 : a = InitSlot(c, j)
          BY <5>1
        <5>3. j \in 1 .. Count(c) /\ j + 1 \in 1 .. Count(c) /\ j < Count(c)
          BY <1>2
        <5>4. next_slot[a] \in Addrs
          BY <1>5, <5>2, <5>3, SlotIs
        <5> QED BY <3>1, <5>4
      <4>2. CASE ~\E c \in Classes : \E j \in 1 .. Count(c) - 1 : a = InitSlot(c, j)
        BY <4>2
      <4> QED BY <4>1, <4>2
    <3> HIDE DEF N
    <3> QED BY <3>1, <3>2
  <2>4. chain \in [Classes -> Seq(Addrs)]
    BY <1>1, <1>3
  <2>5. 0 \in Classes /\ NULL \in Nat
    BY Sizes
  <2> QED BY <1>1, <1>7, <2>1, <2>2, <2>3, <2>4, <2>5 DEF TypeOK
<1>9. Apart
  <2> SUFFICES ASSUME NEW c \in Classes, NEW i \in Links(c), NEW d \in Classes, NEW j \in Links(d),
                      chain[c][i] = chain[d][j]
               PROVE  c = d /\ i = j
    BY <1>1, <1>6 DEF Apart
  <2> QED BY <1>3, SlotUnique DEF Links
<1>10. Classed
  BY <1>3, <1>4, <1>6 DEF Classed, Links
<1>11. Locked /\ Consuming /\ Producing
  BY <1>6 DEF Locked, Consuming, Producing
<1>12. ListShape
  <2> SUFFICES ASSUME NEW c \in Classes
               PROVE  /\ Len(chain[c]) > 0 /\ head[c] = chain[c][1]
                      /\ \A i \in 1 .. Len(chain[c]) - 1 : next_slot[chain[c][i]] = chain[c][i + 1]
                      /\ next_slot[chain[c][Len(chain[c])]] = NULL
                      /\ tail[c] = chain[c][Len(chain[c])]
    BY DEF ListShape
  <2>1. Len(chain[c]) = Count(c) /\ Len(chain[c]) > 0
    BY <1>2, <1>3
  <2>2. head[c] = chain[c][1] /\ tail[c] = chain[c][Count(c)]
    BY <1>1, <1>2, <1>3
  <2>3. ASSUME NEW i \in 1 .. Count(c) - 1 PROVE next_slot[chain[c][i]] = chain[c][i + 1]
    <3>1. i \in 1 .. Count(c) /\ i + 1 \in 1 .. Count(c) /\ i < Count(c)
      BY <1>2
    <3> QED BY <1>3, <1>5, <3>1
  <2>4. next_slot[chain[c][Count(c)]] = NULL
    BY <1>2, <1>3, <1>5
  <2> QED BY <2>1, <2>2, <2>3, <2>4
<1>13. ASSUME NEW a \in Slots
       PROVE  \E c \in Classes : \E j \in 1 .. Count(c) : a = InitSlot(c, j) /\ lsize[a] = c
  <2>1. PICK c \in Classes : \E i \in Links(c) : a = chain[c][i]
    BY <1>1, <1>6, SlotPlaces
  <2> QED BY <1>3, <1>4, <2>1 DEF Links
<1>14. SlotsApart
  <2>1. ASSUME NEW a \in Slots, NEW b \in Slots, a < b PROVE a + SlotSize[lsize[a]] <= b
    <3>1. PICK c \in Classes : \E j \in 1 .. Count(c) : a = InitSlot(c, j) /\ lsize[a] = c
      BY <1>13
    <3>2. PICK j \in 1 .. Count(c) : a = InitSlot(c, j) /\ lsize[a] = c
      BY <3>1
    <3>3. PICK d \in Classes : \E k \in 1 .. Count(d) : b = InitSlot(d, k)
      BY <1>13
    <3>4. PICK k \in 1 .. Count(d) : b = InitSlot(d, k)
      BY <3>3
    <3>5. /\ a \in Nat /\ b \in Nat /\ SlotSize[c] \in Nat \ {0} /\ SlotSize[d] \in Nat \ {0}
          /\ Offset[c] <= a /\ a + SlotSize[c] <= Offset[c + 1]
          /\ Offset[d] <= b /\ b + SlotSize[d] <= Offset[d + 1]
          /\ Offset[c] \in Nat /\ Offset[c + 1] \in Nat /\ Offset[d] \in Nat /\ Offset[d + 1] \in Nat
          /\ c \in Nat /\ d \in Nat /\ c \in 0 .. NumTypes /\ d \in 0 .. NumTypes
      <4>1. a \in Nat /\ Offset[c] <= a /\ a + SlotSize[c] <= Offset[c + 1]
        BY <3>2, SlotIs
      <4>2. b \in Nat /\ Offset[d] <= b /\ b + SlotSize[d] <= Offset[d + 1]
        BY <3>4, SlotIs
      <4>3. \A x \in Classes :
              /\ SlotSize[x] \in Nat \ {0} /\ Offset[x] \in Nat /\ Offset[x + 1] \in Nat
              /\ x \in Nat /\ x \in 0 .. NumTypes
        <5> SUFFICES ASSUME NEW x \in Classes
                     PROVE  /\ SlotSize[x] \in Nat \ {0} /\ Offset[x] \in Nat /\ Offset[x + 1] \in Nat
                            /\ x \in Nat /\ x \in 0 .. NumTypes
          OBVIOUS
        <5>1. x \in 0 .. NumTypes /\ x + 1 \in 0 .. NumTypes /\ x \in Nat
          BY Sizes
        <5>2. SlotSize[x] \in Nat \ {0}
          BY SizeAssumption
        <5> QED BY <5>1, <5>2, OffsetNat
      <4> QED BY <4>1, <4>2, <4>3
    <3>6. CASE c = d
      <4>1. /\ j < k => a + SlotSize[c] <= b
            /\ k < j => b + SlotSize[c] <= a
        BY <3>2, <3>4, <3>6, SlotIs
      <4> QED BY <1>2, <2>1, <3>2, <3>4, <3>5, <3>6, <4>1
    <3>7. CASE c < d
      <4>1. Offset[c + 1] <= Offset[d]
        BY <3>5, <3>7, OffsetGrows
      <4> QED BY <3>2, <3>5, <4>1
    <3>8. CASE d < c
      <4>1. Offset[d + 1] <= Offset[c]
        BY <3>5, <3>8, OffsetGrows
      <4> QED BY <2>1, <3>5, <4>1
    <3> QED BY <3>5, <3>6, <3>7, <3>8
  <2>2. ASSUME NEW a \in Slots
        PROVE  a \div RegionSize = (a + SlotSize[lsize[a]] - 1) \div RegionSize
    <3>1. PICK c \in Classes : \E j \in 1 .. Count(c) : a = InitSlot(c, j) /\ lsize[a] = c
      BY <1>13
    <3>2. PICK j \in 1 .. Count(c) : a = InitSlot(c, j) /\ lsize[a] = c
      BY <3>1
    <3>3. PICK s \in Nat \ {0} : s = SlotSize[c]
      BY Sizes
    <3>4. a \in Nat /\ RegionSize <= a /\ a + s <= RegionSize + RegionSize
      <4>1. /\ a \in Nat /\ Offset[c] <= a /\ a + s <= Offset[c + 1]
            /\ Offset[c] \in Nat /\ RegionSize <= Offset[c]
        BY <3>2, <3>3, SlotIs, OffsetNat, Sizes
      <4>2. Offset[c + 1] <= Offset[NumTypes] /\ Offset[c + 1] \in Nat
        <5>1. NumTypes \in c + 1 .. NumTypes
          BY Sizes
        <5> QED BY <5>1, OffsetGrows, OffsetNat, Sizes
      <4> QED BY <1>7, <4>1, <4>2, Sizes
    <3>5. /\ RegionSize \in Nat \ {0} /\ a + s - 1 \in Nat /\ 1 * RegionSize = RegionSize
          /\ a < RegionSize + RegionSize
          /\ RegionSize <= a + s - 1 /\ a + s - 1 < RegionSize + RegionSize
      BY <3>4, Sizes
    <3>6. a \div RegionSize = 1
      BY <3>4, <3>5, Quotient
    <3>7. (a + s - 1) \div RegionSize = 1
      BY <3>4, <3>5, Quotient
    <3> QED BY <3>2, <3>3, <3>6, <3>7
  <2> QED BY <2>1, <2>2 DEF SlotsApart, SlotsDisjoint, SlotsWithinSegment
<1>15. PoolOK
  <2>1. ASSUME NEW a \in Slots PROVE a + SlotSize[lsize[a]] <= current
    <3>1. PICK c \in Classes : \E j \in 1 .. Count(c) : a = InitSlot(c, j) /\ lsize[a] = c
      BY <1>13
    <3>2. PICK j \in 1 .. Count(c) : a = InitSlot(c, j) /\ lsize[a] = c
      BY <3>1
    <3>3. /\ a \in Nat /\ a + SlotSize[c] <= Offset[c + 1] /\ SlotSize[c] \in Nat
          /\ Offset[c + 1] \in Nat
      BY <3>2, SlotIs, OffsetNat, Sizes
    <3>4. Offset[c + 1] <= Offset[NumTypes]
      <4>1. NumTypes \in c + 1 .. NumTypes
        BY Sizes
      <4> QED BY <4>1, OffsetGrows
    <3> QED BY <1>1, <1>7, <3>2, <3>3, <3>4
  <2>2. region \in 1 .. NumSegs /\ region * RegionSize = RegionSize
    BY <1>1, Sizes
  <2>3. Regular
    BY <1>1, <1>6, <1>7, <2>1, <2>2 DEF Regular
  <2> QED BY <2>3 DEF PoolOK
<1> QED BY <1>8, <1>9, <1>10, <1>11, <1>12, <1>14, <1>15 DEF AllocInv

-----------------------------------------------------------------------------
(* What a step leaves as it was. *)

LEMMA MoveFacts ==
  ASSUME TypeOK, NEW t \in Threads, NEW from, NEW to, Move(t, from, to)
  PROVE  pc[t] = from /\ pc'[t] = to /\ \A u \in Threads \ {t} : pc'[u] = pc[u]
BY DEF TypeOK, Move

LEMMA ReturnFacts ==
  ASSUME TypeOK, NEW t \in Threads, Return(t)
  PROVE  /\ index' \in [Threads -> Classes] /\ item' \in [Threads -> Addrs \cup {NULL}]
         /\ ptr' \in [Threads -> Nat]
         /\ \A u \in Threads \ {t} : index'[u] = index[u] /\ item'[u] = item[u] /\ ptr'[u] = ptr[u]
BY Sizes DEF TypeOK, Return

(* Only t may come or go among the threads of a state. *)
SameReturning == Returning' = Returning
                 /\ \A u \in Returning : ptr'[u] = ptr[u] /\ index'[u] = index[u]

LEMMA QuietHeap ==
  ASSUME AllocInv, chain' = chain, owned' = owned, headerVars' = headerVars, SameReturning
  PROVE  Apart' /\ Classed' /\ Slots' = Slots /\ SlotsApart'
<1> USE DEF AllocInv, headerVars, SameReturning
<1>1. Apart'
  BY DEF Apart, Links
<1>2. Classed'
  BY DEF Classed, Links
<1>3. Slots' = Slots
  <2>1. {ptr[t] : t \in Returning}' = {ptr[t] : t \in Returning}
    OBVIOUS
  <2> QED BY <2>1 DEF Slots, Links
<1>4. SlotsApart'
  BY <1>3 DEF SlotsApart, SlotsDisjoint, SlotsWithinSegment
<1> QED BY <1>1, <1>2, <1>3, <1>4

LEMMA QuietLists ==
  ASSUME AllocInv, chain' = chain, head' = head, tail' = tail, next_slot' = next_slot,
         \A u \in Threads : pc[u] = "set_tail" <=> pc'[u] = "set_tail",
         \A u \in Threads : pc[u] = "set_tail" => index'[u] = index[u] /\ ptr'[u] = ptr[u]
  PROVE  ListShape' /\ Producing'
<1>1. ListShape'
  BY DEF AllocInv, ListShape
<1>2. Producing'
  BY DEF AllocInv, Producing
<1> QED BY <1>1, <1>2

LEMMA QuietPool ==
  ASSUME AllocInv, current' = current, region' = region, faulted' = faulted, lsize' = lsize,
         Slots' = Slots, \A u \in Threads : pc[u] = "header" <=> pc'[u] = "header",
         \A u \in Threads : pc[u] = "header" => index'[u] = index[u] /\ ptr'[u] = ptr[u]
  PROVE  PoolOK'
<1>1. Doomed => Doomed'
  BY DEF Doomed
<1>2. Regular => Regular'
  BY DEF Regular
<1> QED BY <1>1, <1>2 DEF AllocInv, PoolOK

(* Where no thread can be, for a step of another. *)
LEMMA ReturningSame ==
  ASSUME NEW t \in Threads,
         \A u \in Threads \ {t} : pc'[u] = pc[u] /\ index'[u] = index[u] /\ ptr'[u] = ptr[u],
         \/ pc[t] \notin {"lock_tail", "link"} /\ pc'[t] \notin {"lock_tail", "link"}
         \/ /\ pc[t] \in {"lock_tail", "link"} /\ pc'[t] \in {"lock_tail", "link"}
            /\ index'[t] = index[t] /\ ptr'[t] = ptr[t]
  PROVE  SameReturning
<1>1. \A u \in Threads : u \in Returning' <=> u \in Returning
  BY DEF Returning
<1>2. Returning' = Returning
  BY <1>1 DEF Returning
<1>3. \A u \in Returning : ptr'[u] = ptr[u] /\ index'[u] = index[u]
  BY DEF Returning
<1> QED BY <1>2, <1>3 DEF SameReturning

-----------------------------------------------------------------------------
(* larm_new_item *)

LEMMA NewItemStep ==
  ASSUME AllocInv, NEW t \in Threads, NEW c \in Classes, NewItem(t, c)
  PROVE  AllocInv'
<1> USE DEF AllocInv
<1>1. /\ Move(t, "idle", "lock_head") /\ index' = [index EXCEPT ![t] = c]
      /\ head' = head /\ tail' = tail /\ consumer_lock' = consumer_lock
      /\ producer_lock' = producer_lock /\ next_slot' = next_slot /\ lsize' = lsize
      /\ current' = current /\ region' = region /\ mlock' = mlock
      /\ item' = item /\ ptr' = ptr /\ owned' = owned /\ chain' = chain /\ faulted' = faulted
  BY DEF NewItem, listVars, headerVars, poolVars
<1>2. /\ pc[t] = "idle" /\ pc'[t] = "lock_head"
      /\ \A u \in Threads \ {t} : pc'[u] = pc[u] /\ index'[u] = index[u]
  BY <1>1, MoveFacts DEF TypeOK
<1>3. TypeOK'
  BY <1>1 DEF TypeOK, Move
<1>4. Apart' /\ Classed' /\ Slots' = Slots /\ SlotsApart'
  <2>1. SameReturning
    BY <1>1, <1>2, ReturningSame
  <2> QED BY <1>1, <2>1, QuietHeap DEF headerVars
<1>5. ListShape' /\ Producing'
  <2>1. \A u \in Threads : pc[u] = "set_tail" <=> pc'[u] = "set_tail"
    BY <1>2
  <2>2. \A u \in Threads : pc[u] = "set_tail" => index'[u] = index[u] /\ ptr'[u] = ptr[u]
    BY <1>1, <1>2
  <2> QED BY <1>1, <2>1, <2>2, QuietLists
<1>6. PoolOK'
  <2>1. \A u \in Threads : pc[u] = "header" <=> pc'[u] = "header"
    BY <1>2
  <2>2. \A u \in Threads : pc[u] = "header" => index'[u] = index[u] /\ ptr'[u] = ptr[u]
    BY <1>1, <1>2
  <2> QED BY <1>1, <1>4, <2>1, <2>2, QuietPool
<1>7. Locked'
  BY <1>1, <1>2 DEF Locked
<1>8. Consuming'
  BY <1>1, <1>2 DEF Consuming
<1> QED BY <1>3, <1>4, <1>5, <1>6, <1>7, <1>8

LEMMA LockHeadStep ==
  ASSUME AllocInv, NEW t \in Threads, LockHead(t)
  PROVE  AllocInv'
<1> USE DEF AllocInv
<1>1. /\ Move(t, "lock_head", "read_next") /\ consumer_lock[index[t]] = NoThread
      /\ consumer_lock' = [consumer_lock EXCEPT ![index[t]] = t]
      /\ head' = head /\ tail' = tail /\ producer_lock' = producer_lock
      /\ next_slot' = next_slot /\ lsize' = lsize
      /\ current' = current /\ region' = region /\ mlock' = mlock /\ index' = index
      /\ item' = item /\ ptr' = ptr /\ owned' = owned /\ chain' = chain /\ faulted' = faulted
  BY DEF LockHead, headerVars, poolVars, localVars
<1>2. /\ pc[t] = "lock_head" /\ pc'[t] = "read_next"
      /\ \A u \in Threads \ {t} : pc'[u] = pc[u]
  BY <1>1, MoveFacts
<1>3. TypeOK'
  BY <1>1 DEF TypeOK, Move
<1>4. Apart' /\ Classed' /\ Slots' = Slots /\ SlotsApart'
  <2>1. SameReturning
    BY <1>1, <1>2, ReturningSame
  <2> QED BY <1>1, <2>1, QuietHeap DEF headerVars
<1>5. ListShape' /\ Producing'
  <2>1. \A u \in Threads : pc[u] = "set_tail" <=> pc'[u] = "set_tail"
    BY <1>2
  <2> QED BY <1>1, <2>1, QuietLists
<1>6. PoolOK'
  <2>1. \A u \in Threads : pc[u] = "header" <=> pc'[u] = "header"
    BY <1>2
  <2> QED BY <1>1, <1>4, <2>1, QuietPool
<1>7. Locked'
  <2>1. \A c \in Classes : c # index[t] => consumer_lock'[c] = consumer_lock[c]
    BY <1>1 DEF TypeOK
  <2>2. consumer_lock'[index[t]] = t
    BY <1>1 DEF TypeOK
  <2>3. \A u \in Threads : index[u] \in Classes /\ u # NoThread
    BY StrayAssumption DEF TypeOK
  <2> QED BY <1>1, <1>2, <2>1, <2>2, <2>3 DEF Locked
<1>8. Consuming'
  BY <1>1, <1>2 DEF Consuming
<1> QED BY <1>3, <1>4, <1>5, <1>6, <1>7, <1>8

(* A next slot is there only if the list holds two. *)
LEMMA ReadNextStep ==
  ASSUME AllocInv, NEW t \in Threads, ReadNext(t)
  PROVE  AllocInv'
<1> USE DEF AllocInv
<1> DEFINE next == next_slot[head[index[t]]]
           to   == IF next # NULL THEN "pop" ELSE "release"
<1>1. /\ Move(t, "read_next", to) /\ item' = [item EXCEPT ![t] = next]
      /\ head' = head /\ tail' = tail /\ consumer_lock' = consumer_lock
      /\ producer_lock' = producer_lock /\ next_slot' = next_slot /\ lsize' = lsize
      /\ current' = current /\ region' = region /\ mlock' = mlock /\ index' = index
      /\ ptr' = ptr /\ owned' = owned /\ chain' = chain /\ faulted' = faulted
  BY DEF ReadNext, listVars, headerVars, poolVars
<1>2. /\ pc[t] = "read_next" /\ pc'[t] = to
      /\ \A u \in Threads \ {t} : pc'[u] = pc[u] /\ item'[u] = item[u]
  <2> HIDE DEF next, to
  <2> QED BY <1>1, MoveFacts DEF TypeOK
<1>3. TypeOK'
  <2>1. index[t] \in Classes
    BY DEF TypeOK
  <2>2. next \in Addrs \cup {NULL}
    BY <2>1 DEF TypeOK
  <2>3. pc' \in [Threads -> {"idle", "lock_head", "read_next", "pop", "release", "lock_pool",
                             "carve", "header", "lock_tail", "link", "set_tail"}]
    BY <1>1 DEF TypeOK, Move
  <2> QED BY <1>1, <2>2, <2>3 DEF TypeOK
<1>4. Apart' /\ Classed' /\ Slots' = Slots /\ SlotsApart'
  <2>1. SameReturning
    BY <1>1, <1>2, ReturningSame
  <2> QED BY <1>1, <2>1, QuietHeap DEF headerVars
<1>5. ListShape' /\ Producing'
  <2>1. \A u \in Threads : pc[u] = "set_tail" <=> pc'[u] = "set_tail"
    BY <1>2
  <2> QED BY <1>1, <2>1, QuietLists
<1>6. PoolOK'
  <2>1. \A u \in Threads : pc[u] = "header" <=> pc'[u] = "header"
    BY <1>2
  <2> QED BY <1>1, <1>4, <2>1, QuietPool
<1>7. Locked'
  BY <1>1, <1>2 DEF Locked
<1>8. Consuming'
  <2>1. ASSUME next # NULL
        PROVE  Len(chain[index[t]]) >= 2 /\ next = chain[index[t]][2]
    <3>1. PICK c \in Classes : c = index[t]
      BY DEF TypeOK
    <3>2. PICK n \in Nat : n = Len(chain[c])
      BY DEF TypeOK
    <3>3. /\ n > 0 /\ head[c] = chain[c][1] /\ next_slot[chain[c][n]] = NULL
          /\ \A i \in 1 .. n - 1 : next_slot[chain[c][i]] = chain[c][i + 1]
      BY <3>2 DEF ListShape
    <3>4. n # 1
      BY <2>1, <3>1, <3>3
    <3>5. n >= 2 /\ 1 \in 1 .. n - 1
      BY <3>3, <3>4
    <3> QED BY <3>1, <3>2, <3>3, <3>5
  <2>2. item'[t] = next
    BY <1>1 DEF TypeOK
  <2> HIDE DEF next
  <2> QED BY <1>1, <1>2, <2>1, <2>2 DEF Consuming
<1> QED BY <1>3, <1>4, <1>5, <1>6, <1>7, <1>8

(* The head leaves the list; what was its second slot is the head now. *)
LEMMA PopStep ==
  ASSUME AllocInv, NEW t \in Threads, Pop(t)
  PROVE  AllocInv'
<1> USE DEF AllocInv
<1>1. PICK c \in Classes : c = index[t]
  BY DEF TypeOK
<1>2. /\ Move(t, "pop", "idle") /\ head' = [head EXCEPT ![c] = item[t]]
      /\ consumer_lock' = [consumer_lock EXCEPT ![c] = NoThread]
      /\ owned' = owned \cup {head[c]} /\ chain' = [chain EXCEPT ![c] = Tail(@)] /\ Return(t)
      /\ tail' = tail /\ producer_lock' = producer_lock
      /\ next_slot' = next_slot /\ lsize' = lsize
      /\ current' = current /\ region' = region /\ mlock' = mlock /\ faulted' = faulted
  BY <1>1 DEF Pop, headerVars, poolVars
<1>3. /\ pc[t] = "pop" /\ pc'[t] = "idle"
      /\ \A u \in Threads \ {t} :
           pc'[u] = pc[u] /\ index'[u] = index[u] /\ item'[u] = item[u] /\ ptr'[u] = ptr[u]
  BY <1>2, MoveFacts, ReturnFacts
<1>4. PICK n \in Nat : n = Len(chain[c]) /\ n >= 2 /\ item[t] = chain[c][2]
  <2>1. Len(chain[c]) \in Nat
    BY DEF TypeOK
  <2>2. Len(chain[c]) >= 2 /\ item[t] = chain[c][2]
    BY <1>1, <1>3 DEF Consuming
  <2> QED BY <2>1, <2>2
<1>5. chain[c] \in Seq(Addrs) /\ head[c] = chain[c][1] /\ consumer_lock[c] = t
  BY <1>1, <1>3 DEF TypeOK, ListShape, Locked
<1>6. /\ chain'[c] \in Seq(Addrs) /\ Len(chain'[c]) = n - 1
      /\ \A i \in 1 .. n - 1 : chain'[c][i] = chain[c][i + 1]
      /\ \A d \in Classes : d # c => chain'[d] = chain[d]
  <2>1. chain'[c] = Tail(chain[c])
    BY <1>2 DEF TypeOK
  <2>2. \A d \in Classes : d # c => chain'[d] = chain[d]
    BY <1>2 DEF TypeOK
  <2>3. chain[c] # <<>>
    BY <1>4
  <2> QED BY <1>4, <1>5, <2>1, <2>2, <2>3
<1>7. item[t] \in Addrs /\ head[c] \in Addrs
  BY <1>4, <1>5
<1>8. TypeOK'
  <2>1. /\ pc' \in [Threads -> {"idle", "lock_head", "read_next", "pop", "release", "lock_pool",
                             "carve", "header", "lock_tail", "link", "set_tail"}]
        /\ index' \in [Threads -> Classes] /\ item' \in [Threads -> Addrs \cup {NULL}]
        /\ ptr' \in [Threads -> Nat]
    BY <1>2, ReturnFacts DEF TypeOK, Move
  <2>2. chain' \in [Classes -> Seq(Addrs)]
    BY <1>2, <1>6 DEF TypeOK
  <2>3. head' \in [Classes -> Addrs] /\ owned' \subseteq Addrs
    BY <1>2, <1>7 DEF TypeOK
  <2>4. consumer_lock' \in [Classes -> Threads \cup {NoThread}]
    BY <1>2 DEF TypeOK
  <2> QED BY <1>2, <2>1, <2>2, <2>3, <2>4 DEF TypeOK
<1>9. SameReturning
  BY <1>3, ReturningSame
(* An index of the shorter list names a slot of the longer one. *)
<1>10. \A d \in Classes : \A i \in 1 .. Len(chain'[d]) :
         \E k \in Links(d) : chain'[d][i] = chain[d][k]
                             /\ k = (IF d = c THEN i + 1 ELSE i)
  <2> SUFFICES ASSUME NEW d \in Classes, NEW i \in 1 .. Len(chain'[d])
               PROVE  \E k \in Links(d) : chain'[d][i] = chain[d][k]
                                          /\ k = (IF d = c THEN i + 1 ELSE i)
    OBVIOUS
  <2>1. CASE d = c
    <3>1. i \in 1 .. n - 1 /\ i + 1 \in Links(c)
      BY <1>4, <1>6, <2>1 DEF Links
    <3> QED BY <1>6, <2>1, <3>1
  <2>2. CASE d # c
    BY <1>6, <2>2 DEF Links
  <2> QED BY <2>1, <2>2
<1>11. Apart'
  <2>1. ASSUME NEW u \in Returning'
        PROVE  ptr'[u] \notin owned' /\ \A v \in Returning' : ptr'[u] = ptr'[v] => u = v
    <3>1. ptr[u] # head[c]
      BY <1>4, <1>5, <1>9, <2>1 DEF Apart, SameReturning, Links
    <3> QED BY <1>2, <1>9, <2>1, <3>1 DEF Apart, SameReturning
  <2>2. ASSUME NEW d \in Classes, NEW i \in 1 .. Len(chain'[d])
        PROVE  /\ chain'[d][i] \notin owned'
               /\ \A u \in Returning' : chain'[d][i] # ptr'[u]
               /\ \A e \in Classes : \A j \in 1 .. Len(chain'[e]) :
                    chain'[d][i] = chain'[e][j] => d = e /\ i = j
    <3>1. PICK k \in Links(d) : chain'[d][i] = chain[d][k] /\ k = (IF d = c THEN i + 1 ELSE i)
      BY <1>10
    <3>2. chain[d][k] # head[c]
      <4>1. 1 \in Links(c)
        BY <1>4 DEF Links
      <4>2. chain[d][k] = chain[c][1] => d = c /\ k = 1
        BY <4>1 DEF Apart
      <4>3. i \in Nat /\ i >= 1
        OBVIOUS
      <4> QED BY <1>5, <3>1, <4>2, <4>3
    <3>3. chain'[d][i] \notin owned' /\ \A u \in Returning' : chain'[d][i] # ptr'[u]
      BY <1>2, <1>9, <3>1, <3>2 DEF Apart, SameReturning
    <3>4. ASSUME NEW e \in Classes, NEW j \in 1 .. Len(chain'[e]), chain'[d][i] = chain'[e][j]
          PROVE  d = e /\ i = j
      <4>1. PICK m \in Links(e) : chain'[e][j] = chain[e][m] /\ m = (IF e = c THEN j + 1 ELSE j)
        BY <1>10
      <4>2. d = e /\ k = m
        BY <3>1, <3>4, <4>1 DEF Apart
      <4> QED BY <3>1, <4>1, <4>2
    <3> QED BY <3>3, <3>4
  <2> QED BY <2>1, <2>2 DEF Apart, Links
<1>12. Classed'
  <2>1. \A d \in Classes : \A i \in 1 .. Len(chain'[d]) : lsize[chain'[d][i]] = d
    BY <1>10 DEF Classed
  <2> QED BY <1>2, <1>9, <2>1 DEF Classed, SameReturning, Links
<1>13. Slots' = Slots
  <2>1. ASSUME NEW a \in Slots' PROVE a \in Slots
    <3>1. \/ a \in owned' \/ \E u \in Returning' : a = ptr'[u]
          \/ \E d \in Classes : \E i \in 1 .. Len(chain'[d]) : a = chain'[d][i]
      BY SlotPlacesNext
    <3>2. CASE a \in owned'
      <4>1. 1 \in Links(c)
        BY <1>4 DEF Links
      <4> QED BY <1>2, <1>5, <3>2, <4>1, SlotPlaces
    <3>3. CASE \E u \in Returning' : a = ptr'[u]
      BY <1>9, <3>3, SlotPlaces DEF SameReturning
    <3>4. CASE \E d \in Classes : \E i \in 1 .. Len(chain'[d]) : a = chain'[d][i]
      BY <1>10, <3>4, SlotPlaces
    <3> QED BY <3>1, <3>2, <3>3, <3>4
  <2>2. ASSUME NEW a \in Slots PROVE a \in Slots'
    <3>1. CASE a \in owned
      BY <1>2, <3>1, SlotPlacesNext
    <3>2. CASE \E u \in Returning : a = ptr[u]
      BY <1>9, <3>2, SlotPlacesNext DEF SameReturning
    <3>3. CASE \E d \in Classes : \E i \in Links(d) : a = chain[d][i]
      <4>1. PICK d \in Classes : \E i \in Links(d) : a = chain[d][i]
        BY <3>3
      <4>2. PICK i \in Links(d) : a = chain[d][i]
        BY <4>1
      <4>3. CASE d # c
        <5>1. i \in 1 .. Len(chain'[d]) /\ a = chain'[d][i]
          BY <1>6, <4>2, <4>3 DEF Links
        <5> QED BY <5>1, SlotPlacesNext
      <4>4. CASE d = c /\ i = 1
        <5>1. a \in owned'
          BY <1>2, <1>5, <4>2, <4>4
        <5> QED BY <5>1, SlotPlacesNext
      <4>5. CASE d = c /\ i # 1
        <5>1. i - 1 \in 1 .. n - 1 /\ (i - 1) + 1 = i
          BY <1>4, <4>2, <4>5 DEF Links
        <5>2. i - 1 \in 1 .. Len(chain'[c]) /\ a = chain'[c][i - 1]
          BY <1>6, <4>2, <4>5, <5>1
        <5> QED BY <5>2, SlotPlacesNext
      <4> QED BY <4>3, <4>4, <4>5
    <3> QED BY <3>1, <3>2, <3>3, SlotPlaces
  <2> QED BY <2>1, <2>2
<1>14. SlotsApart'
  BY <1>2, <1>13 DEF SlotsApart, SlotsDisjoint, SlotsWithinSegment
<1>15. PoolOK'
  <2>1. \A u \in Threads : pc[u] = "header" <=> pc'[u] = "header"
    BY <1>3
  <2>2. \A u \in Threads : pc[u] = "header" => index'[u] = index[u] /\ ptr'[u] = ptr[u]
    BY <1>3
  <2> QED BY <1>2, <1>13, <2>1, <2>2, QuietPool
<1>16. Locked'
  <2>1. \A d \in Classes : d # c => consumer_lock'[d] = consumer_lock[d]
    BY <1>2 DEF TypeOK
  <2>2. \A u \in Threads : index[u] \in Classes
    BY DEF TypeOK
  <2> QED BY <1>2, <1>3, <1>5, <2>1, <2>2 DEF Locked
(* No other thread is at this head. *)
<1>17. \A u \in Threads \ {t} : pc[u] = "pop" => index[u] # c
  BY <1>5 DEF Locked
<1>18. Consuming'
  <2> SUFFICES ASSUME NEW u \in Threads, pc'[u] = "pop"
               PROVE  Len(chain'[index'[u]]) >= 2 /\ item'[u] = chain'[index'[u]][2]
    BY DEF Consuming
  <2>1. u # t /\ index[u] \in Classes
    BY <1>3 DEF TypeOK
  <2>2. pc[u] = "pop" /\ index'[u] = index[u] /\ item'[u] = item[u] /\ index[u] # c
    BY <1>3, <1>17, <2>1
  <2>3. chain'[index[u]] = chain[index[u]]
    BY <1>6, <2>1, <2>2
  <2> QED BY <2>2, <2>3 DEF Consuming
<1>19. \A d \in Classes : Len(chain'[d]) > 0 /\ chain'[d][Len(chain'[d])] = chain[d][Len(chain[d])]
  <2> SUFFICES ASSUME NEW d \in Classes
               PROVE  Len(chain'[d]) > 0 /\ chain'[d][Len(chain'[d])] = chain[d][Len(chain[d])]
    OBVIOUS
  <2>1. CASE d = c
    <3>1. n - 1 \in 1 .. n - 1 /\ (n - 1) + 1 = n
      BY <1>4
    <3> QED BY <1>4, <1>6, <2>1, <3>1
  <2>2. CASE d # c
    BY <1>6, <2>2 DEF ListShape
  <2> QED BY <2>1, <2>2
<1>20. Producing'
  <2> SUFFICES ASSUME NEW u \in Threads, pc'[u] = "set_tail"
               PROVE  ptr'[u] = chain'[index'[u]][Len(chain'[index'[u]])]
    BY DEF Producing
  <2>1. u # t /\ index[u] \in Classes
    BY <1>3 DEF TypeOK
  <2> QED BY <1>3, <1>19, <2>1 DEF Producing
<1>21. ListShape'
  <2> SUFFICES ASSUME NEW d \in Classes
               PROVE  /\ Len(chain'[d]) > 0 /\ head'[d] = chain'[d][1]
                      /\ \A i \in 1 .. Len(chain'[d]) - 1 :
                           next_slot'[chain'[d][i]] = chain'[d][i + 1]
                      /\ next_slot'[chain'[d][Len(chain'[d])]] = NULL
                      /\ tail'[d] = chain'[d][Len(chain'[d])]
                           \/ \E u \in Threads : /\ pc'[u] = "set_tail" /\ index'[u] = d
                                                 /\ ptr'[u] = chain'[d][Len(chain'[d])]
    BY DEF ListShape
  <2>1. tail'[d] = chain'[d][Len(chain'[d])]
          \/ \E u \in Threads : /\ pc'[u] = "set_tail" /\ index'[u] = d
                                /\ ptr'[u] = chain'[d][Len(chain'[d])]
    <3>1. CASE tail[d] = chain[d][Len(chain[d])]
      BY <1>2, <1>19, <3>1
    <3>2. CASE \E u \in Threads : /\ pc[u] = "set_tail" /\ index[u] = d
                                  /\ ptr[u] = chain[d][Len(chain[d])]
      <4>1. PICK u \in Threads : /\ pc[u] = "set_tail" /\ index[u] = d
                                 /\ ptr[u] = chain[d][Len(chain[d])]
        BY <3>2
      <4>2. u # t
        BY <1>3, <4>1
      <4> QED BY <1>3, <1>19, <4>1, <4>2
    <3> QED BY <3>1, <3>2 DEF ListShape
  <2>2. next_slot'[chain'[d][Len(chain'[d])]] = NULL /\ Len(chain'[d]) > 0
    BY <1>2, <1>19 DEF ListShape
  <2>3. CASE d = c
    <3>1. head'[d] = chain'[d][1]
      BY <1>2, <1>4, <1>6, <2>3 DEF TypeOK
    <3>2. ASSUME NEW i \in 1 .. Len(chain'[d]) - 1
          PROVE  next_slot'[chain'[d][i]] = chain'[d][i + 1]
      <4>1. i \in 1 .. n - 1 /\ i + 1 \in 1 .. n - 1
        BY <1>4, <1>6, <2>3
      <4>2. next_slot[chain[c][i + 1]] = chain[c][(i + 1) + 1]
        BY <1>4, <4>1 DEF ListShape
      <4> QED BY <1>2, <1>6, <2>3, <4>1, <4>2
    <3> QED BY <2>1, <2>2, <3>1, <3>2
  <2>4. CASE d # c
    <3>1. head'[d] = head[d]
      BY <1>2, <2>4 DEF TypeOK
    <3> QED BY <1>2, <1>6, <2>1, <2>2, <2>4, <3>1 DEF ListShape
  <2> QED BY <2>3, <2>4
<1> QED BY <1>8, <1>11, <1>12, <1>14, <1>15, <1>16, <1>18, <1>20, <1>21

(* The list is empty: on to the pool. *)
LEMMA ReleaseHeadStep ==
  ASSUME AllocInv, NEW t \in Threads, ReleaseHead(t)
  PROVE  AllocInv'
<1> USE DEF AllocInv
<1>1. /\ Move(t, "release", "lock_pool")
      /\ consumer_lock' = [consumer_lock EXCEPT ![index[t]] = NoThread]
      /\ head' = head /\ tail' = tail /\ producer_lock' = producer_lock
      /\ next_slot' = next_slot /\ lsize' = lsize
      /\ current' = current /\ region' = region /\ mlock' = mlock /\ index' = index
      /\ item' = item /\ ptr' = ptr /\ owned' = owned /\ chain' = chain /\ faulted' = faulted
  BY DEF ReleaseHead, headerVars, poolVars, localVars
<1>2. /\ pc[t] = "release" /\ pc'[t] = "lock_pool"
      /\ \A u \in Threads \ {t} : pc'[u] = pc[u]
  BY <1>1, MoveFacts
<1>3. TypeOK'
  BY <1>1 DEF TypeOK, Move
<1>4. Apart' /\ Classed' /\ Slots' = Slots /\ SlotsApart'
  <2>1. SameReturning
    BY <1>1, <1>2, ReturningSame
  <2> QED BY <1>1, <2>1, QuietHeap DEF headerVars
<1>5. ListShape' /\ Producing'
  <2>1. \A u \in Threads : pc[u] = "set_tail" <=> pc'[u] = "set_tail"
    BY <1>2
  <2> QED BY <1>1, <2>1, QuietLists
<1>6. PoolOK'
  <2>1. \A u \in Threads : pc[u] = "header" <=> pc'[u] = "header"
    BY <1>2
  <2> QED BY <1>1, <1>4, <2>1, QuietPool
<1>7. Locked'
  <2>1. \A c \in Classes : c # index[t] => consumer_lock'[c] = consumer_lock[c]
    BY <1>1 DEF TypeOK
  <2>2. consumer_lock[index[t]] = t
    BY <1>2 DEF Locked
  <2>3. \A u \in Threads : index[u] \in Classes
    BY DEF TypeOK
  <2> QED BY <1>1, <1>2, <2>1, <2>2, <2>3 DEF Locked
<1>8. Consuming'
  BY <1>1, <1>2 DEF Consuming
<1> QED BY <1>3, <1>4, <1>5, <1>6, <1>7, <1>8

LEMMA LockPoolStep ==
  ASSUME AllocInv, NEW t \in Threads, LockPool(t)
  PROVE  AllocInv'
<1> USE DEF AllocInv
<1>1. /\ Move(t, "lock_pool", "carve") /\ mlock = NoThread /\ mlock' = t
      /\ head' = head /\ tail' = tail /\ consumer_lock' = consumer_lock
      /\ producer_lock' = producer_lock /\ next_slot' = next_slot /\ lsize' = lsize
      /\ current' = current /\ region' = region /\ index' = index
      /\ item' = item /\ ptr' = ptr /\ owned' = owned /\ chain' = chain /\ faulted' = faulted
  BY DEF LockPool, listVars, headerVars, localVars
<1>2. /\ pc[t] = "lock_pool" /\ pc'[t] = "carve"
      /\ \A u \in Threads \ {t} : pc'[u] = pc[u]
  BY <1>1, MoveFacts
<1>3. TypeOK'
  BY <1>1 DEF TypeOK, Move
<1>4. Apart' /\ Classed' /\ Slots' = Slots /\ SlotsApart'
  <2>1. SameReturning
    BY <1>1, <1>2, ReturningSame
  <2> QED BY <1>1, <2>1, QuietHeap DEF headerVars
<1>5. ListShape' /\ Producing'
  <2>1. \A u \in Threads : pc[u] = "set_tail" <=> pc'[u] = "set_tail"
    BY <1>2
  <2> QED BY <1>1, <2>1, QuietLists
<1>6. PoolOK'
  <2>1. \A u \in Threads : pc[u] = "header" <=> pc'[u] = "header"
    BY <1>2
  <2> QED BY <1>1, <1>4, <2>1, QuietPool
<1>7. Locked'
  <2>1. \A u \in Threads : u # NoThread
    BY StrayAssumption
  <2> QED BY <1>1, <1>2, <2>1 DEF Locked
<1>8. Consuming'
  BY <1>1, <1>2 DEF Consuming
<1> QED BY <1>3, <1>4, <1>5, <1>6, <1>7, <1>8

LEMMA OutOfSpaceStep ==
  ASSUME AllocInv, NEW t \in Threads, OutOfSpace(t)
  PROVE  AllocInv'
<1> USE DEF AllocInv
<1>1. /\ Move(t, "carve", "idle") /\ mlock' = NoThread /\ Return(t)
      /\ head' = head /\ tail' = tail /\ consumer_lock' = consumer_lock
      /\ producer_lock' = producer_lock /\ next_slot' = next_slot /\ lsize' = lsize
      /\ current' = current /\ region' = region
      /\ owned' = owned /\ chain' = chain /\ faulted' = faulted
  BY DEF OutOfSpace, listVars, headerVars
<1>2. /\ pc[t] = "carve" /\ pc'[t] = "idle"
      /\ \A u \in Threads \ {t} :
           pc'[u] = pc[u] /\ index'[u] = index[u] /\ item'[u] = item[u] /\ ptr'[u] = ptr[u]
  BY <1>1, MoveFacts, ReturnFacts
<1>3. TypeOK'
  <2>1. /\ index' \in [Threads -> Classes] /\ item' \in [Threads -> Addrs \cup {NULL}]
        /\ ptr' \in [Threads -> Nat]
    BY <1>1, ReturnFacts
  <2> QED BY <1>1, <2>1 DEF TypeOK, Move
<1>4. Apart' /\ Classed' /\ Slots' = Slots /\ SlotsApart'
  <2>1. SameReturning
    BY <1>2, ReturningSame
  <2> QED BY <1>1, <2>1, QuietHeap DEF headerVars
<1>5. ListShape' /\ Producing'
  <2>1. \A u \in Threads : pc[u] = "set_tail" <=> pc'[u] = "set_tail"
    BY <1>2
  <2>2. \A u \in Threads : pc[u] = "set_tail" => index'[u] = index[u] /\ ptr'[u] = ptr[u]
    BY <1>2
  <2> QED BY <1>1, <2>1, <2>2, QuietLists
<1>6. PoolOK'
  <2>1. \A u \in Threads : pc[u] = "header" <=> pc'[u] = "header"
    BY <1>2
  <2>2. \A u \in Threads : pc[u] = "header" => index'[u] = index[u] /\ ptr'[u] = ptr[u]
    BY <1>2
  <2> QED BY <1>1, <1>4, <2>1, <2>2, QuietPool
<1>7. Locked'
  <2>1. mlock = t
    BY <1>2 DEF Locked
  <2> QED BY <1>1, <1>2, <2>1 DEF Locked
<1>8. Consuming'
  <2> SUFFICES ASSUME NEW u \in Threads, pc'[u] = "pop"
               PROVE  Len(chain'[index'[u]]) >= 2 /\ item'[u] = chain'[index'[u]][2]
    BY DEF Consuming
  <2>1. u # t
    BY <1>2
  <2> QED BY <1>1, <1>2, <2>1 DEF Consuming
<1> QED BY <1>3, <1>4, <1>5, <1>6, <1>7, <1>8

(* The place found is above every slot, and the slot ends within a segment. *)
LEMMA PlaceStep ==
  ASSUME AllocInv, StrayOutside, ~faulted, NEW t \in Threads, Place(t)
  PROVE  AllocInv'
<1> USE DEF AllocInv
<1>1. PICK size \in 1 .. RegionSize : size = SlotSize[index[t]]
  BY Sizes DEF TypeOK
<1>2. PICK seg \in Segments(region) :
        IF current + size > seg
        THEN current' = seg /\ region' = region + 1 /\ ptr' = [ptr EXCEPT ![t] = seg]
        ELSE current' = current /\ region' = region /\ ptr' = [ptr EXCEPT ![t] = current]
  BY <1>1 DEF Place, Moves
<1>3. /\ Move(t, "carve", "header") /\ current + size < Limit
      /\ head' = head /\ tail' = tail /\ consumer_lock' = consumer_lock
      /\ producer_lock' = producer_lock /\ next_slot' = next_slot /\ lsize' = lsize
      /\ mlock' = mlock /\ index' = index /\ item' = item
      /\ owned' = owned /\ chain' = chain /\ faulted' = faulted
  BY <1>1 DEF Place, listVars, headerVars
<1>4. /\ pc[t] = "carve" /\ pc'[t] = "header"
      /\ \A u \in Threads \ {t} : pc'[u] = pc[u] /\ ptr'[u] = ptr[u]
  BY <1>2, <1>3, MoveFacts DEF TypeOK
<1>5. /\ RegionSize \in Nat /\ RegionSize >= 1 /\ NumSegs \in Nat /\ NumSegs >= 1
      /\ Limit = NumSegs * RegionSize + RegionSize /\ Limit \in Nat
      /\ Addrs = RegionSize .. Limit - 1
      /\ current \in Nat /\ region \in Nat /\ size \in Nat
  BY Sizes DEF TypeOK
<1>6. seg \in Nat
  <2>1. CASE region < NumSegs
    <3>1. (region + 1) * RegionSize \in Nat
      BY <1>5, Times
    <3> QED BY <2>1, <3>1 DEF Segments
  <2>2. CASE ~(region < NumSegs)
    BY <2>2, StrayAssumption DEF Segments
  <2> QED BY <2>1, <2>2
<1>7. TypeOK'
  <2>1. current' \in Nat /\ region' \in Nat /\ ptr' \in [Threads -> Nat]
    <3>1. CASE current + size > seg
      <4>1. current' = seg /\ region' = region + 1 /\ ptr' = [ptr EXCEPT ![t] = seg]
        BY <1>2, <3>1
      <4>2. region' \in Nat
        BY <1>5, <4>1
      <4>3. [ptr EXCEPT ![t] = seg] \in [Threads -> Nat]
        BY <1>6 DEF TypeOK
      <4> QED BY <1>6, <4>1, <4>2, <4>3
    <3>2. CASE ~(current + size > seg)
      BY <1>2, <1>5, <3>2 DEF TypeOK
    <3> QED BY <3>1, <3>2
  <2> QED BY <1>3, <2>1 DEF TypeOK, Move
<1>8. Apart' /\ Classed' /\ Slots' = Slots /\ SlotsApart'
  <2>1. SameReturning
    BY <1>3, <1>4, ReturningSame
  <2> QED BY <1>3, <2>1, QuietHeap DEF headerVars
<1>9. ListShape' /\ Producing'
  <2>1. \A u \in Threads : pc[u] = "set_tail" <=> pc'[u] = "set_tail"
    BY <1>4
  <2>2. \A u \in Threads : pc[u] = "set_tail" => index'[u] = index[u] /\ ptr'[u] = ptr[u]
    BY <1>3, <1>4
  <2> QED BY <1>3, <2>1, <2>2, QuietLists
<1>10. Locked'
  BY <1>3, <1>4 DEF Locked
<1>11. Consuming'
  BY <1>3, <1>4 DEF Consuming
(* Only t is between the two writes to the pool. *)
<1>12. \A u \in Threads \ {t} : pc[u] \notin {"carve", "header"}
  BY <1>4 DEF Locked
<1>13. Regular
  BY <1>12, <1>4 DEF PoolOK, Doomed
<1>14. PICK low \in Nat : low = region * RegionSize
  BY <1>5, Times
<1>15. /\ region \in 1 .. NumSegs /\ low <= current /\ current <= low + RegionSize
       /\ \A a \in Slots : a + SlotSize[lsize[a]] <= current
  BY <1>13, <1>14 DEF Regular
<1>16. RegionSize <= low
  <2>1. 1 * RegionSize <= region * RegionSize
    BY <1>5, <1>15, Times
  <2> QED BY <1>5, <1>14, <2>1
<1>17. \A a \in Slots : a \in Nat /\ SlotSize[lsize[a]] \in Nat
  <2>1. \A a \in Slots : a \in Addrs /\ a \in Nat
    BY SlotsAreAddrs, Sizes
  <2>2. \A a \in Slots : SlotSize[lsize[a]] \in Nat
    BY <2>1, SizeAssumption DEF TypeOK
  <2> QED BY <2>1, <2>2
<1>18. \A u \in Threads : pc'[u] = "header" => u = t
  BY <1>4, <1>12
<1>19. CASE region < NumSegs
  <2>1. seg = low + RegionSize /\ seg = (region + 1) * RegionSize
    <3>1. (region + 1) * RegionSize = region * RegionSize + RegionSize
      BY <1>5, Times
    <3> QED BY <1>14, <1>19, <3>1 DEF Segments
  <2>2. low + RegionSize + RegionSize <= Limit
    <3>1. (region + 1) * RegionSize <= NumSegs * RegionSize /\ NumSegs * RegionSize \in Nat
      BY <1>5, <1>19, Times
    <3> QED BY <1>5, <2>1, <3>1
  <2>3. CASE current + size > seg
    <3>1. current' = seg /\ region' = region + 1 /\ ptr'[t] = seg
      BY <1>2, <2>3 DEF TypeOK
    <3>2. region' * RegionSize = seg /\ region' \in 1 .. NumSegs
      BY <1>5, <1>19, <2>1, <3>1
    <3>3. seg + size <= seg + RegionSize /\ seg \in Addrs
      BY <1>5, <1>6, <1>14, <1>16, <2>1, <2>2
    <3>4. \A a \in Slots : a + SlotSize[lsize[a]] <= seg
      BY <1>5, <1>6, <1>14, <1>15, <1>17, <2>1
    <3>5. Regular'
      BY <1>1, <1>3, <1>6, <1>5, <1>8, <1>18, <3>1, <3>2, <3>3, <3>4 DEF Regular
    <3> QED BY <1>7, <1>8, <1>9, <1>10, <1>11, <3>5 DEF PoolOK
  <2>4. CASE ~(current + size > seg)
    <3>1. current' = current /\ region' = region /\ ptr'[t] = current
      BY <1>2, <2>4 DEF TypeOK
    <3>2. current \in Addrs /\ current + size <= low + RegionSize
      BY <1>1, <1>3, <1>5, <1>6, <1>14, <1>15, <1>16, <2>1, <2>4
    <3>3. Regular'
      BY <1>1, <1>3, <1>8, <1>14, <1>15, <1>18, <3>1, <3>2 DEF Regular
    <3> QED BY <1>7, <1>8, <1>9, <1>10, <1>11, <3>3 DEF PoolOK
  <2> QED BY <2>3, <2>4
<1>20. CASE ~(region < NumSegs)
  <2>1. seg \in StraySegs /\ seg \notin Addrs /\ region = NumSegs
    BY <1>15, <1>20, <1>5 DEF Segments, StrayOutside
  <2>2. low + RegionSize = Limit
    BY <1>5, <1>14, <2>1
  <2>3. CASE current + size > seg
    <3>1. ptr'[t] = seg
      BY <1>2, <2>3 DEF TypeOK
    <3>2. Doomed'
      BY <1>4, <2>1, <3>1 DEF Doomed
    <3> QED BY <1>7, <1>8, <1>9, <1>10, <1>11, <3>2 DEF PoolOK
  <2>4. CASE ~(current + size > seg)
    <3>1. current' = current /\ region' = region /\ ptr'[t] = current
      BY <1>2, <2>4 DEF TypeOK
    <3>2. current \in Addrs /\ current + size <= low + RegionSize
      BY <1>1, <1>3, <1>5, <1>14, <1>15, <1>16, <2>2
    <3>3. Regular'
      BY <1>1, <1>3, <1>8, <1>14, <1>15, <1>18, <3>1, <3>2 DEF Regular
    <3> QED BY <1>7, <1>8, <1>9, <1>10, <1>11, <3>3 DEF PoolOK
  <2> QED BY <2>3, <2>4
<1> QED BY <1>19, <1>20

(* A new slot, above all the others. *)
LEMMA CarveStep ==
  ASSUME AllocInv, ~faulted, NEW t \in Threads, Carve(t)
  PROVE  AllocInv'
<1> USE DEF AllocInv
<1> DEFINE p == ptr[t]
<1>1. /\ Move(t, "header", "idle") /\ mlock' = NoThread /\ Return(t)
      /\ current' = current + SlotSize[index[t]]
      /\ IF p \in Addrs
         THEN lsize' = [lsize EXCEPT ![p] = index[t]] /\ owned' = owned \cup {p}
              /\ faulted' = faulted
         ELSE faulted' = TRUE /\ lsize' = lsize /\ owned' = owned
      /\ head' = head /\ tail' = tail /\ consumer_lock' = consumer_lock
      /\ producer_lock' = producer_lock /\ next_slot' = next_slot
      /\ region' = region /\ chain' = chain
  BY DEF Carve, listVars
<1>2. /\ pc[t] = "header" /\ pc'[t] = "idle"
      /\ \A u \in Threads \ {t} :
           pc'[u] = pc[u] /\ index'[u] = index[u] /\ item'[u] = item[u] /\ ptr'[u] = ptr[u]
  BY <1>1, MoveFacts, ReturnFacts
<1>3. PICK c \in Classes, size \in 1 .. RegionSize : c = index[t] /\ size = SlotSize[c]
  BY Sizes DEF TypeOK
<1>4. RegionSize \in Nat /\ RegionSize >= 1 /\ current \in Nat
  BY Sizes DEF TypeOK
<1>5. TypeOK'
  <2>1. /\ index' \in [Threads -> Classes] /\ item' \in [Threads -> Addrs \cup {NULL}]
        /\ ptr' \in [Threads -> Nat]
    BY <1>1, ReturnFacts
  <2>2. current' \in Nat
    BY <1>1, <1>3, <1>4
  <2>3. lsize' \in [Addrs -> Classes] /\ owned' \subseteq Addrs /\ faulted' \in BOOLEAN
    BY <1>1, <1>3 DEF TypeOK
  <2>4. pc' \in [Threads -> {"idle", "lock_head", "read_next", "pop", "release", "lock_pool",
                             "carve", "header", "lock_tail", "link", "set_tail"}]
        /\ mlock' \in Threads \cup {NoThread}
    BY <1>1 DEF TypeOK, Move
  <2> QED BY <1>1, <2>1, <2>2, <2>3, <2>4 DEF TypeOK
<1>6. SameReturning
  BY <1>2, ReturningSame
<1>7. ListShape' /\ Producing'
  <2>1. \A u \in Threads : pc[u] = "set_tail" <=> pc'[u] = "set_tail"
    BY <1>2
  <2>2. \A u \in Threads : pc[u] = "set_tail" => index'[u] = index[u] /\ ptr'[u] = ptr[u]
    BY <1>2
  <2> QED BY <1>1, <2>1, <2>2, QuietLists
<1>8. Locked'
  <2>1. mlock = t
    BY <1>2 DEF Locked
  <2> QED BY <1>1, <1>2, <2>1 DEF Locked
<1>9. Consuming'
  <2> SUFFICES ASSUME NEW u \in Threads, pc'[u] = "pop"
               PROVE  Len(chain'[index'[u]]) >= 2 /\ item'[u] = chain'[index'[u]][2]
    BY DEF Consuming
  <2>1. u # t
    BY <1>2
  <2> QED BY <1>1, <1>2, <2>1 DEF Consuming
<1>10. CASE p \notin Addrs
  <2>1. headerVars' = headerVars /\ owned' = owned
    BY <1>1, <1>10 DEF headerVars
  <2>2. Apart' /\ Classed' /\ SlotsApart'
    BY <1>1, <1>6, <2>1, QuietHeap
  <2>3. PoolOK'
    BY <1>1, <1>10 DEF PoolOK
  <2> QED BY <1>5, <1>7, <1>8, <1>9, <2>2, <2>3
<1>11. CASE p \in Addrs
  <2>1. /\ lsize' = [lsize EXCEPT ![p] = c] /\ owned' = owned \cup {p} /\ faulted' = faulted
        /\ current' = current + size
    BY <1>1, <1>3, <1>11
  <2>2. \A u \in Threads \ {t} : pc[u] # "header"
    BY <1>2 DEF Locked
  <2>3. Regular
    BY <1>2, <1>11, <2>2 DEF PoolOK, Doomed
  <2>4. /\ p = current /\ p \in Nat
    BY <1>2, <1>4, <2>3 DEF Regular
  <2>5. \A a \in Slots : a \in Addrs /\ a \in Nat /\ SlotSize[lsize[a]] \in Nat \ {0}
                         /\ a + SlotSize[lsize[a]] <= p
    <3>1. \A a \in Slots : a \in Addrs /\ a \in Nat
      BY SlotsAreAddrs, Sizes
    <3>2. \A a \in Slots : SlotSize[lsize[a]] \in Nat \ {0}
      BY <3>1, SizeAssumption DEF TypeOK
    <3>3. \A a \in Slots : a + SlotSize[lsize[a]] <= p
      BY <2>3, <2>4 DEF Regular
    <3> QED BY <3>1, <3>2, <3>3
  <2>6. \A a \in Slots : a < p
    BY <2>4, <2>5
  <2>7. p \notin Slots
    BY <2>4, <2>6
  <2>8. /\ p \notin owned /\ \A u \in Returning : ptr[u] # p
        /\ \A d \in Classes : \A i \in Links(d) : chain[d][i] # p
    BY <2>7, SlotPlaces
  <2>9. Slots' = Slots \cup {p}
    <3>1. {ptr[u] : u \in Returning}' = {ptr[u] : u \in Returning}
      BY <1>6 DEF SameReturning
    <3>2. UNION {{chain[d][i] : i \in Links(d)} : d \in Classes}'
            = UNION {{chain[d][i] : i \in Links(d)} : d \in Classes}
      BY <1>1 DEF Links
    <3> QED BY <2>1, <3>1, <3>2 DEF Slots
  <2>10. lsize'[p] = c /\ \A a \in Slots : lsize'[a] = lsize[a]
    BY <1>11, <2>1, <2>5, <2>7 DEF TypeOK
  <2>11. Apart'
    BY <1>1, <1>6, <2>1, <2>8 DEF Apart, SameReturning, Links
  <2>12. Classed'
    <3>1. \A u \in Returning : lsize'[ptr[u]] = lsize[ptr[u]]
      BY <2>10, SlotPlaces
    <3>2. \A d \in Classes : \A i \in Links(d) : lsize'[chain[d][i]] = lsize[chain[d][i]]
      BY <2>10, SlotPlaces
    <3> QED BY <1>1, <1>6, <3>1, <3>2 DEF Classed, SameReturning, Links
  <2>13. SlotsDisjoint'
    <3> SUFFICES ASSUME NEW a \in Slots', NEW b \in Slots', a < b
                 PROVE  a + SlotSize[lsize'[a]] <= b
      BY DEF SlotsDisjoint
    <3>1. CASE a = p
      BY <2>4, <2>6, <2>5, <2>9, <3>1
    <3>2. CASE a # p /\ b = p
      BY <2>5, <2>9, <2>10, <3>2
    <3>3. CASE a # p /\ b # p
      BY <2>9, <2>10, <3>3 DEF SlotsApart, SlotsDisjoint
    <3> QED BY <3>1, <3>2, <3>3
  <2>14. PICK low \in Nat : low = region * RegionSize
    BY <1>4, Times DEF TypeOK
  <2>15. low <= p /\ p + size <= low + RegionSize /\ region \in Nat
    BY <1>2, <1>3, <2>3, <2>4, <2>14 DEF Regular, TypeOK
  <2>16. SlotsWithinSegment'
    <3> SUFFICES ASSUME NEW a \in Slots'
                 PROVE  a \div RegionSize = (a + SlotSize[lsize'[a]] - 1) \div RegionSize
      BY DEF SlotsWithinSegment
    <3>1. CASE a = p
      <4>1. /\ RegionSize \in Nat \ {0} /\ p < low + RegionSize /\ size \in Nat \ {0}
            /\ p + size - 1 \in Nat /\ low <= p + size - 1 /\ p + size - 1 < low + RegionSize
        BY <1>4, <2>4, <2>15
      <4>2. p \div RegionSize = region
        BY <2>4, <2>14, <2>15, <4>1, Quotient
      <4>3. (p + size - 1) \div RegionSize = region
        BY <2>14, <2>15, <4>1, Quotient
      <4> QED BY <1>3, <2>10, <3>1, <4>2, <4>3
    <3>2. CASE a # p
      BY <2>9, <2>10, <3>2 DEF SlotsApart, SlotsWithinSegment
    <3> QED BY <3>1, <3>2
  <2>17. Regular'
    <3>1. ASSUME NEW a \in Slots' PROVE a + SlotSize[lsize'[a]] <= current'
      <4>1. CASE a = p
        BY <1>3, <2>1, <2>4, <2>10, <4>1
      <4>2. CASE a # p
        <5>1. a \in Slots /\ lsize'[a] = lsize[a]
          BY <2>9, <2>10, <4>2
        <5> QED BY <1>4, <2>1, <2>4, <2>5, <5>1
      <4> QED BY <4>1, <4>2
    <3>2. \A u \in Threads : pc'[u] # "header"
      BY <1>2, <2>2
    <3>3. region' \in 1 .. NumSegs /\ low <= current' /\ current' <= low + RegionSize
      BY <1>1, <1>4, <2>1, <2>3, <2>4, <2>15 DEF Regular
    <3> QED BY <1>1, <2>14, <3>1, <3>2, <3>3 DEF Regular
  <2> QED BY <1>5, <1>7, <1>8, <1>9, <2>11, <2>12, <2>13, <2>16, <2>17 DEF SlotsApart, PoolOK
<1> QED BY <1>10, <1>11

-----------------------------------------------------------------------------
(* larm_delete_item *)

(* A slot on its way back is the end of no list yet. *)
LEMMA DeleteItemStep ==
  ASSUME AllocInv, NEW t \in Threads, NEW p \in owned, DeleteItem(t, p)
  PROVE  AllocInv'
<1> USE DEF AllocInv
<1>1. /\ Move(t, "idle", "lock_tail") /\ owned' = owned \ {p} /\ ptr' = [ptr EXCEPT ![t] = p]
      /\ index' = [index EXCEPT ![t] = lsize[p]]
      /\ next_slot' = [next_slot EXCEPT ![p] = NULL]
      /\ head' = head /\ tail' = tail /\ consumer_lock' = consumer_lock
      /\ producer_lock' = producer_lock /\ lsize' = lsize
      /\ current' = current /\ region' = region /\ mlock' = mlock
      /\ item' = item /\ chain' = chain /\ faulted' = faulted
  BY DEF DeleteItem, listVars, poolVars
<1>2. p \in Addrs /\ p \in Nat /\ lsize[p] \in Classes
  <2>1. p \in Addrs
    BY DEF TypeOK
  <2> QED BY <2>1, Sizes DEF TypeOK
<1>3. /\ pc[t] = "idle" /\ pc'[t] = "lock_tail" /\ ptr'[t] = p /\ index'[t] = lsize[p]
      /\ \A u \in Threads \ {t} :
           pc'[u] = pc[u] /\ index'[u] = index[u] /\ ptr'[u] = ptr[u]
  BY <1>1, MoveFacts DEF TypeOK
<1>4. /\ next_slot'[p] = NULL
      /\ \A a \in Addrs : a # p => next_slot'[a] = next_slot[a]
  BY <1>1, <1>2 DEF TypeOK
<1>5. TypeOK'
  <2>1. ptr' \in [Threads -> Nat] /\ index' \in [Threads -> Classes]
    BY <1>1, <1>2 DEF TypeOK
  <2>2. next_slot' \in [Addrs -> Addrs \cup {NULL}] /\ owned' \subseteq Addrs
    BY <1>1, <1>2 DEF TypeOK
  <2> QED BY <1>1, <2>1, <2>2 DEF TypeOK, Move
<1>6. Returning' = Returning \cup {t} /\ t \notin Returning
  <2>1. \A u \in Threads : u \in Returning' <=> u \in Returning \/ u = t
    BY <1>3 DEF Returning
  <2> QED BY <1>3, <2>1 DEF Returning
<1>7. \A u \in Returning : ptr'[u] = ptr[u] /\ index'[u] = index[u] /\ ptr[u] # p
  BY <1>3, <1>6 DEF Apart, Returning
<1>8. \A c \in Classes : \A i \in Links(c) : chain[c][i] # p /\ chain[c][i] \in Addrs
  <2>1. \A c \in Classes : \A i \in Links(c) : chain[c][i] # p
    BY DEF Apart
  <2>2. ASSUME NEW c \in Classes, NEW i \in Links(c)
        PROVE  chain[c][i] \in Addrs
    <3>1. chain[c] \in Seq(Addrs)
      BY DEF TypeOK
    <3> QED BY <3>1 DEF Links
  <2> QED BY <2>1, <2>2
<1>9. Apart'
  BY <1>1, <1>3, <1>6, <1>7, <1>8 DEF Apart, Links
<1>10. Classed'
  BY <1>1, <1>2, <1>3, <1>4, <1>6, <1>7 DEF Classed, Links
<1>11. Slots' = Slots
  <2>1. {ptr[u] : u \in Returning}' = {ptr[u] : u \in Returning} \cup {p}
    BY <1>3, <1>6, <1>7
  <2>2. UNION {{chain[d][i] : i \in Links(d)} : d \in Classes}'
          = UNION {{chain[d][i] : i \in Links(d)} : d \in Classes}
    BY <1>1 DEF Links
  <2> QED BY <1>1, <2>1, <2>2 DEF Slots
<1>12. SlotsApart'
  BY <1>1, <1>11 DEF SlotsApart, SlotsDisjoint, SlotsWithinSegment
<1>13. PoolOK'
  <2>1. \A u \in Threads : pc[u] = "header" <=> pc'[u] = "header"
    BY <1>3
  <2>2. \A u \in Threads : pc[u] = "header" => index'[u] = index[u] /\ ptr'[u] = ptr[u]
    BY <1>3
  <2> QED BY <1>1, <1>11, <2>1, <2>2, QuietPool
<1>14. Locked'
  BY <1>1, <1>3 DEF Locked
<1>15. Consuming' /\ Producing'
  BY <1>1, <1>3 DEF Consuming, Producing
<1>16. ListShape'
  <2> SUFFICES ASSUME NEW c \in Classes
               PROVE  /\ Len(chain[c]) > 0 /\ head[c] = chain[c][1]
                      /\ \A i \in 1 .. Len(chain[c]) - 1 : next_slot'[chain[c][i]] = chain[c][i + 1]
                      /\ next_slot'[chain[c][Len(chain[c])]] = NULL
                      /\ tail[c] = chain[c][Len(chain[c])]
                           \/ \E u \in Threads : /\ pc'[u] = "set_tail" /\ index'[u] = c
                                                 /\ ptr'[u] = chain[c][Len(chain[c])]
    BY <1>1 DEF ListShape
  <2>1. \A i \in Links(c) : next_slot'[chain[c][i]] = next_slot[chain[c][i]]
    BY <1>4, <1>8
  <2>2. PICK n \in Nat : n = Len(chain[c])
    BY DEF TypeOK
  <2>3. /\ n > 0 /\ head[c] = chain[c][1] /\ next_slot[chain[c][n]] = NULL
        /\ \A i \in 1 .. n - 1 : next_slot[chain[c][i]] = chain[c][i + 1]
    BY <2>2 DEF ListShape
  <2>4. n \in Links(c) /\ \A i \in 1 .. n - 1 : i \in Links(c)
    BY <2>2, <2>3 DEF Links
  <2>5. tail[c] = chain[c][n]
          \/ \E u \in Threads : pc'[u] = "set_tail" /\ index'[u] = c /\ ptr'[u] = chain[c][n]
    <3>1. CASE \E u \in Threads : pc[u] = "set_tail" /\ index[u] = c /\ ptr[u] = chain[c][n]
      <4>1. PICK u \in Threads : pc[u] = "set_tail" /\ index[u] = c /\ ptr[u] = chain[c][n]
        BY <3>1
      <4>2. u # t
        BY <1>3, <4>1
      <4> QED BY <1>3, <4>1, <4>2
    <3> QED BY <2>2, <3>1 DEF ListShape
  <2> QED BY <2>1, <2>2, <2>3, <2>4, <2>5
<1> QED BY <1>5, <1>9, <1>10, <1>12, <1>13, <1>14, <1>15, <1>16

LEMMA LockTailStep ==
  ASSUME AllocInv, NEW t \in Threads, LockTail(t)
  PROVE  AllocInv'
<1> USE DEF AllocInv
<1>1. /\ Move(t, "lock_tail", "link") /\ producer_lock[index[t]] = NoThread
      /\ producer_lock' = [producer_lock EXCEPT ![index[t]] = t]
      /\ head' = head /\ tail' = tail /\ consumer_lock' = consumer_lock
      /\ next_slot' = next_slot /\ lsize' = lsize
      /\ current' = current /\ region' = region /\ mlock' = mlock /\ index' = index
      /\ item' = item /\ ptr' = ptr /\ owned' = owned /\ chain' = chain /\ faulted' = faulted
  BY DEF LockTail, headerVars, poolVars, localVars
<1>2. /\ pc[t] = "lock_tail" /\ pc'[t] = "link"
      /\ \A u \in Threads \ {t} : pc'[u] = pc[u]
  BY <1>1, MoveFacts
<1>3. TypeOK'
  BY <1>1 DEF TypeOK, Move
<1>4. Apart' /\ Classed' /\ Slots' = Slots /\ SlotsApart'
  <2>1. SameReturning
    BY <1>1, <1>2, ReturningSame
  <2> QED BY <1>1, <2>1, QuietHeap DEF headerVars
<1>5. ListShape' /\ Producing'
  <2>1. \A u \in Threads : pc[u] = "set_tail" <=> pc'[u] = "set_tail"
    BY <1>2
  <2> QED BY <1>1, <2>1, QuietLists
<1>6. PoolOK'
  <2>1. \A u \in Threads : pc[u] = "header" <=> pc'[u] = "header"
    BY <1>2
  <2> QED BY <1>1, <1>4, <2>1, QuietPool
<1>7. Locked'
  <2>1. \A c \in Classes : c # index[t] => producer_lock'[c] = producer_lock[c]
    BY <1>1 DEF TypeOK
  <2>2. producer_lock'[index[t]] = t
    BY <1>1 DEF TypeOK
  <2>3. \A u \in Threads : index[u] \in Classes /\ u # NoThread
    BY StrayAssumption DEF TypeOK
  <2> QED BY <1>1, <1>2, <2>1, <2>2, <2>3 DEF Locked
<1>8. Consuming'
  BY <1>1, <1>2 DEF Consuming
<1> QED BY <1>3, <1>4, <1>5, <1>6, <1>7, <1>8

(* The old tail points at the slot, which is the end of the list now. *)
LEMMA LinkStep ==
  ASSUME AllocInv, NEW t \in Threads, Link(t)
  PROVE  AllocInv'
<1> USE DEF AllocInv
<1>1. PICK c \in Classes : c = index[t]
  BY DEF TypeOK
<1>2. PICK p \in Addrs : p = ptr[t] /\ lsize[p] = c /\ next_slot[p] = NULL
  BY <1>1 DEF Link, Move, Classed, Returning
<1>3. /\ Move(t, "link", "set_tail")
      /\ next_slot' = [next_slot EXCEPT ![tail[c]] = p]
      /\ chain' = [chain EXCEPT ![c] = Append(@, p)]
      /\ head' = head /\ tail' = tail /\ consumer_lock' = consumer_lock
      /\ producer_lock' = producer_lock /\ lsize' = lsize
      /\ current' = current /\ region' = region /\ mlock' = mlock /\ index' = index
      /\ item' = item /\ ptr' = ptr /\ owned' = owned /\ faulted' = faulted
  BY <1>1, <1>2 DEF Link, listVars, poolVars, localVars
<1>4. /\ pc[t] = "link" /\ pc'[t] = "set_tail" /\ \A u \in Threads \ {t} : pc'[u] = pc[u]
  BY <1>3, MoveFacts
<1>5. \A u \in Threads \ {t} : pc[u] \in {"link", "set_tail"} => index[u] # c
  BY <1>1, <1>4 DEF Locked
<1>6. PICK n \in Nat : n = Len(chain[c]) /\ n > 0
  BY DEF TypeOK, ListShape
<1>7. chain[c] \in Seq(Addrs) /\ \A i \in 1 .. n : chain[c][i] \in Addrs /\ chain[c][i] # p
  <2>1. t \in Returning
    BY <1>4 DEF Returning
  <2>2. chain[c] \in Seq(Addrs)
    BY DEF TypeOK
  <2> QED BY <1>2, <1>6, <2>1, <2>2 DEF Apart, Links
<1>8. tail[c] = chain[c][n]
  <2>1. ~\E u \in Threads : pc[u] = "set_tail" /\ index[u] = c
    BY <1>4, <1>5
  <2> QED BY <1>6, <2>1 DEF ListShape
<1>9. /\ chain'[c] \in Seq(Addrs) /\ Len(chain'[c]) = n + 1 /\ chain'[c][n + 1] = p
      /\ \A i \in 1 .. n : chain'[c][i] = chain[c][i]
      /\ \A d \in Classes : d # c => chain'[d] = chain[d]
  <2>1. chain'[c] = Append(chain[c], p) /\ \A d \in Classes : d # c => chain'[d] = chain[d]
    BY <1>3 DEF TypeOK
  <2> QED BY <1>6, <1>7, <2>1
<1>10. /\ next_slot'[chain[c][n]] = p
       /\ \A a \in Addrs : a # chain[c][n] => next_slot'[a] = next_slot[a]
  BY <1>3, <1>6, <1>7, <1>8 DEF TypeOK
<1>11. TypeOK'
  <2>1. next_slot' \in [Addrs -> Addrs \cup {NULL}]
    BY <1>3 DEF TypeOK
  <2>2. chain' \in [Classes -> Seq(Addrs)]
    BY <1>3, <1>9 DEF TypeOK
  <2> QED BY <1>3, <2>1, <2>2 DEF TypeOK, Move
<1>12. t \in Returning /\ Returning' = Returning \ {t}
  <2>1. \A u \in Threads : u \in Returning' <=> u \in Returning /\ u # t
    BY <1>4 DEF Returning
  <2> QED BY <1>4, <2>1 DEF Returning
<1>13. \A u \in Returning' : ptr'[u] = ptr[u] /\ index'[u] = index[u] /\ ptr[u] # p
  BY <1>2, <1>3, <1>12 DEF Apart
(* An entry of the longer lists is an entry of the old ones, or the new end. *)
<1>14. \A d \in Classes : \A i \in 1 .. Len(chain'[d]) :
         \/ d = c /\ i = n + 1 /\ chain'[d][i] = p
         \/ i \in Links(d) /\ chain'[d][i] = chain[d][i]
  <2> SUFFICES ASSUME NEW d \in Classes, NEW i \in 1 .. Len(chain'[d])
               PROVE  \/ d = c /\ i = n + 1 /\ chain'[d][i] = p
                      \/ i \in Links(d) /\ chain'[d][i] = chain[d][i]
    OBVIOUS
  <2>1. CASE d = c
    <3>1. i = n + 1 \/ i \in 1 .. n
      BY <1>6, <1>9, <2>1
    <3> QED BY <1>6, <1>9, <2>1, <3>1 DEF Links
  <2>2. CASE d # c
    BY <1>9, <2>2 DEF Links
  <2> QED BY <2>1, <2>2
<1>15. p \notin owned /\ \A d \in Classes : \A i \in Links(d) : chain[d][i] # p
  BY <1>2, <1>12 DEF Apart
<1>16. Apart'
  <2>1. ASSUME NEW u \in Returning'
        PROVE  ptr'[u] \notin owned' /\ \A v \in Returning' : ptr'[u] = ptr'[v] => u = v
    BY <1>3, <1>12, <1>13, <2>1 DEF Apart
  <2>2. ASSUME NEW d \in Classes, NEW i \in 1 .. Len(chain'[d])
        PROVE  chain'[d][i] \notin owned' /\ \A u \in Returning' : chain'[d][i] # ptr'[u]
    <3>1. CASE chain'[d][i] = p
      BY <1>3, <1>13, <1>15, <3>1
    <3>2. CASE i \in Links(d) /\ chain'[d][i] = chain[d][i]
      BY <1>3, <1>12, <1>13, <3>2 DEF Apart
    <3> QED BY <1>14, <3>1, <3>2
  <2>3. ASSUME NEW d \in Classes, NEW i \in 1 .. Len(chain'[d]),
               NEW e \in Classes, NEW j \in 1 .. Len(chain'[e]), chain'[d][i] = chain'[e][j]
        PROVE  d = e /\ i = j
    <3>1. CASE i \in Links(d) /\ chain'[d][i] = chain[d][i]
      <4>1. j \in Links(e) /\ chain'[e][j] = chain[e][j]
        BY <1>14, <1>15, <2>3, <3>1
      <4>2. chain[d][i] = chain[e][j]
        BY <2>3, <3>1, <4>1
      <4>3. i \in Links(d) /\ j \in Links(e)
        BY <3>1, <4>1
      <4> QED BY <4>2, <4>3 DEF Apart
    <3>2. CASE d = c /\ i = n + 1 /\ chain'[d][i] = p
      BY <1>14, <1>15, <2>3, <3>2
    <3> QED BY <1>14, <3>1, <3>2
  <2> QED BY <2>1, <2>2, <2>3 DEF Apart, Links
<1>17. Classed'
  <2>1. ASSUME NEW u \in Returning'
        PROVE  ptr'[u] \in Addrs /\ index'[u] = lsize'[ptr'[u]] /\ next_slot'[ptr'[u]] = NULL
    <3>1. ptr[u] # chain[c][n] /\ ptr[u] \in Addrs /\ next_slot[ptr[u]] = NULL
          /\ index[u] = lsize[ptr[u]]
      <4>1. n \in Links(c)
        BY <1>6 DEF Links
      <4> QED BY <1>12, <4>1 DEF Apart, Classed
    <3> QED BY <1>3, <1>10, <1>13, <3>1
  <2>2. ASSUME NEW d \in Classes, NEW i \in 1 .. Len(chain'[d]) PROVE lsize'[chain'[d][i]] = d
    BY <1>2, <1>3, <1>14 DEF Classed
  <2> QED BY <2>1, <2>2 DEF Classed, Links
<1>18. Slots' = Slots
  <2>1. ASSUME NEW a \in Slots' PROVE a \in Slots
    <3>1. CASE \E d \in Classes : \E i \in 1 .. Len(chain'[d]) : a = chain'[d][i]
      BY <1>2, <1>12, <1>14, <3>1, SlotPlaces
    <3>2. CASE \E u \in Returning' : a = ptr'[u]
      BY <1>12, <1>13, <3>2, SlotPlaces
    <3>3. CASE a \in owned'
      BY <1>3, <3>3, SlotPlaces
    <3> QED BY <3>1, <3>2, <3>3, SlotPlacesNext
  <2>2. ASSUME NEW a \in Slots PROVE a \in Slots'
    <3>1. CASE a \in owned
      BY <1>3, <3>1, SlotPlacesNext
    <3>2. CASE a = p
      <4>1. n + 1 \in 1 .. Len(chain'[c])
        BY <1>6, <1>9
      <4> QED BY <1>9, <3>2, <4>1, SlotPlacesNext
    <3>3. CASE \E u \in Returning \ {t} : a = ptr[u]
      BY <1>12, <1>13, <3>3, SlotPlacesNext
    <3>4. CASE \E d \in Classes : \E i \in Links(d) : a = chain[d][i]
      <4>1. PICK d \in Classes : \E i \in Links(d) : a = chain[d][i]
        BY <3>4
      <4>2. PICK i \in Links(d) : a = chain[d][i]
        BY <4>1
      <4>3. i \in 1 .. Len(chain'[d]) /\ a = chain'[d][i]
        <5>1. CASE d = c
          <6>1. i \in 1 .. n /\ i \in 1 .. n + 1
            BY <1>6, <4>2, <5>1 DEF Links
          <6> QED BY <1>9, <4>2, <5>1, <6>1
        <5>2. CASE d # c
          BY <1>9, <4>2, <5>2 DEF Links
        <5> QED BY <5>1, <5>2
      <4> QED BY <4>3, SlotPlacesNext
    <3> QED BY <1>2, <3>1, <3>2, <3>3, <3>4, SlotPlaces
  <2> QED BY <2>1, <2>2
<1>19. SlotsApart'
  BY <1>3, <1>18 DEF SlotsApart, SlotsDisjoint, SlotsWithinSegment
<1>20. PoolOK'
  <2>1. \A u \in Threads : pc[u] = "header" <=> pc'[u] = "header"
    BY <1>4
  <2>2. \A u \in Threads : pc[u] = "header" => index'[u] = index[u] /\ ptr'[u] = ptr[u]
    BY <1>3
  <2> QED BY <1>3, <1>18, <2>1, <2>2, QuietPool
<1>21. Locked'
  BY <1>3, <1>4 DEF Locked
<1>22. Consuming'
  <2> SUFFICES ASSUME NEW u \in Threads, pc'[u] = "pop"
               PROVE  Len(chain'[index[u]]) >= 2 /\ item[u] = chain'[index[u]][2]
    BY <1>3 DEF Consuming
  <2>1. u # t /\ index[u] \in Classes /\ pc[u] = "pop"
    BY <1>4 DEF TypeOK
  <2>2. Len(chain[index[u]]) >= 2 /\ item[u] = chain[index[u]][2]
    BY <2>1 DEF Consuming
  <2>3. CASE index[u] = c
    <3>1. 2 \in 1 .. n /\ n + 1 >= 2
      BY <1>6, <2>2, <2>3
    <3> QED BY <1>9, <2>2, <2>3, <3>1
  <2>4. CASE index[u] # c
    BY <1>9, <2>1, <2>2, <2>4
  <2> QED BY <2>3, <2>4
<1>23. Producing'
  <2> SUFFICES ASSUME NEW u \in Threads, pc'[u] = "set_tail"
               PROVE  ptr[u] = chain'[index[u]][Len(chain'[index[u]])]
    BY <1>3 DEF Producing
  <2>1. CASE u = t
    BY <1>1, <1>2, <1>9, <2>1
  <2>2. CASE u # t
    <3>1. pc[u] = "set_tail" /\ index[u] # c /\ index[u] \in Classes
      BY <1>4, <1>5, <2>2 DEF TypeOK
    <3>2. chain'[index[u]] = chain[index[u]]
      BY <1>9, <3>1
    <3> QED BY <3>1, <3>2 DEF Producing
  <2> QED BY <2>1, <2>2
<1>24. ListShape'
  <2> SUFFICES ASSUME NEW d \in Classes
               PROVE  /\ Len(chain'[d]) > 0 /\ head[d] = chain'[d][1]
                      /\ \A i \in 1 .. Len(chain'[d]) - 1 :
                           next_slot'[chain'[d][i]] = chain'[d][i + 1]
                      /\ next_slot'[chain'[d][Len(chain'[d])]] = NULL
                      /\ tail[d] = chain'[d][Len(chain'[d])]
                           \/ \E u \in Threads : /\ pc'[u] = "set_tail" /\ index'[u] = d
                                                 /\ ptr'[u] = chain'[d][Len(chain'[d])]
    BY <1>3 DEF ListShape
  <2>1. CASE d = c
    <3>1. n + 1 > 0 /\ head[c] = chain'[c][1]
      <4>1. 1 \in 1 .. n
        BY <1>6
      <4> QED BY <1>6, <1>9, <4>1 DEF ListShape
    <3>2. ASSUME NEW i \in 1 .. n PROVE next_slot'[chain'[c][i]] = chain'[c][i + 1]
      <4>1. CASE i = n
        BY <1>6, <1>9, <1>10, <4>1
      <4>2. CASE i # n
        <5>1. i \in 1 .. Len(chain[c]) - 1 /\ i + 1 \in 1 .. n /\ i \in Links(c) /\ n \in Links(c)
          BY <1>6, <4>2 DEF Links
        <5>2. chain[c][i] # chain[c][n] /\ next_slot[chain[c][i]] = chain[c][i + 1]
          BY <4>2, <5>1 DEF Apart, ListShape
        <5> QED BY <1>7, <1>9, <1>10, <5>1, <5>2
      <4> QED BY <4>1, <4>2
    <3>3. next_slot'[p] = NULL
      <4>1. p # chain[c][n]
        BY <1>6, <1>7
      <4> QED BY <1>2, <1>10, <4>1
    <3>4. pc'[t] = "set_tail" /\ index'[t] = c /\ ptr'[t] = p
      BY <1>1, <1>2, <1>3, <1>4
    <3>5. (n + 1) - 1 = n
      OBVIOUS
    <3> QED BY <1>9, <2>1, <3>1, <3>2, <3>3, <3>4, <3>5
  <2>2. CASE d # c
    <3>1. chain'[d] = chain[d]
      BY <1>9, <2>2
    <3>2. \A i \in Links(d) : next_slot'[chain[d][i]] = next_slot[chain[d][i]]
      <4> SUFFICES ASSUME NEW i \in Links(d)
                   PROVE  next_slot'[chain[d][i]] = next_slot[chain[d][i]]
        OBVIOUS
      <4>1. n \in Links(c)
        BY <1>6 DEF Links
      <4>2. chain[d][i] # chain[c][n]
        BY <2>2, <4>1 DEF Apart
      <4>3. chain[d][i] \in Addrs
        BY DEF TypeOK, Links
      <4> QED BY <1>10, <4>2, <4>3
    <3>3. PICK m \in Nat : m = Len(chain[d])
      BY DEF TypeOK
    <3>4. /\ m > 0 /\ head[d] = chain[d][1] /\ next_slot[chain[d][m]] = NULL
          /\ \A i \in 1 .. m - 1 : next_slot[chain[d][i]] = chain[d][i + 1]
      BY <3>3 DEF ListShape
    <3>5. m \in Links(d) /\ \A i \in 1 .. m - 1 : i \in Links(d)
      BY <3>3, <3>4 DEF Links
    <3>6. tail[d] = chain[d][m]
            \/ \E u \in Threads : pc'[u] = "set_tail" /\ index'[u] = d /\ ptr'[u] = chain[d][m]
      <4>1. CASE \E u \in Threads : pc[u] = "set_tail" /\ index[u] = d /\ ptr[u] = chain[d][m]
        BY <1>3, <1>4, <4>1
      <4> QED BY <3>3, <4>1 DEF ListShape
    <3> QED BY <3>1, <3>2, <3>3, <3>4, <3>5, <3>6
  <2> QED BY <2>1, <2>2
<1> QED BY <1>11, <1>16, <1>17, <1>19, <1>20, <1>21, <1>22, <1>23, <1>24

LEMMA SetTailStep ==
  ASSUME AllocInv, NEW t \in Threads, SetTail(t)
  PROVE  AllocInv'
<1> USE DEF AllocInv
<1>1. PICK c \in Classes : c = index[t]
  BY DEF TypeOK
<1>2. /\ Move(t, "set_tail", "idle") /\ tail' = [tail EXCEPT ![c] = ptr[t]]
      /\ producer_lock' = [producer_lock EXCEPT ![c] = NoThread] /\ Return(t)
      /\ head' = head /\ consumer_lock' = consumer_lock
      /\ next_slot' = next_slot /\ lsize' = lsize
      /\ current' = current /\ region' = region /\ mlock' = mlock
      /\ owned' = owned /\ chain' = chain /\ faulted' = faulted
  BY <1>1 DEF SetTail, headerVars, poolVars
<1>3. /\ pc[t] = "set_tail" /\ pc'[t] = "idle"
      /\ \A u \in Threads \ {t} :
           pc'[u] = pc[u] /\ index'[u] = index[u] /\ item'[u] = item[u] /\ ptr'[u] = ptr[u]
  BY <1>2, MoveFacts, ReturnFacts
<1>4. ptr[t] = chain[c][Len(chain[c])] /\ ptr[t] \in Addrs
  <2>1. ptr[t] = chain[c][Len(chain[c])]
    BY <1>1, <1>3 DEF Producing
  <2>2. chain[c] \in Seq(Addrs) /\ Len(chain[c]) > 0
    BY DEF TypeOK, ListShape
  <2> QED BY <2>1, <2>2
<1>5. TypeOK'
  <2>1. /\ index' \in [Threads -> Classes] /\ item' \in [Threads -> Addrs \cup {NULL}]
        /\ ptr' \in [Threads -> Nat]
    BY <1>2, ReturnFacts
  <2>2. tail' \in [Classes -> Addrs] /\ producer_lock' \in [Classes -> Threads \cup {NoThread}]
    BY <1>2, <1>4 DEF TypeOK
  <2> QED BY <1>2, <2>1, <2>2 DEF TypeOK, Move
<1>6. Apart' /\ Classed' /\ Slots' = Slots /\ SlotsApart'
  <2>1. SameReturning
    BY <1>3, ReturningSame
  <2> QED BY <1>2, <2>1, QuietHeap DEF headerVars
<1>7. PoolOK'
  <2>1. \A u \in Threads : pc[u] = "header" <=> pc'[u] = "header"
    BY <1>3
  <2>2. \A u \in Threads : pc[u] = "header" => index'[u] = index[u] /\ ptr'[u] = ptr[u]
    BY <1>3
  <2> QED BY <1>2, <1>6, <2>1, <2>2, QuietPool
<1>8. Locked'
  <2>1. \A d \in Classes : d # c => producer_lock'[d] = producer_lock[d]
    BY <1>2 DEF TypeOK
  <2>2. producer_lock[c] = t
    BY <1>1, <1>3 DEF Locked
  <2>3. \A u \in Threads : index[u] \in Classes
    BY DEF TypeOK
  <2> QED BY <1>2, <1>3, <2>1, <2>2, <2>3 DEF Locked
<1>9. Consuming'
  <2> SUFFICES ASSUME NEW u \in Threads, pc'[u] = "pop"
               PROVE  Len(chain'[index'[u]]) >= 2 /\ item'[u] = chain'[index'[u]][2]
    BY DEF Consuming
  <2>1. u # t
    BY <1>3
  <2> QED BY <1>2, <1>3, <2>1 DEF Consuming
<1>10. Producing'
  <2> SUFFICES ASSUME NEW u \in Threads, pc'[u] = "set_tail"
               PROVE  ptr'[u] = chain'[index'[u]][Len(chain'[index'[u]])]
    BY DEF Producing
  <2>1. u # t
    BY <1>3
  <2> QED BY <1>2, <1>3, <2>1 DEF Producing
<1>11. ListShape'
  <2> SUFFICES ASSUME NEW d \in Classes
               PROVE  tail'[d] = chain[d][Len(chain[d])]
                        \/ \E u \in Threads : /\ pc'[u] = "set_tail" /\ index'[u] = d
                                              /\ ptr'[u] = chain[d][Len(chain[d])]
    BY <1>2 DEF ListShape
  <2>1. CASE d = c
    BY <1>2, <1>4, <2>1 DEF TypeOK
  <2>2. CASE d # c
    <3>1. tail'[d] = tail[d]
      BY <1>2, <2>2 DEF TypeOK
    <3>2. CASE \E u \in Threads : /\ pc[u] = "set_tail" /\ index[u] = d
                                  /\ ptr[u] = chain[d][Len(chain[d])]
      <4>1. PICK u \in Threads : /\ pc[u] = "set_tail" /\ index[u] = d
                                 /\ ptr[u] = chain[d][Len(chain[d])]
        BY <3>2
      <4>2. u # t
        BY <1>1, <2>2, <4>1
      <4> QED BY <1>3, <4>1, <4>2
    <3> QED BY <3>1, <3>2 DEF ListShape
  <2> QED BY <2>1, <2>2
<1> QED BY <1>5, <1>6, <1>7, <1>8, <1>9, <1>10, <1>11

-----------------------------------------------------------------------------
(* Together *)

LEMMA NextAlloc == ASSUME StrayOutside PROVE AllocInv /\ [Next]_vars => AllocInv'
<1> SUFFICES ASSUME AllocInv, [Next]_vars PROVE AllocInv'
  OBVIOUS
<1>1. CASE Next
  <2>1. PICK t \in Threads : \/ \E c \in Classes : NewItem(t, c)
                             \/ \E p \in owned : DeleteItem(t, p)
                             \/ Inside(t)
    BY <1>1 DEF Next
  <2>2. ~faulted
    BY <1>1 DEF Next
  <2>3. CASE \E c \in Classes : NewItem(t, c)
    BY <2>3, NewItemStep
  <2>4. CASE \E p \in owned : DeleteItem(t, p)
    BY <2>4, DeleteItemStep
  <2>5. CASE LockHead(t)
    BY <2>5, LockHeadStep
  <2>6. CASE ReadNext(t)
    BY <2>6, ReadNextStep
  <2>7. CASE Pop(t)
    BY <2>7, PopStep
  <2>8. CASE ReleaseHead(t)
    BY <2>8, ReleaseHeadStep
  <2>9. CASE LockPool(t)
    BY <2>9, LockPoolStep
  <2>10. CASE OutOfSpace(t)
    BY <2>10, OutOfSpaceStep
  <2>11. CASE Place(t)
    BY <2>2, <2>11, PlaceStep
  <2>12. CASE Carve(t)
    BY <2>2, <2>12, CarveStep
  <2>13. CASE LockTail(t)
    BY <2>13, LockTailStep
  <2>14. CASE Link(t)
    BY <2>14, LinkStep
  <2>15. CASE SetTail(t)
    BY <2>15, SetTailStep
  <2> QED BY <2>1, <2>3, <2>4, <2>5, <2>6, <2>7, <2>8, <2>9, <2>10, <2>11, <2>12, <2>13, <2>14,
             <2>15 DEF Inside
<1>2. CASE UNCHANGED vars
  <2>1. /\ head' = head /\ tail' = tail /\ consumer_lock' = consumer_lock
        /\ producer_lock' = producer_lock /\ next_slot' = next_slot /\ lsize' = lsize
        /\ current' = current /\ region' = region /\ mlock' = mlock /\ pc' = pc
        /\ index' = index /\ item' = item /\ ptr' = ptr /\ owned' = owned
        /\ chain' = chain /\ faulted' = faulted
    BY <1>2 DEF vars, listVars, headerVars, poolVars, localVars
  <2>2. SameReturning
    BY <2>1 DEF SameReturning, Returning
  <2>3. Apart' /\ Classed' /\ Slots' = Slots /\ SlotsApart'
    BY <2>1, <2>2, QuietHeap DEF headerVars
  <2>4. ListShape' /\ Producing'
    BY <2>1, QuietLists
  <2>5. PoolOK'
    BY <2>1, <2>3, QuietPool
  <2>6. TypeOK' /\ Locked' /\ Consuming'
    BY <2>1 DEF AllocInv, TypeOK, Locked, Consuming
  <2> QED BY <2>3, <2>4, <2>5, <2>6 DEF AllocInv
<1> QED BY <1>1, <1>2

LEMMA AllocInvariant == ASSUME StrayOutside PROVE Spec => []AllocInv
<1>1. AllocInv /\ [Next]_vars => AllocInv'
  BY NextAlloc
<1> QED BY <1>1, InitAlloc, PTL DEF Spec

-----------------------------------------------------------------------------
(* What the pool of SlotPool sees of a step. *)

Held == owned \cup {ptr[t] : t \in Returning}
Used == {<<a, lsize[a]>> : a \in Held}

LEMMA HeldPlaces == \A a : a \in Held <=> a \in owned \/ \E u \in Returning : a = ptr[u]
BY DEF Held

LEMMA HeldPlacesNext == \A a : a \in Held' <=> a \in owned' \/ \E u \in Returning' : a = ptr'[u]
BY DEF Held

LEMMA UsedIs == \A a, c : <<a, c>> \in Used <=> a \in Held /\ c = lsize[a]
BY DEF Used

(* A step that moves no slot is none of the pool. *)
LEMMA QuietPoolStep ==
  ASSUME chain' = chain, owned' = owned, lsize' = lsize, SameReturning
  PROVE  UNCHANGED <<chain, Used>>
<1>1. Held' = Held
  BY HeldPlaces, HeldPlacesNext DEF SameReturning, Held
<1>2. Used' = Used
  BY <1>1 DEF Used
<1> QED BY <1>2

LEMMA QuietThread ==
  ASSUME TypeOK, NEW t \in Threads, NEW from, NEW to, Move(t, from, to),
         chain' = chain, owned' = owned, lsize' = lsize,
         \A u \in Threads \ {t} : index'[u] = index[u] /\ ptr'[u] = ptr[u],
         \/ from \notin {"lock_tail", "link"} /\ to \notin {"lock_tail", "link"}
         \/ /\ from \in {"lock_tail", "link"} /\ to \in {"lock_tail", "link"}
            /\ index'[t] = index[t] /\ ptr'[t] = ptr[t]
  PROVE  UNCHANGED <<chain, Used>>
<1>1. pc[t] = from /\ pc'[t] = to /\ \A u \in Threads \ {t} : pc'[u] = pc[u]
  BY MoveFacts
<1>2. SameReturning
  BY <1>1, ReturningSame
<1> QED BY <1>2, QuietPoolStep

(* The oldest free slot goes to a user. *)
LEMMA PopReuses ==
  ASSUME AllocInv, NEW t \in Threads, Pop(t)
  PROVE  \E c \in Classes :
           /\ Len(chain[c]) > 1
           /\ Used' = Used \cup {<<Head(chain[c]), c>>}
           /\ chain' = [chain EXCEPT ![c] = Tail(@)]
<1> USE DEF AllocInv
<1>1. PICK c \in Classes : c = index[t]
  BY DEF TypeOK
<1>2. /\ Move(t, "pop", "idle") /\ owned' = owned \cup {head[c]} /\ lsize' = lsize
      /\ chain' = [chain EXCEPT ![c] = Tail(@)] /\ Return(t)
  BY <1>1 DEF Pop, headerVars
<1>3. /\ pc[t] = "pop" /\ pc'[t] = "idle"
      /\ \A u \in Threads \ {t} :
           pc'[u] = pc[u] /\ index'[u] = index[u] /\ ptr'[u] = ptr[u]
  BY <1>2, MoveFacts, ReturnFacts
<1>4. Len(chain[c]) >= 2 /\ Len(chain[c]) \in Nat /\ chain[c] \in Seq(Addrs)
  BY <1>1, <1>3 DEF TypeOK, Consuming
<1>5. head[c] = Head(chain[c]) /\ lsize[head[c]] = c
  <2>1. 1 \in Links(c)
    BY <1>4 DEF Links
  <2>2. head[c] = chain[c][1]
    BY DEF ListShape
  <2>3. Head(chain[c]) = chain[c][1]
    BY <1>4
  <2> QED BY <2>1, <2>2, <2>3 DEF Classed
<1>6. Held' = Held \cup {head[c]}
  <2>1. SameReturning
    BY <1>3, ReturningSame
  <2> QED BY <1>2, <2>1, HeldPlaces, HeldPlacesNext DEF SameReturning, Held
<1>7. Used' = Used \cup {<<head[c], c>>}
  BY <1>2, <1>5, <1>6 DEF Used
<1>8. Used' = Used \cup {<<Head(chain[c]), c>>} /\ Len(chain[c]) > 1
  BY <1>4, <1>5, <1>7
<1> QED BY <1>2, <1>8

(* A header at current is no slot yet. *)
LEMMA CarvedIsNew ==
  ASSUME AllocInv, ~faulted, NEW t \in Threads, pc[t] = "header", ptr[t] \in Addrs
  PROVE  ptr[t] \notin Slots
<1> USE DEF AllocInv
<1>1. \A u \in Threads \ {t} : pc[u] # "header"
  BY DEF Locked
<1>2. Regular
  BY <1>1 DEF PoolOK, Doomed
<1>3. ptr[t] = current /\ current \in Nat
  BY <1>2 DEF Regular, TypeOK
<1>4. ASSUME NEW a \in Slots PROVE a < current
  <2>1. a \in Addrs /\ a \in Nat
    BY SlotsAreAddrs, Sizes
  <2>2. SlotSize[lsize[a]] \in Nat \ {0}
    BY <2>1, SizeAssumption DEF TypeOK
  <2>3. a + SlotSize[lsize[a]] <= current
    BY <1>2 DEF Regular
  <2> QED BY <1>3, <2>1, <2>2, <2>3
<1> QED BY <1>3, <1>4

LEMMA CarveCarves ==
  ASSUME AllocInv, ~faulted, NEW t \in Threads, Carve(t)
  PROVE  \/ UNCHANGED <<chain, Used>>
         \/ \E c \in Classes : \E a \in Addrs :
              /\ \A d \in Classes : <<a, d>> \notin Used /\ \A i \in Links(d) : chain[d][i] # a
              /\ Used' = Used \cup {<<a, c>>}
              /\ UNCHANGED chain
<1> USE DEF AllocInv
<1>1. PICK c \in Classes : c = index[t]
  BY DEF TypeOK
<1>2. PICK p \in Nat : p = ptr[t]
  BY DEF TypeOK
<1>3. /\ Move(t, "header", "idle") /\ Return(t) /\ chain' = chain
      /\ IF p \in Addrs
         THEN lsize' = [lsize EXCEPT ![p] = c] /\ owned' = owned \cup {p}
         ELSE lsize' = lsize /\ owned' = owned
  BY <1>1, <1>2 DEF Carve
<1>4. /\ pc[t] = "header" /\ pc'[t] = "idle"
      /\ \A u \in Threads \ {t} :
           pc'[u] = pc[u] /\ index'[u] = index[u] /\ ptr'[u] = ptr[u]
  BY <1>3, MoveFacts, ReturnFacts
<1>5. SameReturning
  BY <1>4, ReturningSame
<1>6. CASE p \notin Addrs
  BY <1>3, <1>5, <1>6, QuietPoolStep
<1>7. CASE p \in Addrs
  <2>1. p \notin Slots
    BY <1>2, <1>4, <1>7, CarvedIsNew
  <2>2. /\ p \notin Held
        /\ \A d \in Classes : \A i \in Links(d) : chain[d][i] # p
    BY <2>1, SlotPlaces, HeldPlaces
  <2>3. lsize'[p] = c /\ \A a \in Held : lsize'[a] = lsize[a]
    <3>1. Held \subseteq Addrs
      <4>1. owned \subseteq Addrs /\ \A u \in Returning : ptr[u] \in Addrs
        BY DEF Classed, TypeOK
      <4> QED BY <4>1 DEF Held
    <3> QED BY <1>3, <1>7, <2>2, <3>1 DEF TypeOK
  <2>4. Held' = Held \cup {p}
    BY <1>3, <1>5, <1>7, HeldPlaces, HeldPlacesNext DEF SameReturning, Held
  <2>5. Used' = Used \cup {<<p, c>>}
    BY <2>3, <2>4 DEF Used
  <2>6. \A d \in Classes : <<p, d>> \notin Used
    BY <2>2, UsedIs
  <2> QED BY <1>3, <1>7, <2>2, <2>5, <2>6
<1> QED BY <1>6, <1>7

(* A slot on its way back is still in use for the pool. *)
LEMMA DeleteItemQuiet ==
  ASSUME AllocInv, NEW t \in Threads, NEW p \in owned, DeleteItem(t, p)
  PROVE  UNCHANGED <<chain, Used>>
<1> USE DEF AllocInv
<1>1. /\ Move(t, "idle", "lock_tail") /\ owned' = owned \ {p} /\ ptr' = [ptr EXCEPT ![t] = p]
      /\ lsize' = lsize /\ chain' = chain
  BY DEF DeleteItem
<1>2. p \in Nat
  BY Sizes DEF TypeOK
<1>3. /\ pc[t] = "idle" /\ pc'[t] = "lock_tail" /\ ptr'[t] = p
      /\ \A u \in Threads \ {t} : pc'[u] = pc[u] /\ ptr'[u] = ptr[u]
  BY <1>1, MoveFacts DEF TypeOK
<1>4. Returning' = Returning \cup {t} /\ t \notin Returning
  <2>1. \A u \in Threads : u \in Returning' <=> u \in Returning \/ u = t
    BY <1>3 DEF Returning
  <2> QED BY <1>3, <2>1 DEF Returning
<1>5. Held' = Held
  <2>1. \A u \in Returning : ptr'[u] = ptr[u]
    BY <1>3, <1>4 DEF Returning
  <2>2. \A a : a \in Held' <=> a \in Held
    BY <1>1, <1>3, <1>4, <2>1, HeldPlaces, HeldPlacesNext
  <2> QED BY <2>2 DEF Held
<1> QED BY <1>1, <1>5 DEF Used

(* tail->next_slot = ptr gives the slot back. *)
LEMMA LinkGivesBack ==
  ASSUME AllocInv, NEW t \in Threads, Link(t)
  PROVE  \E c \in Classes : \E a \in Addrs :
           /\ <<a, c>> \in Used
           /\ Used' = Used \ {<<a, c>>}
           /\ chain' = [chain EXCEPT ![c] = Append(@, a)]
<1> USE DEF AllocInv
<1>1. PICK c \in Classes : c = index[t]
  BY DEF TypeOK
<1>2. pc[t] = "link" /\ t \in Returning
  BY DEF Link, Move, Returning
<1>3. PICK p \in Addrs : p = ptr[t] /\ lsize[p] = c
  BY <1>1, <1>2 DEF Classed
<1>4. /\ Move(t, "link", "set_tail") /\ chain' = [chain EXCEPT ![c] = Append(@, p)]
      /\ lsize' = lsize /\ ptr' = ptr /\ owned' = owned
  BY <1>1, <1>3 DEF Link, localVars
<1>5. pc'[t] = "set_tail" /\ \A u \in Threads \ {t} : pc'[u] = pc[u]
  BY <1>4, MoveFacts
<1>6. Returning' = Returning \ {t}
  <2>1. \A u \in Threads : u \in Returning' <=> u \in Returning /\ u # t
    BY <1>5 DEF Returning
  <2> QED BY <2>1 DEF Returning
<1>7. p \notin owned /\ \A u \in Returning \ {t} : ptr[u] # p
  BY <1>2, <1>3 DEF Apart
<1>8. Held' = Held \ {p} /\ p \in Held
  <2>1. \A a : a \in Held' <=> a \in Held /\ a # p
    BY <1>2, <1>3, <1>4, <1>6, <1>7, HeldPlaces, HeldPlacesNext
  <2>2. p \in Held
    BY <1>2, <1>3, HeldPlaces
  <2> QED BY <2>1, <2>2 DEF Held
<1>9. Used' = Used \ {<<p, c>>} /\ <<p, c>> \in Used
  BY <1>3, <1>4, <1>8 DEF Used
<1> QED BY <1>4, <1>9

(* The allocator implements the pool: popping is Reuse, carving is Carve,   *)
(* the write of tail->next_slot is GiveBack, every other step is none.      *)
LEMMA InitPool == Init => Pool!Init
<1> SUFFICES ASSUME Init PROVE Pool!Init
  OBVIOUS
<1>1. AllocInv
  BY InitAlloc
<1>2. Held = {}
  BY DEF Init, Held, Returning
<1>3. chain \in [Classes -> Seq(Addrs) \ {<<>>}]
  <2>1. chain \in [Classes -> Seq(Addrs)] /\ \A c \in Classes : Len(chain[c]) > 0
    BY <1>1 DEF AllocInv, TypeOK, ListShape
  <2>2. \A c \in Classes : chain[c] # <<>>
    BY <2>1
  <2> QED BY <2>1, <2>2
<1>4. \A c, d \in Classes : \A i \in 1 .. Len(chain[c]), j \in 1 .. Len(chain[d]) :
        chain[c][i] = chain[d][j] => c = d /\ i = j
  BY <1>1 DEF AllocInv, Apart, Links
<1>5. {<<a, lsize[a]>> : a \in owned \cup {ptr[t] : t \in Returning}} = {}
  BY <1>2 DEF Held
<1> QED BY <1>3, <1>4, <1>5 DEF Pool!Init

LEMMA NextPool ==
  ASSUME AllocInv, [Next]_vars
  PROVE  [Pool!Next]_(Pool!poolVars)
<1> USE DEF AllocInv
<1>1. ASSUME UNCHANGED <<chain, Used>>
      PROVE  UNCHANGED Pool!poolVars
  BY <1>1 DEF Pool!poolVars, Used, Held
<1>2. CASE Next
  <2>1. PICK t \in Threads : \/ \E c \in Classes : NewItem(t, c)
                             \/ \E p \in owned : DeleteItem(t, p)
                             \/ Inside(t)
    BY <1>2 DEF Next
  <2>2. ~faulted
    BY <1>2 DEF Next
  <2>3. CASE Pop(t)
    <3>1. PICK c \in Classes : /\ Len(chain[c]) > 1
                               /\ Used' = Used \cup {<<Head(chain[c]), c>>}
                               /\ chain' = [chain EXCEPT ![c] = Tail(@)]
      BY <2>3, PopReuses
    <3>2. Pool!Reuse(c)
      BY <3>1 DEF Pool!Reuse, Used, Held
    <3> QED BY <3>2 DEF Pool!Next
  <2>4. CASE Carve(t)
    <3>1. CASE UNCHANGED <<chain, Used>>
      BY <1>1, <3>1
    <3>2. CASE \E c \in Classes : \E a \in Addrs :
                 /\ \A d \in Classes : <<a, d>> \notin Used /\ \A i \in Links(d) : chain[d][i] # a
                 /\ Used' = Used \cup {<<a, c>>}
                 /\ UNCHANGED chain
      <4>1. PICK c \in Classes : \E a \in Addrs :
                 /\ \A d \in Classes : <<a, d>> \notin Used /\ \A i \in Links(d) : chain[d][i] # a
                 /\ Used' = Used \cup {<<a, c>>}
                 /\ UNCHANGED chain
        BY <3>2
      <4>2. PICK a \in Addrs :
                 /\ \A d \in Classes : <<a, d>> \notin Used /\ \A i \in Links(d) : chain[d][i] # a
                 /\ Used' = Used \cup {<<a, c>>}
                 /\ UNCHANGED chain
        BY <4>1
      <4>3. \A d \in Classes : a \notin Pool!Listed(d)
        BY <4>2 DEF Pool!Listed, Links
      <4>4. Pool!Carve(c)
        BY <4>2, <4>3 DEF Pool!Carve, Used, Held
      <4> QED BY <4>4 DEF Pool!Next
    <3> QED BY <2>2, <2>4, <3>1, <3>2, CarveCarves
  <2>5. CASE Link(t)
    <3>1. PICK c \in Classes : \E a \in Addrs :
                 /\ <<a, c>> \in Used
                 /\ Used' = Used \ {<<a, c>>}
                 /\ chain' = [chain EXCEPT ![c] = Append(@, a)]
      BY <2>5, LinkGivesBack
    <3>2. Pool!GiveBack(c)
      BY <3>1 DEF Pool!GiveBack, Used, Held
    <3> QED BY <3>2 DEF Pool!Next
  <2>6. CASE \E p \in owned : DeleteItem(t, p)
    BY <1>1, <2>6, DeleteItemQuiet
  <2>7. CASE \E c \in Classes : NewItem(t, c)
    <3>1. PICK c \in Classes : NewItem(t, c)
      BY <2>7
    <3>2. /\ Move(t, "idle", "lock_head") /\ chain' = chain /\ owned' = owned /\ lsize' = lsize
          /\ \A u \in Threads \ {t} : index'[u] = index[u] /\ ptr'[u] = ptr[u]
      BY <3>1 DEF NewItem, headerVars, TypeOK
    <3> QED BY <1>1, <3>2, QuietThread
  <2>8. CASE LockHead(t) \/ LockTail(t)
    <3>1. \E from, to : /\ Move(t, from, to)
                        /\ <<from, to>> \in {<<"lock_head", "read_next">>, <<"lock_tail", "link">>}
      BY <2>8 DEF LockHead, LockTail
    <3>2. /\ chain' = chain /\ owned' = owned /\ lsize' = lsize
          /\ index' = index /\ ptr' = ptr
      BY <2>8 DEF LockHead, LockTail, headerVars, localVars
    <3> QED BY <1>1, <3>1, <3>2, QuietThread
  <2>9. CASE ReadNext(t)
    <3>1. PICK to \in {"pop", "release"} : Move(t, "read_next", to)
      BY <2>9 DEF ReadNext
    <3>2. /\ chain' = chain /\ owned' = owned /\ lsize' = lsize
          /\ index' = index /\ ptr' = ptr
      BY <2>9 DEF ReadNext, headerVars
    <3> QED BY <1>1, <3>1, <3>2, QuietThread
  <2>10. CASE ReleaseHead(t) \/ LockPool(t)
    <3>1. \E from, to : /\ Move(t, from, to)
                        /\ <<from, to>> \in {<<"release", "lock_pool">>, <<"lock_pool", "carve">>}
      BY <2>10 DEF ReleaseHead, LockPool
    <3>2. /\ chain' = chain /\ owned' = owned /\ lsize' = lsize
          /\ index' = index /\ ptr' = ptr
      BY <2>10 DEF ReleaseHead, LockPool, headerVars, localVars
    <3> QED BY <1>1, <3>1, <3>2, QuietThread
  <2>11. CASE OutOfSpace(t)
    <3>1. /\ Move(t, "carve", "idle") /\ Return(t)
          /\ chain' = chain /\ owned' = owned /\ lsize' = lsize
      BY <2>11 DEF OutOfSpace, headerVars
    <3>2. \A u \in Threads \ {t} : index'[u] = index[u] /\ ptr'[u] = ptr[u]
      BY <3>1, ReturnFacts
    <3> QED BY <1>1, <3>1, <3>2, QuietThread
  <2>12. CASE Place(t)
    <3>1. PICK seg \in Segments(region) :
            ptr' = [ptr EXCEPT ![t] = IF Moves(t, seg) THEN seg ELSE current]
      BY <2>12 DEF Place
    <3>2. /\ Move(t, "carve", "header") /\ index' = index
          /\ chain' = chain /\ owned' = owned /\ lsize' = lsize
      BY <2>12 DEF Place, headerVars
    <3>3. \A u \in Threads \ {t} : index'[u] = index[u] /\ ptr'[u] = ptr[u]
      BY <3>1, <3>2 DEF TypeOK
    <3> QED BY <1>1, <3>2, <3>3, QuietThread
  <2>13. CASE SetTail(t)
    <3>1. /\ Move(t, "set_tail", "idle") /\ Return(t)
          /\ chain' = chain /\ owned' = owned /\ lsize' = lsize
      BY <2>13 DEF SetTail, headerVars
    <3>2. \A u \in Threads \ {t} : index'[u] = index[u] /\ ptr'[u] = ptr[u]
      BY <3>1, ReturnFacts
    <3> QED BY <1>1, <3>1, <3>2, QuietThread
  <2> QED BY <2>1, <2>3, <2>4, <2>5, <2>6, <2>7, <2>8, <2>9, <2>10, <2>11, <2>12, <2>13 DEF Inside
<1>3. CASE UNCHANGED vars
  BY <1>3 DEF vars, headerVars, localVars, Pool!poolVars, Returning
<1> QED BY <1>2, <1>3

-----------------------------------------------------------------------------
(* The shared-memory pool is well formed: heads, tails and list entries are *)
(* addresses of the segments and headers hold a class, also while           *)
(* larm_new_item and larm_delete_item of any number of threads overlap.     *)
THEOREM AllocatorTypeOK == ASSUME StrayOutside PROVE Spec => []TypeOK
<1>1. AllocInv => TypeOK
  BY DEF AllocInv
<1> QED BY <1>1, AllocInvariant, PTL

(* The free list of a class is what its head, its tail and the next_slot    *)
(* words say, and it is never empty: the consumer of larm_new_item and the  *)
(* producer of larm_delete_item hold different locks on it, and the kept    *)
(* slot is what makes that safe.                                            *)
THEOREM AllocatorListShape == ASSUME StrayOutside PROVE Spec => []ListShape
<1>1. AllocInv => ListShape
  BY DEF AllocInv
<1> QED BY <1>1, AllocInvariant, PTL

(* Two slots in use, on their way back or free never share a byte, and none *)
(* crosses the end of the segment it starts in, whose key the network layer *)
(* registers it under.                                                      *)
THEOREM AllocatorSlotsApart == ASSUME StrayOutside PROVE Spec => []SlotsApart
<1>1. AllocInv => SlotsApart
  BY DEF AllocInv
<1> QED BY <1>1, AllocInvariant, PTL

(* larm_new_item and larm_delete_item implement the pool: a slot is free or *)
(* in use and never both, and a class reuses its freed slots in order.      *)
THEOREM AllocatorIsPool == ASSUME StrayOutside PROVE Spec => PoolSpec
<1>1. AllocInv /\ [Next]_vars => [Pool!Next]_(Pool!poolVars)
  BY NextPool
<1> QED BY <1>1, InitPool, AllocInvariant, PTL DEF Spec, PoolSpec, Pool!Spec
=============================================================================
