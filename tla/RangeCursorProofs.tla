------------------------- MODULE RangeCursorProofs -------------------------
(* What a range scan of the server returns while writers insert, delete,    *)
(* split and merge under it, and who holds the IteratorContexts, for every  *)
(* tree, every batch size and every number of contexts.                     *)
EXTENDS RangeCursor, FiniteSetTheorems, TLAPS

-----------------------------------------------------------------------------
(* A copy of a leaf: its items lie below its high key. *)
PageOK(page) ==
  \A x \in page.items : x < page.high

Held(i) == iters[i].ctx # Null

(* Which iterators hold a context at each point of a scan. *)
ShapeOK ==
  /\ \A i \in Iters : ~Held(i) => iters[i].pos = Inf
  /\ phase = "idle" => ~Held("local") /\ count = 0
  /\ phase \in {"idle", "open", "copy"} =>
       ~Held("session") /\ worker = "opener" /\ delivered = <<>>
  /\ phase = "copy" => Held("local") /\ valid = (iters["local"].pos # Inf)
  /\ phase \in {"batch", "move"} => Held("session") /\ (worker = "opener" => Held("local"))
  /\ phase \notin {"move", "raced"} => ~Held("temp")
  /\ phase \in {"move", "raced"} => Held("temp")
  /\ phase = "raced" => ~Held("local")
  /\ phase = "drained" => ~Held("session") /\ ~valid
  /\ phase \in {"open", "move"} => start_key \in Pairs
  /\ phase \in {"batch", "move"} => \A k \in Range(delivered) : k \in Pairs
  /\ phase = "batch" /\ valid => iters["session"].pos # Inf

(* While the cursor is in the page it shares with process_range's cursor,   *)
(* the items of the first batch all come from that page; later batches do   *)
(* only when the page has more items than a batch.                          *)
Below(page, pos) == {x \in page.items : x < pos}
SharedOK ==
  /\ phase = "batch" /\ worker = "opener" /\ iters["session"].ctx = iters["local"].ctx =>
       count <= Cardinality(Below(contexts[iters["session"].ctx], iters["session"].pos))
  /\ worker = "prefetcher" /\ Held("local")
       /\ iters["local"].ctx \in {iters["session"].ctx, iters["temp"].ctx} =>
         Cardinality(contexts[iters["local"].ctx].items) > Cap

(* The page an iterator stands in has every key from there to its end that  *)
(* has been in the tree ever since.                                         *)
Covers(it) ==
  it.ctx # Null =>
    \A k \in always : it.pos <= k /\ k < contexts[it.ctx].high => k \in contexts[it.ctx].items

(* Pairs that the scan, or the search for its first key, has gone past. *)
Behind(k) ==
  CASE phase \in {"open", "move"}          -> k < start_key
    [] phase = "copy" /\ valid              -> k < iters["local"].pos
    [] phase = "batch" /\ valid             -> k < iters["session"].pos
    [] phase \in {"copy", "batch"} /\ ~valid -> TRUE
    [] phase = "drained"                    -> TRUE
    [] OTHER                                -> FALSE

ScanInv ==
  /\ phase = "copy" => Covers(iters["local"])
  /\ phase = "batch" => Covers(iters["session"])
  /\ phase # "raced" => \A k \in Range(delivered) : Behind(k)
  /\ \A k \in always : query.start <= k /\ k <= query.end /\ Behind(k) => k \in Range(delivered)
  /\ phase = "idle" => always = {}

(* The position is never below the range, and once an item was returned     *)
(* nothing beyond it is valid.                                              *)
WithinInv ==
  /\ phase \in {"open", "move"} => query.start <= start_key
  /\ phase = "copy" => query.start <= iters["local"].pos
  /\ phase = "batch" => query.start <= iters["session"].pos
  /\ phase = "batch" /\ valid /\ delivered # <<>> => iters["session"].pos <= query.end
  /\ phase = "move" => delivered # <<>>
  /\ ScanWithin

CursorInv ==
  /\ TypeOK /\ \A c \in Contexts : PageOK(contexts[c])
  /\ phase # "raced" => ContextsCounted
  /\ ShapeOK /\ SharedOK
  /\ ScanOrdered /\ ScanInv /\ WithinInv

-----------------------------------------------------------------------------
(* The least and the greatest element of a finite set, and what the two say *)
(* of the leaf that covers a key.                                          *)

LEMMA MinFact ==
  ASSUME NEW S \in SUBSET Nat, S # {}
  PROVE  Min(S) \in S /\ \A x \in S : Min(S) <= x
<1>1. \E x \in S : \A y \in S : ~(<<y, x>> \in OpToRel(<, Nat))
  BY NatLessThanWellFounded, WFMin
<1>2. \A x, y \in Nat : y < x => <<y, x>> \in OpToRel(<, Nat)
  BY DEF OpToRel
<1>3. PICK x \in S : \A y \in S : ~(y < x)
  BY <1>1, <1>2
<1>4. \A y \in S : x <= y
  BY <1>3
<1> QED BY <1>4 DEF Min

LEMMA MaxFact ==
  ASSUME NEW n \in Nat, NEW S \in SUBSET (0 .. n), S # {}
  PROVE  Max(S) \in S /\ \A x \in S : Max(S) >= x
<1> DEFINE T == {n - x : x \in S}
<1>0. PICK z \in S : TRUE
  OBVIOUS
<1>1. T \in SUBSET Nat /\ n - z \in T
  OBVIOUS
<1>2. PICK t \in T : \A u \in T : t <= u
  BY <1>1, MinFact
<1>3. PICK x \in S : t = n - x
  OBVIOUS
<1>4. \A y \in S : x >= y
  <2> SUFFICES ASSUME NEW y \in S PROVE x >= y
    OBVIOUS
  <2>1. t <= n - y
    BY <1>2
  <2> QED BY <1>3, <2>1
<1> QED BY <1>4 DEF Max

LEMMA InfFacts == NumPairs \in Nat /\ Inf \in Nat /\ Inf = NumPairs + 1 /\ 1 <= NumPairs /\ Inf >= 2
BY CursorAssumption DEF Inf

(* Between two neighbouring fences there is no third. *)
Low(F, k)  == Max({0} \cup {f \in F : f <= k})
High(F, k) == Min({Inf} \cup {f \in F : f > k})

LEMMA FenceFacts ==
  ASSUME NEW F \in SUBSET (2 .. NumPairs), NEW k \in Pairs
  PROVE  /\ Low(F, k) \in {0} \cup F /\ Low(F, k) \in Nat /\ Low(F, k) <= k
         /\ High(F, k) \in {Inf} \cup F /\ High(F, k) \in 2 .. Inf /\ k < High(F, k)
         /\ \A f \in F : f <= Low(F, k) \/ f >= High(F, k)
<1> DEFINE L == {0} \cup {f \in F : f <= k}
           H == {Inf} \cup {f \in F : f > k}
<1>0. /\ k \in 1 .. NumPairs /\ k \in Nat /\ NumPairs \in Nat /\ Inf = NumPairs + 1
      /\ \A f \in F : f \in 2 .. NumPairs
  BY InfFacts DEF Pairs
<1>1. L \in SUBSET (0 .. NumPairs) /\ 0 \in L
  <2>1. ASSUME NEW x \in L PROVE x \in 0 .. NumPairs
    <3>1. CASE x = 0
      BY <1>0, <3>1
    <3>2. CASE x \in F
      BY <1>0, <3>2
    <3> QED BY <3>1, <3>2
  <2> QED BY <2>1
<1>2. H \in SUBSET Nat /\ Inf \in H
  <2>1. ASSUME NEW x \in H PROVE x \in Nat
    <3>1. CASE x = Inf
      BY <1>0, <3>1
    <3>2. CASE x \in F
      BY <1>0, <3>2
    <3> QED BY <3>1, <3>2
  <2> QED BY <2>1
<1>3. Max(L) \in L /\ \A x \in L : Max(L) >= x
  <2>1. L # {}
    BY <1>1
  <2> QED BY <1>0, <1>1, <2>1, MaxFact
<1>4. Min(H) \in H /\ \A x \in H : Min(H) <= x
  <2>1. H # {}
    BY <1>2
  <2> QED BY <1>2, <2>1, MinFact
<1>5. PICK lo \in L : lo = Max(L) /\ \A x \in L : lo >= x
  BY <1>3
<1>6. PICK hi \in H : hi = Min(H) /\ \A x \in H : hi <= x
  BY <1>4
<1>7. lo \in {0} \cup F /\ lo \in Nat /\ lo <= k
  BY <1>0, <1>1
<1>8. hi \in {Inf} \cup F /\ hi \in 2 .. Inf /\ k < hi
  BY <1>0, <1>2
<1>9. ASSUME NEW f \in F PROVE f <= lo \/ f >= hi
  <2>1. f \in Nat
    BY <1>0
  <2>2. CASE f <= k
    BY <1>0, <1>5, <1>7, <2>1, <2>2
  <2>3. CASE f > k
    BY <1>0, <1>6, <1>8, <2>1, <2>3
  <2> QED BY <1>0, <2>1, <2>2, <2>3
<1> QED BY <1>5, <1>6, <1>7, <1>8, <1>9 DEF Low, High

(* LeafAt in terms of the two. *)
Cut(K, lo, hi) == {x \in K : lo <= x /\ x < hi}

LEMMA LeafIs ==
  ASSUME NEW k
  PROVE  LeafAt(k) = [items |-> Cut(pairs, Low(fences, k), High(fences, k)),
                      low |-> Low(fences, k), high |-> High(fences, k)]
BY DEF LeafAt, Cut, Low, High

LEMMA FiniteItems ==
  ASSUME NEW S \in SUBSET Pairs
  PROVE  IsFiniteSet(S) /\ Cardinality(S) \in Nat
<1>1. IsFiniteSet(Pairs)
  BY FS_Interval, InfFacts DEF Pairs
<1> QED BY <1>1, FS_Subset, FS_CardinalityType

LEMMA FewerItems ==
  ASSUME NEW S \in SUBSET Pairs, NEW T \in SUBSET S
  PROVE  Cardinality(T) <= Cardinality(S)
BY FiniteItems, FS_Subset

-----------------------------------------------------------------------------
(* Reference counts: what IncRef, DecRef and a new context do to them.      *)

Holders(its, c) == {i \in Iters : its[i].ctx = c}
Counted(ctxs, its) == \A c \in Contexts : ctxs[c].ref = Cardinality(Holders(its, c))
Pages == [Contexts -> [ref : 0 .. 3, items : SUBSET Pairs, high : 2 .. Inf]]
Places == [Iters -> [ctx : Contexts \cup {Null}, pos : 1 .. Inf]]

LEMMA HolderFacts ==
  ASSUME NEW its, NEW c
  PROVE  /\ IsFiniteSet(Holders(its, c)) /\ Cardinality(Holders(its, c)) \in 0 .. 3
         /\ Cardinality(Holders(its, c)) = 0 <=> \A i \in Iters : its[i].ctx # c
<1>1. IsFiniteSet({}) /\ Cardinality({}) = 0
  BY FS_EmptySet
<1>2. IsFiniteSet({"local"}) /\ Cardinality({"local"}) = 1
  BY FS_Singleton
<1>3. IsFiniteSet({"local", "session"}) /\ Cardinality({"local", "session"}) = 2
  <2>1. {"local", "session"} = {"local"} \cup {"session"} /\ "session" \notin {"local"}
    OBVIOUS
  <2>2. /\ IsFiniteSet({"local"} \cup {"session"})
        /\ Cardinality({"local"} \cup {"session"}) = Cardinality({"local"}) + 1
    BY <1>2, <2>1, FS_AddElement
  <2> QED BY <1>2, <2>1, <2>2
<1>4. IsFiniteSet(Iters) /\ Cardinality(Iters) = 3
  <2>1. Iters = {"local", "session"} \cup {"temp"} /\ "temp" \notin {"local", "session"}
    BY DEF Iters
  <2>2. /\ IsFiniteSet({"local", "session"} \cup {"temp"})
        /\ Cardinality({"local", "session"} \cup {"temp"}) = Cardinality({"local", "session"}) + 1
    BY <1>3, <2>1, FS_AddElement
  <2> QED BY <1>3, <2>1, <2>2
<1>5. Holders(its, c) \in SUBSET Iters
  BY DEF Holders
<1>6. /\ IsFiniteSet(Holders(its, c)) /\ Cardinality(Holders(its, c)) <= 3
      /\ Cardinality(Holders(its, c)) \in Nat
  BY <1>4, <1>5, FS_Subset, FS_CardinalityType
<1>7. Cardinality(Holders(its, c)) = 0 <=> Holders(its, c) = {}
  BY <1>6, FS_EmptySet
<1>8. Holders(its, c) = {} <=> \A i \in Iters : its[i].ctx # c
  BY DEF Holders
<1> QED BY <1>6, <1>7, <1>8

LEMMA TypedIters == NoIter \in [ctx : Contexts \cup {Null}, pos : 1 .. Inf]
                    /\ Free \in [ref : 0 .. 3, items : SUBSET Pairs, high : 2 .. Inf]
BY InfFacts DEF NoIter, Free

(* An iterator lets its context go. *)
Dropped(ctxs, its, i, ctxs2, its2) ==
  /\ ctxs2 \in Pages /\ its2 \in Places /\ Counted(ctxs2, its2)
  /\ its2[i] = NoIter /\ \A j \in Iters \ {i} : its2[j] = its[j]
  /\ \A c \in Contexts :
       ctxs2[c] = Free \/ (ctxs2[c].items = ctxs[c].items /\ ctxs2[c].high = ctxs[c].high)
  /\ \A j \in Iters \ {i} : its[j].ctx # Null =>
       /\ ctxs2[its[j].ctx].items = ctxs[its[j].ctx].items
       /\ ctxs2[its[j].ctx].high = ctxs[its[j].ctx].high

LEMMA Drop ==
  ASSUME NEW ctxs \in Pages, NEW its \in Places, Counted(ctxs, its), NEW i \in Iters,
         NEW ctxs2, ctxs2 = DecRef(ctxs, its[i]), NEW its2, its2 = [its EXCEPT ![i] = NoIter]
  PROVE  Dropped(ctxs, its, i, ctxs2, its2)
<1>0. its2 \in Places /\ its2[i] = NoIter /\ \A j \in Iters \ {i} : its2[j] = its[j]
  BY TypedIters DEF Places
<1>n. NoIter.ctx = Null /\ Null \notin Contexts
  BY CursorAssumption DEF NoIter
<1>1. CASE its[i].ctx = Null
  <2>1. ctxs2 = ctxs
    BY <1>1 DEF DecRef
  <2>2. \A c \in Contexts : Holders(its2, c) = Holders(its, c)
    BY <1>0, <1>n, <1>1 DEF Holders
  <2> QED BY <1>0, <2>1, <2>2 DEF Counted, Dropped
<1>2. CASE its[i].ctx # Null
  <2>1. PICK a \in Contexts : a = its[i].ctx
    BY <1>2 DEF Places
  <2>2. ctxs[a] \in [ref : 0 .. 3, items : SUBSET Pairs, high : 2 .. Inf]
    BY DEF Pages
  <2>3. /\ Holders(its2, a) = Holders(its, a) \ {i} /\ i \in Holders(its, a)
        /\ \A c \in Contexts \ {a} : Holders(its2, c) = Holders(its, c)
    BY <1>0, <1>n, <2>1 DEF Holders
  <2>4. Cardinality(Holders(its2, a)) = Cardinality(Holders(its, a)) - 1
    BY <2>3, HolderFacts, FS_RemoveElement
  <2>5. ctxs[a].ref = Cardinality(Holders(its, a)) /\ ctxs[a].ref \in 1 .. 3
    <3>1. ctxs[a].ref = Cardinality(Holders(its, a))
      BY DEF Counted
    <3>2. ctxs[a].ref # 0
      BY <2>1, <3>1, HolderFacts
    <3> QED BY <2>2, <3>1, <3>2
  <2>6. /\ \A c \in Contexts \ {a} : ctxs2[c] = ctxs[c]
        /\ ctxs2 \in Pages
        /\ ctxs2[a].ref = ctxs[a].ref - 1
        /\ ctxs2[a] = Free \/ (ctxs2[a].items = ctxs[a].items /\ ctxs2[a].high = ctxs[a].high)
        /\ ctxs[a].ref # 1 => ctxs2[a].items = ctxs[a].items /\ ctxs2[a].high = ctxs[a].high
    <3>1. CASE ctxs[a].ref = 1
      <4>1. ctxs2 = [ctxs EXCEPT ![a] = Free]
        BY <1>2, <2>1, <3>1 DEF DecRef
      <4> QED BY <3>1, <4>1, TypedIters DEF Pages, Free
    <3>2. CASE ctxs[a].ref # 1
      <4>1. ctxs2 = [ctxs EXCEPT ![a].ref = @ - 1]
        BY <1>2, <2>1, <3>2 DEF DecRef
      <4>2. ctxs2 = [ctxs EXCEPT ![a] = [ctxs[a] EXCEPT !.ref = ctxs[a].ref - 1]]
        BY <4>1
      <4>3. /\ [ctxs[a] EXCEPT !.ref = ctxs[a].ref - 1]
                  \in [ref : 0 .. 3, items : SUBSET Pairs, high : 2 .. Inf]
            /\ [ctxs[a] EXCEPT !.ref = ctxs[a].ref - 1].ref = ctxs[a].ref - 1
            /\ [ctxs[a] EXCEPT !.ref = ctxs[a].ref - 1].items = ctxs[a].items
            /\ [ctxs[a] EXCEPT !.ref = ctxs[a].ref - 1].high = ctxs[a].high
        BY <2>2, <2>5
      <4> QED BY <3>2, <4>2, <4>3 DEF Pages
    <3> QED BY <3>1, <3>2
  <2>7. Counted(ctxs2, its2)
    <3> SUFFICES ASSUME NEW c \in Contexts PROVE ctxs2[c].ref = Cardinality(Holders(its2, c))
      BY DEF Counted
    <3>1. CASE c = a
      BY <2>4, <2>5, <2>6, <3>1
    <3>2. CASE c # a
      BY <2>3, <2>6, <3>2 DEF Counted
    <3> QED BY <3>1, <3>2
  <2>8. ASSUME NEW j \in Iters \ {i}, its[j].ctx # Null
        PROVE  /\ ctxs2[its[j].ctx].items = ctxs[its[j].ctx].items
               /\ ctxs2[its[j].ctx].high = ctxs[its[j].ctx].high
    <3>1. its[j].ctx \in Contexts
      BY <2>8 DEF Places
    <3>2. CASE its[j].ctx # a
      BY <2>6, <3>1, <3>2
    <3>3. CASE its[j].ctx = a
      <4>1. Cardinality(Holders(its2, a)) # 0
        <5>1. j \in Iters /\ its2[j].ctx = a
          BY <1>0, <2>8, <3>3
        <5>2. Cardinality(Holders(its2, a)) = 0 <=> \A k \in Iters : its2[k].ctx # a
          BY HolderFacts
        <5> QED BY <5>1, <5>2
      <4>2. ctxs[a].ref # 1
        BY <2>4, <2>5, <4>1
      <4> QED BY <2>6, <3>3, <4>2
    <3> QED BY <3>2, <3>3
  <2>9. \A c \in Contexts :
          ctxs2[c] = Free \/ (ctxs2[c].items = ctxs[c].items /\ ctxs2[c].high = ctxs[c].high)
    BY <2>6
  <2> QED BY <1>0, <2>6, <2>7, <2>8, <2>9 DEF Dropped
<1> QED BY <1>1, <1>2

(* An iterator that holds nothing gets a new context ... *)
Renewed(its, c, ctxs2, its2) ==
  /\ ctxs2 \in Pages /\ its2 \in Places /\ Counted(ctxs2, its2)
  /\ \A j \in Iters : its[j].ctx # c

LEMMA Renew ==
  ASSUME NEW ctxs \in Pages, NEW its \in Places, Counted(ctxs, its), NEW i \in Iters,
         its[i].ctx = Null, NEW c \in Contexts, ctxs[c].ref = 0,
         NEW S \in SUBSET Pairs, NEW h \in 2 .. Inf, NEW p \in 1 .. Inf,
         NEW ctxs2, ctxs2 = [ctxs EXCEPT ![c] = [ref |-> 1, items |-> S, high |-> h]],
         NEW its2, its2 = [its EXCEPT ![i] = [ctx |-> c, pos |-> p]]
  PROVE  Renewed(its, c, ctxs2, its2)
<1>1. \A j \in Iters : its[j].ctx # c
  BY HolderFacts DEF Counted
<1>2. /\ its2 \in Places /\ its2[i].ctx = c /\ \A j \in Iters \ {i} : its2[j] = its[j]
      /\ c # Null
  BY CursorAssumption DEF Places
<1>3. /\ ctxs2 \in Pages /\ ctxs2[c].ref = 1 /\ \A d \in Contexts \ {c} : ctxs2[d] = ctxs[d]
  BY DEF Pages
<1>4. Holders(its2, c) = {i} /\ \A d \in Contexts \ {c} : Holders(its2, d) = Holders(its, d)
  <2>1. Holders(its2, c) = {i}
    BY <1>1, <1>2 DEF Holders
  <2>2. ASSUME NEW d \in Contexts \ {c} PROVE Holders(its2, d) = Holders(its, d)
    BY <1>2, CursorAssumption DEF Holders
  <2> QED BY <2>1, <2>2
<1>5. Cardinality({i}) = 1
  BY FS_Singleton
<1>6. Counted(ctxs2, its2)
  BY <1>3, <1>4, <1>5 DEF Counted
<1> QED BY <1>1, <1>2, <1>3, <1>6 DEF Renewed

(* ... or a share of another one's. *)
Shared(ctxs, ctxs2, its2) ==
  /\ ctxs2 \in Pages /\ its2 \in Places /\ Counted(ctxs2, its2)
  /\ \A c \in Contexts : ctxs2[c].items = ctxs[c].items /\ ctxs2[c].high = ctxs[c].high

LEMMA Share ==
  ASSUME NEW ctxs \in Pages, NEW its \in Places, Counted(ctxs, its), NEW i \in Iters,
         NEW j \in Iters, its[i].ctx = Null, its[j].ctx # Null,
         NEW ctxs2, ctxs2 = Copy(ctxs, its[j]), NEW its2, its2 = [its EXCEPT ![i] = its[j]]
  PROVE  Shared(ctxs, ctxs2, its2)
<1>1. PICK a \in Contexts : a = its[j].ctx /\ a # Null
  BY CursorAssumption DEF Places
<1>2. its2 \in Places /\ its2[i] = its[j] /\ \A k \in Iters \ {i} : its2[k] = its[k]
  BY DEF Places
<1>3. /\ Holders(its2, a) = Holders(its, a) \cup {i} /\ i \notin Holders(its, a)
      /\ \A c \in Contexts \ {a} : Holders(its2, c) = Holders(its, c)
  <2>1. Holders(its2, a) = Holders(its, a) \cup {i} /\ i \notin Holders(its, a)
    BY <1>1, <1>2 DEF Holders
  <2>2. ASSUME NEW c \in Contexts \ {a} PROVE Holders(its2, c) = Holders(its, c)
    BY <1>1, <1>2, CursorAssumption DEF Holders
  <2> QED BY <2>1, <2>2
<1>4. Cardinality(Holders(its2, a)) = Cardinality(Holders(its, a)) + 1
  BY <1>3, HolderFacts, FS_AddElement
<1>5. ctxs[a].ref = Cardinality(Holders(its, a)) /\ ctxs[a].ref \in 0 .. 3 /\ ctxs[a].ref + 1 \in 0 .. 3
  <2>1. ctxs[a].ref = Cardinality(Holders(its, a))
    BY DEF Counted
  <2>2. Cardinality(Holders(its2, a)) \in 0 .. 3 /\ Cardinality(Holders(its, a)) \in 0 .. 3
    BY HolderFacts
  <2> QED BY <1>4, <2>1, <2>2
<1>6. ctxs[a] \in [ref : 0 .. 3, items : SUBSET Pairs, high : 2 .. Inf]
  BY DEF Pages
<1>7. ctxs2 = [ctxs EXCEPT ![a] = [ctxs[a] EXCEPT !.ref = ctxs[a].ref + 1]]
  BY <1>1 DEF Copy
<1>8. /\ [ctxs[a] EXCEPT !.ref = ctxs[a].ref + 1]
            \in [ref : 0 .. 3, items : SUBSET Pairs, high : 2 .. Inf]
      /\ [ctxs[a] EXCEPT !.ref = ctxs[a].ref + 1].ref = ctxs[a].ref + 1
      /\ [ctxs[a] EXCEPT !.ref = ctxs[a].ref + 1].items = ctxs[a].items
      /\ [ctxs[a] EXCEPT !.ref = ctxs[a].ref + 1].high = ctxs[a].high
  BY <1>5, <1>6
<1>9. /\ ctxs2 \in Pages /\ ctxs2[a].ref = ctxs[a].ref + 1
      /\ ctxs2[a].items = ctxs[a].items /\ ctxs2[a].high = ctxs[a].high
      /\ \A c \in Contexts \ {a} : ctxs2[c] = ctxs[c]
  BY <1>7, <1>8 DEF Pages
<1>10. Counted(ctxs2, its2)
  <2> SUFFICES ASSUME NEW c \in Contexts PROVE ctxs2[c].ref = Cardinality(Holders(its2, c))
    BY DEF Counted
  <2>1. CASE c = a
    BY <1>4, <1>5, <1>9, <2>1
  <2>2. CASE c # a
    BY <1>3, <1>9, <2>2 DEF Counted
  <2> QED BY <2>1, <2>2
<1>11. \A c \in Contexts : ctxs2[c].items = ctxs[c].items /\ ctxs2[c].high = ctxs[c].high
  BY <1>9
<1> QED BY <1>2, <1>9, <1>10, <1>11 DEF Shared

(* An iterator without a context leaves one of the contexts free. *)
LEMMA FreeContext ==
  ASSUME NEW ctxs \in Pages, NEW its \in Places, Counted(ctxs, its),
         NEW i \in Iters, its[i].ctx = Null
  PROVE  \E c \in Contexts : ctxs[c].ref = 0
<1> SUFFICES ASSUME \A c \in Contexts : ctxs[c].ref # 0 PROVE FALSE
  OBVIOUS
<1>1. \A c \in Contexts : \E j \in Iters : its[j].ctx = c
  BY HolderFacts DEF Counted
<1>2. PICK a \in Contexts : \E b, c \in Contexts : a # b /\ b # c /\ a # c
  BY MemoryAssumption
<1>3. PICK b \in Contexts, c \in Contexts : a # b /\ b # c /\ a # c
  BY <1>2
<1>4. /\ \E j \in Iters : its[j].ctx = a
      /\ \E j \in Iters : its[j].ctx = b
      /\ \E j \in Iters : its[j].ctx = c
      /\ a # Null /\ b # Null /\ c # Null
  BY <1>1, CursorAssumption
<1> QED BY <1>3, <1>4 DEF Iters

-----------------------------------------------------------------------------
(* What the scan reads of the tree and of a page. *)

LEMMA LeafFacts ==
  ASSUME TypeOK, NEW k \in Pairs
  PROVE  /\ LeafAt(k).items \in SUBSET pairs
         /\ LeafAt(k).high \in 2 .. Inf /\ k < LeafAt(k).high
         /\ \A x \in LeafAt(k).items : x < LeafAt(k).high
         /\ \A x \in pairs : k <= x /\ x < LeafAt(k).high => x \in LeafAt(k).items
<1>1. fences \in SUBSET (2 .. NumPairs) /\ pairs \in SUBSET Pairs
  BY CursorAssumption DEF TypeOK
<1>2. PICK lo \in Nat : lo = Low(fences, k) /\ lo <= k
  BY <1>1, FenceFacts
<1>3. PICK hi \in 2 .. Inf : hi = High(fences, k) /\ k < hi
  BY <1>1, FenceFacts
<1>4. LeafAt(k).items = Cut(pairs, lo, hi) /\ LeafAt(k).high = hi
  BY <1>2, <1>3, LeafIs
<1>5. \A x \in pairs : x \in Nat
  BY <1>1 DEF Pairs
<1>6. \A x \in pairs : k <= x => lo <= x
  BY <1>2, <1>5 DEF Pairs
<1> QED BY <1>3, <1>4, <1>6 DEF Cut

LEMMA BoundFacts ==
  ASSUME NEW S \in SUBSET Pairs, NEW k \in Pairs
  PROVE  /\ LowerBound(S, k) \in 1 .. Inf /\ UpperBound(S, k) \in 1 .. Inf
         /\ LowerBound(S, k) # Inf => LowerBound(S, k) \in S /\ LowerBound(S, k) >= k
         /\ UpperBound(S, k) # Inf => UpperBound(S, k) \in S
         /\ UpperBound(S, k) > k
         /\ \A x \in S : x >= k => LowerBound(S, k) <= x
         /\ \A x \in S : x > k => UpperBound(S, k) <= x
<1>0. /\ \A x \in S : x \in 1 .. NumPairs
      /\ NumPairs \in Nat /\ Inf = NumPairs + 1 /\ Inf \in Nat /\ k \in 1 .. NumPairs
  BY InfFacts DEF Pairs
<1> DEFINE L == {Inf} \cup {x \in S : x >= k}
           U == {Inf} \cup {x \in S : x > k}
<1>1. L \in SUBSET Nat /\ Inf \in L
  <2>1. \A x \in S : x \in Nat
    BY <1>0
  <2> QED BY <1>0, <2>1
<1>2. U \in SUBSET Nat /\ Inf \in U
  <2>1. \A x \in S : x \in Nat
    BY <1>0
  <2> QED BY <1>0, <2>1
<1>3. PICK l \in L : l = LowerBound(S, k) /\ \A x \in L : l <= x
  <2>1. L # {}
    BY <1>1
  <2> QED BY <1>1, <2>1, MinFact DEF LowerBound
<1>4. PICK u \in U : u = UpperBound(S, k) /\ \A x \in U : u <= x
  <2>1. U # {}
    BY <1>2
  <2> QED BY <1>2, <2>1, MinFact DEF UpperBound
<1>5. l \in 1 .. Inf /\ (l # Inf => l \in S /\ l >= k) /\ \A x \in S : x >= k => l <= x
  <2>1. l = Inf \/ l \in S
    BY <1>3
  <2>2. l \in 1 .. Inf
    BY <1>0, <2>1
  <2> QED BY <1>3, <2>2
<1>6. u \in 1 .. Inf /\ (u # Inf => u \in S) /\ u > k /\ \A x \in S : x > k => u <= x
  <2>1. u = Inf \/ u \in S
    BY <1>4
  <2>2. u \in 1 .. Inf
    BY <1>0, <2>1
  <2>3. u > k
    BY <1>0, <1>4
  <2> QED BY <1>4, <2>2, <2>3
<1> QED BY <1>3, <1>4, <1>5, <1>6

LEMMA FreeIsOK == PageOK(Free)
BY DEF PageOK, Free

LEMMA TypedParts ==
  ASSUME TypeOK
  PROVE  contexts \in Pages /\ iters \in Places
BY DEF TypeOK, Pages, Places

(* What a writer changes is all a writer must keep. *)
LEMMA WriterFrame ==
  ASSUME CursorInv, UNCHANGED scanVars, pairs' \in SUBSET Pairs, fences' \in SUBSET KeyStarts,
         always' \subseteq always, always' \subseteq pairs'
  PROVE  CursorInv'
<1>1. /\ contexts' = contexts /\ iters' = iters /\ phase' = phase /\ worker' = worker
      /\ query' = query /\ valid' = valid /\ count' = count /\ start_key' = start_key
      /\ delivered' = delivered
  BY DEF scanVars
<1>2. TypeOK'
  BY <1>1 DEF CursorInv, TypeOK
<1>3. \A c \in Contexts : PageOK(contexts'[c])
  BY <1>1 DEF CursorInv
<1>4. (phase # "raced" => ContextsCounted)'
  BY <1>1 DEF CursorInv, ContextsCounted
<1>5. ShapeOK'
  BY <1>1 DEF CursorInv, ShapeOK, Held
<1>6. SharedOK'
  BY <1>1 DEF CursorInv, SharedOK, Held
<1>7. ScanOrdered'
  BY <1>1 DEF CursorInv, ScanOrdered
<1>8. ScanInv'
  BY <1>1 DEF CursorInv, ScanInv, Covers, Behind
<1>9. WithinInv'
  BY <1>1 DEF CursorInv, WithinInv, ScanWithin
<1> QED BY <1>2, <1>3, <1>4, <1>5, <1>6, <1>7, <1>8, <1>9 DEF CursorInv

LEMMA WriterStep ==
  ASSUME CursorInv,
         \/ \E k \in Pairs : Insert(k) \/ Delete(k)
         \/ \E k \in KeyStarts : SplitLeaf(k) \/ MergeLeaf(k)
  PROVE  CursorInv'
<1>1. pairs \in SUBSET Pairs /\ fences \in SUBSET KeyStarts /\ always \subseteq pairs
  BY DEF CursorInv, TypeOK
<1>2. ASSUME NEW k \in Pairs, Insert(k) PROVE CursorInv'
  BY <1>1, <1>2, WriterFrame DEF Insert
<1>3. ASSUME NEW k \in Pairs, Delete(k) PROVE CursorInv'
  BY <1>1, <1>3, WriterFrame DEF Delete
<1>4. ASSUME NEW k \in KeyStarts, SplitLeaf(k) PROVE CursorInv'
  BY <1>1, <1>4, WriterFrame DEF SplitLeaf
<1>5. ASSUME NEW k \in KeyStarts, MergeLeaf(k) PROVE CursorInv'
  BY <1>1, <1>5, WriterFrame DEF MergeLeaf
<1> QED BY <1>2, <1>3, <1>4, <1>5

-----------------------------------------------------------------------------
(* The steps of the scan. *)

LEMMA FindStep ==
  ASSUME CursorInv, NEW start \in Pairs, NEW end \in Pairs, Find(start, end)
  PROVE  CursorInv'
<1> USE DEF CursorInv
<1>1. /\ phase = "idle" /\ phase' = "open" /\ worker' = "opener" /\ start_key' = start
      /\ query' = [start |-> start, end |-> end] /\ always' = pairs
      /\ pairs' = pairs /\ fences' = fences /\ contexts' = contexts /\ iters' = iters
      /\ valid' = valid /\ count' = count /\ delivered' = delivered
  BY DEF Find, treeVars
<1>2. TypeOK'
  BY <1>1 DEF TypeOK, Pairs
<1>3. WithinInv'
  <2>1. delivered' = <<>> /\ DOMAIN delivered' = {} /\ start \in Nat
    BY <1>1 DEF ShapeOK, Pairs
  <2> QED BY <1>1, <2>1 DEF WithinInv, ScanWithin
<1>4. (\A c \in Contexts : PageOK(contexts[c]))' /\ (phase # "raced" => ContextsCounted)'
  BY <1>1 DEF ContextsCounted
<1>5. ShapeOK'
  BY <1>1 DEF ShapeOK, Held
<1>6. SharedOK'
  BY <1>1 DEF SharedOK
<1>7. ScanOrdered'
  BY <1>1 DEF ScanOrdered
<1>8. delivered' = <<>> /\ Range(delivered') = {}
  BY <1>1 DEF ShapeOK, Range
<1>9. ScanInv'
  <2>1. \A k \in pairs : k \in Nat /\ start \in Nat
    BY DEF TypeOK, Pairs
  <2> QED BY <1>1, <1>8, <2>1 DEF ScanInv, Behind
<1> QED BY <1>2, <1>3, <1>4, <1>5, <1>6, <1>7, <1>9

(* What one round of LowerBound leaves behind. *)
Loaded(m, c, p, S, h) ==
  /\ m = Mover
  /\ S \in SUBSET pairs /\ h \in 2 .. Inf /\ start_key < h /\ p \in 1 .. Inf
  /\ p # Inf => p \in S /\ p >= start_key
  /\ \A x \in S : x < h /\ (x >= start_key => p <= x)
  /\ \A x \in pairs : start_key <= x /\ x < h => x \in S
  /\ contexts' \in Pages /\ iters' \in Places /\ Counted(contexts', iters')
  /\ \A d \in Contexts : PageOK(contexts'[d])
  /\ contexts'[c].items = S /\ contexts'[c].high = h
  /\ iters'[m] = [ctx |-> c, pos |-> p]
  /\ \A j \in Iters \ {m, "temp"} :
       /\ iters'[j] = iters[j] /\ iters[j].ctx # c
       /\ iters[j].ctx # Null =>
            /\ contexts'[iters[j].ctx].items = contexts[iters[j].ctx].items
            /\ contexts'[iters[j].ctx].high = contexts[iters[j].ctx].high
  /\ IF p = Inf /\ h # Inf
     THEN /\ start_key' = h /\ phase' = phase /\ valid' = valid
          /\ iters'["temp"] = iters["temp"] /\ iters["temp"].ctx # c
          /\ iters["temp"].ctx # Null =>
               /\ contexts'[iters["temp"].ctx].items = contexts[iters["temp"].ctx].items
               /\ contexts'[iters["temp"].ctx].high = contexts[iters["temp"].ctx].high
     ELSE /\ start_key' = 0 /\ iters'["temp"] = NoIter
          /\ IF phase = "open"
             THEN phase' = "copy" /\ valid' = (p # Inf)
             ELSE phase' = "batch" /\ valid' = (p # Inf /\ p <= query.end)

LEMMA LoadPageLoads ==
  ASSUME CursorInv, LoadPage
  PROVE  \E m \in {"local", "session"}, c \in Contexts : \E p, S, h : Loaded(m, c, p, S, h)
<1> DEFINE page == LeafAt(start_key)
           left == DecRef(contexts, iters[Mover])
           its1 == [iters EXCEPT ![Mover] = NoIter]
           pos  == LowerBound(page.items, start_key)
<1>1. contexts \in Pages /\ iters \in Places /\ Counted(contexts, iters)
  BY TypedParts DEF LoadPage, CursorInv, ContextsCounted, Counted, Holders
<1>2. PICK m \in {"local", "session"} : m = Mover
  BY DEF Mover
<1>3. m \in Iters /\ m # "temp" /\ "temp" \in Iters
  BY DEF Iters
<1>4. start_key \in Pairs
  BY DEF LoadPage, CursorInv, ShapeOK
<1>5. PICK S \in SUBSET pairs, h \in 2 .. Inf :
        /\ S = page.items /\ h = page.high /\ start_key < h
        /\ \A x \in S : x < h
        /\ \A x \in pairs : start_key <= x /\ x < h => x \in S
  BY <1>4, LeafFacts DEF CursorInv
<1>6. S \in SUBSET Pairs
  BY DEF CursorInv, TypeOK
<1>7. PICK p \in 1 .. Inf :
        /\ p = pos /\ (p # Inf => p \in S /\ p >= start_key)
        /\ \A x \in S : x >= start_key => p <= x
  BY <1>4, <1>5, <1>6, BoundFacts
<1>8. /\ left \in Pages /\ its1 \in Places /\ Counted(left, its1)
      /\ \A d \in Contexts : left[d] = Free \/ (left[d].items = contexts[d].items
                                               /\ left[d].high = contexts[d].high)
      /\ \A j \in Iters \ {m} : iters[j].ctx # Null =>
           /\ left[iters[j].ctx].items = contexts[iters[j].ctx].items
           /\ left[iters[j].ctx].high = contexts[iters[j].ctx].high
  <2>1. left = DecRef(contexts, iters[m]) /\ its1 = [iters EXCEPT ![m] = NoIter]
    BY <1>2
  <2> HIDE DEF left, its1
  <2>2. Dropped(contexts, iters, m, left, its1)
    BY <1>1, <1>3, <2>1, Drop
  <2> QED BY <2>2 DEF Dropped
<1>9. its1[m].ctx = Null /\ \A j \in Iters \ {m} : its1[j] = iters[j]
  BY <1>1, <1>2, <1>3 DEF Places, NoIter
<1>10. PICK c \in Contexts : c = (CHOOSE d \in Contexts : left[d].ref = 0) /\ left[c].ref = 0
  <2> HIDE DEF left, its1
  <2>1. \E d \in Contexts : left[d].ref = 0
    BY <1>3, <1>8, <1>9, FreeContext
  <2> QED BY <2>1
<1> DEFINE it    == [ctx |-> c, pos |-> p]
           ctxs2 == [left EXCEPT ![c] = [ref |-> 1, items |-> S, high |-> h]]
           its2  == [its1 EXCEPT ![m] = it]
<1>11. /\ ctxs2 \in Pages /\ its2 \in Places /\ Counted(ctxs2, its2)
       /\ \A j \in Iters : its1[j].ctx # c
  <2> HIDE DEF left, its1
  <2>1. Renewed(its1, c, ctxs2, its2)
    BY <1>3, <1>5, <1>6, <1>7, <1>8, <1>9, <1>10, Renew
  <2> QED BY <2>1 DEF Renewed
<1>12. /\ its2[m] = it /\ \A j \in Iters \ {m} : its2[j] = iters[j] /\ iters[j].ctx # c
       /\ ctxs2[c].items = S /\ ctxs2[c].high = h
       /\ \A d \in Contexts \ {c} : ctxs2[d] = left[d]
       /\ its2 = [iters EXCEPT ![m] = it]
  <2>1. its1 \in Places /\ left \in Pages
    BY <1>8
  <2>2. its2 = [iters EXCEPT ![m] = it]
    BY <1>1, <1>2, <1>3 DEF Places
  <2> HIDE DEF left, its1
  <2> QED BY <1>3, <1>9, <1>11, <2>1, <2>2 DEF Places, Pages
<1>13. ASSUME NEW j \in Iters \ {m}, iters[j].ctx # Null
       PROVE  /\ ctxs2[iters[j].ctx].items = contexts[iters[j].ctx].items
              /\ ctxs2[iters[j].ctx].high = contexts[iters[j].ctx].high
  <2>1. iters[j].ctx \in Contexts \ {c}
    BY <1>1, <1>12, <1>13 DEF Places
  <2> HIDE DEF left, its1, ctxs2, its2
  <2> QED BY <1>8, <1>12, <1>13, <2>1
<1>14. \A d \in Contexts : PageOK(ctxs2[d])
  <2> SUFFICES ASSUME NEW d \in Contexts PROVE PageOK(ctxs2[d])
    OBVIOUS
  <2> HIDE DEF left, its1, ctxs2, its2
  <2>1. CASE d = c
    BY <1>5, <1>12, <2>1 DEF PageOK
  <2>2. CASE d # c /\ left[d] = Free
    BY <1>12, <2>2, FreeIsOK
  <2>3. CASE d # c /\ left[d] # Free
    BY <1>8, <1>12, <2>3 DEF PageOK, CursorInv
  <2> QED BY <2>1, <2>2, <2>3
<1> DEFINE more == p = Inf /\ h # Inf
<1>15. (p = Inf /\ ~IsEnd(ctxs2, it)) <=> more
  BY <1>12, CursorAssumption DEF IsEnd
<1>16. Valid(ctxs2, it) <=> (p # Inf \/ h # Inf) /\ p <= query.end
  BY <1>12, CursorAssumption DEF IsEnd, Valid
<1>17. /\ iters' = [iters EXCEPT ![Mover] = it, !["temp"] = IF more THEN @ ELSE NoIter]
       /\ IF more
          THEN start_key' = h /\ contexts' = ctxs2 /\ phase' = phase /\ valid' = valid
          ELSE /\ contexts' = DecRef(ctxs2, iters["temp"]) /\ start_key' = 0
               /\ IF phase = "open"
                  THEN phase' = "copy" /\ valid' = ~IsEnd(ctxs2, it)
                  ELSE phase' = "batch" /\ valid' = Valid(ctxs2, it)
  <2>1. ctxs2 = [left EXCEPT ![CHOOSE d \in Contexts : left[d].ref = 0]
                   = [ref |-> 1, items |-> page.items, high |-> page.high]]
    BY <1>5, <1>10
  <2>2. it = [ctx |-> CHOOSE d \in Contexts : left[d].ref = 0,
              pos |-> LowerBound(page.items, start_key)]
    BY <1>7, <1>10
  <2>3. /\ iters' = [iters EXCEPT ![Mover] = it,
                       !["temp"] = IF it.pos = Inf /\ ~IsEnd(ctxs2, it) THEN @ ELSE NoIter]
        /\ IF it.pos = Inf /\ ~IsEnd(ctxs2, it)
           THEN /\ start_key' = NextStart(page, start_key)
                /\ contexts' = ctxs2
                /\ UNCHANGED <<phase, valid>>
           ELSE /\ contexts' = DecRef(ctxs2, iters["temp"])
                /\ start_key' = 0
                /\ IF phase = "open"
                   THEN phase' = "copy" /\ valid' = ~IsEnd(ctxs2, it)
                   ELSE phase' = "batch" /\ valid' = Valid(ctxs2, it)
    <3> HIDE DEF ctxs2, it
    <3> QED BY <2>1, <2>2 DEF LoadPage
  <2>4. it.pos = p /\ NextStart(page, start_key) = h
    BY <1>5 DEF NextStart
  <2> HIDE DEF ctxs2, it, page
  <2> QED BY <1>15, <2>3, <2>4
<1> HIDE DEF left, its1, ctxs2, its2, page, pos
<1>18. CASE more
  <2>1. iters' = its2 /\ contexts' = ctxs2
    <3>1. iters' = [iters EXCEPT ![m] = it, !["temp"] = @]
      BY <1>2, <1>17, <1>18
    <3>2. [iters EXCEPT ![m] = it, !["temp"] = @] = [iters EXCEPT ![m] = it]
      BY <1>1, <1>3 DEF Places
    <3> QED BY <1>12, <1>17, <1>18, <3>1, <3>2
  <2>2. Loaded(m, c, p, S, h)
    BY <1>2, <1>3, <1>5, <1>7, <1>11, <1>12, <1>13, <1>14, <1>17, <1>18, <2>1 DEF Loaded
  <2> QED BY <2>2
<1>19. CASE ~more
  <2>1. iters' = [its2 EXCEPT !["temp"] = NoIter] /\ contexts' = DecRef(ctxs2, its2["temp"])
    <3>1. iters' = [iters EXCEPT ![m] = it, !["temp"] = NoIter]
      BY <1>2, <1>17, <1>19
    <3>2. [iters EXCEPT ![m] = it, !["temp"] = NoIter] = [its2 EXCEPT !["temp"] = NoIter]
      BY <1>12
    <3> QED BY <1>3, <1>12, <1>17, <1>19, <3>1, <3>2
  <2>2. /\ contexts' \in Pages /\ iters' \in Places /\ Counted(contexts', iters')
        /\ \A d \in Contexts : contexts'[d] = Free \/ (contexts'[d].items = ctxs2[d].items
                                                      /\ contexts'[d].high = ctxs2[d].high)
        /\ \A j \in Iters \ {"temp"} : its2[j].ctx # Null =>
             /\ contexts'[its2[j].ctx].items = ctxs2[its2[j].ctx].items
             /\ contexts'[its2[j].ctx].high = ctxs2[its2[j].ctx].high
    <3>1. Dropped(ctxs2, its2, "temp", contexts', iters')
      BY <1>3, <1>11, <2>1, Drop
    <3> QED BY <3>1 DEF Dropped
  <2>3. iters'["temp"] = NoIter /\ \A j \in Iters \ {"temp"} : iters'[j] = its2[j]
    BY <1>3, <1>11, <2>1 DEF Places
  <2>4. contexts'[c].items = S /\ contexts'[c].high = h
    <3>1. its2[m].ctx = c /\ c # Null
      BY <1>12, CursorAssumption
    <3> QED BY <1>3, <1>12, <2>2, <3>1
  <2>5. \A d \in Contexts : PageOK(contexts'[d])
    <3> SUFFICES ASSUME NEW d \in Contexts PROVE PageOK(contexts'[d])
      OBVIOUS
    <3>1. CASE contexts'[d] = Free
      BY <3>1, FreeIsOK
    <3>2. CASE contexts'[d] # Free
      BY <1>14, <2>2, <3>2 DEF PageOK
    <3> QED BY <3>1, <3>2
  <2>6. \A j \in Iters \ {m, "temp"} :
          /\ iters'[j] = iters[j] /\ iters[j].ctx # c
          /\ iters[j].ctx # Null =>
               /\ contexts'[iters[j].ctx].items = contexts[iters[j].ctx].items
               /\ contexts'[iters[j].ctx].high = contexts[iters[j].ctx].high
    BY <1>12, <1>13, <2>2, <2>3
  <2>7. iters'[m] = [ctx |-> c, pos |-> p]
    BY <1>3, <1>12, <2>3
  <2>8. /\ start_key' = 0
        /\ IF phase = "open"
           THEN phase' = "copy" /\ valid' = (p # Inf)
           ELSE phase' = "batch" /\ valid' = (p # Inf /\ p <= query.end)
    <3>1. IsEnd(ctxs2, it) <=> p = Inf
      BY <1>12, <1>19, CursorAssumption DEF IsEnd
    <3>2. Valid(ctxs2, it) <=> p # Inf /\ p <= query.end
      BY <3>1 DEF Valid
    <3>3. Valid(ctxs2, it) \in BOOLEAN
      BY DEF Valid
    <3>4. /\ (~IsEnd(ctxs2, it)) = (p # Inf)
          /\ Valid(ctxs2, it) = (p # Inf /\ p <= query.end)
      BY <3>1, <3>2, <3>3
    <3>5. CASE phase = "open"
      <4>1. start_key' = 0 /\ phase' = "copy" /\ valid' = ~IsEnd(ctxs2, it)
        BY <1>17, <1>19, <3>5, Zenon
      <4>2. valid' = (p # Inf)
        BY <3>4, <4>1, Zenon
      <4> QED BY <3>5, <4>1, <4>2
    <3>6. CASE phase # "open"
      BY <1>17, <1>19, <3>4, <3>6
    <3> QED BY <3>5, <3>6
  <2>9. Loaded(m, c, p, S, h)
    BY <1>2, <1>3, <1>5, <1>7, <1>19, <2>2, <2>3, <2>4, <2>5, <2>6, <2>7, <2>8 DEF Loaded
  <2> QED BY <2>9
<1> QED BY <1>18, <1>19

(* The pairs of the range that LowerBound has gone past were all returned. *)
LEMMA LoadPageStep ==
  ASSUME CursorInv, LoadPage
  PROVE  CursorInv'
<1>1. PICK m \in {"local", "session"}, c \in Contexts : \E p, S, h : Loaded(m, c, p, S, h)
  BY LoadPageLoads
<1>2. PICK p, S, h : Loaded(m, c, p, S, h)
  BY <1>1
<1>3. /\ phase \in {"open", "move"} /\ pairs' = pairs /\ fences' = fences /\ always' = always
      /\ worker' = worker /\ query' = query /\ count' = count /\ delivered' = delivered
  BY DEF LoadPage, treeVars
<1>4. /\ m = IF phase = "open" THEN "local" ELSE "session"
      /\ S \in SUBSET pairs /\ h \in 2 .. Inf /\ start_key < h /\ p \in 1 .. Inf
      /\ p # Inf => p \in S /\ p >= start_key
      /\ \A x \in S : x < h /\ (x >= start_key => p <= x)
      /\ \A x \in pairs : start_key <= x /\ x < h => x \in S
  BY <1>2 DEF Loaded, Mover
<1>5. /\ contexts' \in Pages /\ iters' \in Places /\ ContextsCounted'
      /\ (\A d \in Contexts : PageOK(contexts[d]))'
      /\ contexts'[c].items = S /\ contexts'[c].high = h
      /\ iters'[m] = [ctx |-> c, pos |-> p]
  BY <1>2 DEF Loaded, Counted, Holders, ContextsCounted
<1>6. \A j \in Iters \ {m, "temp"} :
        /\ iters'[j] = iters[j] /\ iters[j].ctx # c
        /\ iters[j].ctx # Null =>
             /\ contexts'[iters[j].ctx].items = contexts[iters[j].ctx].items
             /\ contexts'[iters[j].ctx].high = contexts[iters[j].ctx].high
  BY <1>2 DEF Loaded
<1> DEFINE more == p = Inf /\ h # Inf
<1>7. more =>
        /\ start_key' = h /\ phase' = phase /\ valid' = valid
        /\ iters'["temp"] = iters["temp"] /\ iters["temp"].ctx # c
        /\ iters["temp"].ctx # Null =>
             /\ contexts'[iters["temp"].ctx].items = contexts[iters["temp"].ctx].items
             /\ contexts'[iters["temp"].ctx].high = contexts[iters["temp"].ctx].high
  BY <1>2 DEF Loaded
<1>8. ~more =>
        /\ start_key' = 0 /\ iters'["temp"] = NoIter
        /\ IF phase = "open"
           THEN phase' = "copy" /\ valid' = (p # Inf)
           ELSE phase' = "batch" /\ valid' = (p # Inf /\ p <= query.end)
  BY <1>2 DEF Loaded
<1>9. /\ TypeOK /\ ShapeOK /\ SharedOK /\ ScanOrdered /\ ScanInv
      /\ pairs \subseteq Pairs /\ always \subseteq pairs /\ start_key \in Pairs
      /\ \A k \in Pairs : k \in Nat
      /\ c # Null
  BY <1>3, CursorAssumption DEF CursorInv, TypeOK, ShapeOK, Pairs
<1>10. m \in Iters /\ "temp" \in Iters /\ m # "temp" /\ NoIter.ctx = Null /\ NoIter.pos = Inf
  BY DEF Iters, NoIter
<1>11. h # Inf => h \in Pairs
  BY <1>4, InfFacts DEF Pairs
<1>12. TypeOK'
  <2>1. ASSUME NEW i \in Iters, iters'[i].pos # Inf
        PROVE  iters'[i].pos \in contexts'[iters'[i].ctx].items
    <3>1. CASE i = m
      BY <1>4, <1>5, <2>1, <3>1
    <3>2. CASE i \notin {m, "temp"}
      BY <1>6, <1>9, <2>1, <3>2 DEF TypeOK, ShapeOK, Held
    <3>3. CASE i = "temp"
      BY <1>7, <1>8, <1>9, <1>10, <2>1, <3>3 DEF TypeOK, ShapeOK, Held
    <3> QED BY <3>1, <3>2, <3>3
  <2>2. start_key' \in 0 .. NumPairs
    BY <1>7, <1>8, <1>11, InfFacts DEF Pairs
  <2>3. phase' \in {"idle", "open", "copy", "batch", "move", "drained", "raced"} /\ valid' \in BOOLEAN
    BY <1>3, <1>7, <1>8, <1>9 DEF TypeOK
  <2> QED BY <1>3, <1>5, <1>9, <2>1, <2>2, <2>3 DEF TypeOK, Pages, Places
<1>13. WithinInv'
  <2>1. query.start <= start_key /\ query.start \in Nat /\ query.end \in Nat /\ ScanWithin
    BY <1>3, <1>9 DEF CursorInv, WithinInv, TypeOK
  <2>2. start_key \in Nat /\ h \in Nat /\ p \in Nat /\ query.start <= h
    BY <1>4, <1>9, <2>1, InfFacts
  <2>3. query.start <= p
    BY <1>4, <1>9, <2>1, <2>2, InfFacts DEF Pairs
  <2>4. ScanWithin'
    BY <1>3, <2>1 DEF ScanWithin
  <2>5. phase = "move" => delivered # <<>>
    BY DEF CursorInv, WithinInv
  <2>6. CASE more
    BY <1>3, <1>7, <2>2, <2>4, <2>5, <2>6 DEF WithinInv
  <2>7. CASE ~more /\ phase = "open"
    <3>1. phase' = "copy" /\ m = "local" /\ iters'["local"].pos = p
      BY <1>4, <1>5, <1>8, <2>7
    <3> QED BY <1>3, <2>3, <2>4, <3>1 DEF WithinInv
  <2>8. CASE ~more /\ phase = "move"
    <3>1. /\ phase' = "batch" /\ m = "session" /\ iters'["session"].pos = p
          /\ valid' = (p # Inf /\ p <= query.end)
      BY <1>4, <1>5, <1>8, <2>8
    <3> QED BY <1>3, <2>3, <2>4, <3>1 DEF WithinInv
  <2> QED BY <1>3, <2>6, <2>7, <2>8
<1>14. CASE more
  <2>1. /\ start_key' = h /\ phase' = phase /\ valid' = valid /\ h \in Pairs
        /\ iters'["temp"] = iters["temp"] /\ iters["temp"].ctx # c
    BY <1>7, <1>11, <1>14
  <2>2. ShapeOK'
    <3>1. CASE phase = "open"
      <4>1. m = "local" /\ iters'["session"] = iters["session"] /\ iters'["local"].ctx = c
        BY <1>4, <1>5, <1>6, <3>1 DEF Iters
      <4> QED BY <1>3, <1>5, <1>9, <2>1, <3>1, <4>1 DEF ShapeOK, Held, Iters
    <3>2. CASE phase = "move"
      <4>1. m = "session" /\ iters'["local"] = iters["local"] /\ iters'["session"].ctx = c
        BY <1>4, <1>5, <1>6, <3>2 DEF Iters
      <4> QED BY <1>3, <1>5, <1>9, <2>1, <3>2, <4>1 DEF ShapeOK, Held, Iters
    <3> QED BY <1>3, <3>1, <3>2
  <2>3. SharedOK'
    <3>1. CASE phase = "open"
      BY <1>3, <1>9, <2>1, <3>1 DEF SharedOK, ShapeOK
    <3>2. CASE phase = "move"
      <4>1. m = "session" /\ iters'["local"] = iters["local"] /\ iters'["session"].ctx = c
            /\ iters["local"].ctx # c
        BY <1>4, <1>5, <1>6, <3>2 DEF Iters
      <4>2. iters["local"].ctx # Null =>
              contexts'[iters["local"].ctx].items = contexts[iters["local"].ctx].items
        BY <1>6, <4>1 DEF Iters
      <4> QED BY <1>3, <1>9, <2>1, <3>2, <4>1, <4>2 DEF SharedOK, Held
    <3> QED BY <1>3, <3>1, <3>2
  <2>4. ScanOrdered'
    BY <1>3, <1>9 DEF ScanOrdered
  <2>5. ScanInv'
    <3>1. \A k \in Range(delivered) : k \in Pairs
      BY <1>9 DEF TypeOK, Range
    <3>2. \A k \in Range(delivered) : k < start_key
      BY <1>3, <1>9 DEF ScanInv, Behind
    <3>3. \A k \in Range(delivered) : k < h
      <4> SUFFICES ASSUME NEW k \in Range(delivered) PROVE k < h
        OBVIOUS
      <4>1. k \in Nat /\ start_key \in Nat /\ h \in Nat
        BY <1>9, <2>1, <3>1
      <4> QED BY <1>4, <3>2, <4>1
    <3>4. ASSUME NEW k \in always, query.start <= k, k <= query.end, k < h
          PROVE  k \in Range(delivered)
      <4>1. k \in pairs /\ k \in Pairs /\ k < Inf
        BY <1>9, InfFacts DEF Pairs
      <4>2. k < start_key
        BY <1>4, <1>9, <1>14, <3>4, <4>1, InfFacts
      <4> QED BY <1>3, <1>9, <3>4, <4>2 DEF ScanInv, Behind
    <3> QED BY <1>3, <2>1, <3>3, <3>4 DEF ScanInv, Behind
  <2> QED BY <1>5, <1>12, <1>13, <2>2, <2>3, <2>4, <2>5 DEF CursorInv
<1>15. CASE ~more
  <2>1. /\ start_key' = 0 /\ iters'["temp"] = NoIter
        /\ phase = "open" => phase' = "copy" /\ valid' = (p # Inf) /\ m = "local"
        /\ phase = "move" =>
             phase' = "batch" /\ valid' = (p # Inf /\ p <= query.end) /\ m = "session"
    BY <1>4, <1>8, <1>15
  <2>2. iters'[m].ctx = c /\ iters'[m].pos = p
    BY <1>5
  <2>3. ASSUME NEW k \in always, query.start <= k, k <= query.end, k < p
        PROVE  k \in Range(delivered)
    <3>1. k \in pairs /\ k \in Pairs
      BY <1>9
    <3>2. k < h
      BY <1>4, <1>9, <1>15, <2>3, <3>1, InfFacts
    <3>3. k < start_key
      BY <1>4, <1>9, <2>3, <3>1, <3>2, InfFacts
    <3> QED BY <1>3, <1>9, <2>3, <3>3 DEF ScanInv, Behind
  <2>4. ASSUME NEW k \in always, p <= k, k < h PROVE k \in S
    <3>1. k \in pairs /\ k \in Pairs /\ k < Inf
      BY <1>9, InfFacts DEF Pairs
    <3>2. start_key <= k
      BY <1>4, <1>9, <2>4, <3>1, InfFacts
    <3> QED BY <1>4, <2>4, <3>1, <3>2
  <2>5. ScanOrdered'
    BY <1>3, <1>9 DEF ScanOrdered
  <2>6. CASE phase = "open"
    <3>1. iters'["session"] = iters["session"] /\ m = "local" /\ phase' = "copy"
      BY <1>6, <2>1, <2>6 DEF Iters
    <3>2. ShapeOK'
      BY <1>3, <1>9, <1>10, <2>1, <2>2, <2>6, <3>1 DEF ShapeOK, Held, Iters
    <3>3. SharedOK'
      BY <1>3, <1>9, <2>6, <3>1 DEF SharedOK, ShapeOK
    <3>4. delivered = <<>> /\ Range(delivered) = {}
      BY <1>9, <2>6 DEF ShapeOK, Range
    <3>5. Covers(iters["local"])'
      BY <1>3, <1>5, <2>2, <2>4, <3>1 DEF Covers
    <3>6. ASSUME NEW k \in always, query.start <= k, k <= query.end, Behind(k)'
          PROVE  k \in Range(delivered)
      <4>1. k < p
        <5>1. k < Inf
          BY <1>9, InfFacts DEF Pairs
        <5> QED BY <2>1, <2>2, <2>6, <3>1, <3>6, <5>1 DEF Behind
      <4> QED BY <2>3, <3>6, <4>1
    <3>7. ScanInv'
      BY <1>3, <3>1, <3>4, <3>5, <3>6 DEF ScanInv
    <3> QED BY <1>5, <1>12, <1>13, <2>5, <3>2, <3>3, <3>7 DEF CursorInv
  <2>7. CASE phase = "move"
    <3>1. /\ iters'["local"] = iters["local"] /\ iters["local"].ctx # c
          /\ m = "session" /\ phase' = "batch"
      BY <1>6, <2>1, <2>7 DEF Iters
    <3>2. ShapeOK'
      BY <1>3, <1>9, <1>10, <2>1, <2>2, <2>7, <3>1 DEF ShapeOK, Held, Iters
    <3>3. SharedOK'
      BY <1>3, <1>10, <2>1, <2>2, <3>1 DEF SharedOK, Held
    <3>4. Covers(iters["session"])'
      BY <1>3, <1>5, <2>2, <2>4, <3>1 DEF Covers
    <3>5. ASSUME NEW k \in Range(delivered) PROVE Behind(k)'
      <4>1. k < start_key /\ k \in Pairs
        BY <1>9, <2>7 DEF ScanInv, Behind, TypeOK, Range
      <4>2. p # Inf => k < p
        BY <1>4, <1>9, <4>1, InfFacts
      <4> QED BY <2>1, <2>2, <2>7, <3>1, <4>2 DEF Behind
    <3>6. ASSUME NEW k \in always, query.start <= k, k <= query.end, Behind(k)'
          PROVE  k \in Range(delivered)
      <4>0. k \in Nat /\ k < Inf /\ query.end \in Nat /\ p \in Nat
        BY <1>4, <1>9, InfFacts DEF Pairs, TypeOK
      <4>1. k < p
        <5>1. CASE valid'
          BY <2>2, <3>1, <3>6, <5>1 DEF Behind
        <5>2. CASE ~valid'
          <6>1. p = Inf \/ p > query.end
            <7>1. ~(p # Inf /\ p <= query.end)
              BY <2>1, <2>7, <5>2, Zenon
            <7> QED BY <4>0, <7>1
          <6> QED BY <3>6, <4>0, <6>1, InfFacts
        <5> QED BY <5>1, <5>2
      <4> QED BY <2>3, <3>6, <4>1
    <3>7. ScanInv'
      BY <1>3, <3>1, <3>4, <3>5, <3>6 DEF ScanInv
    <3> QED BY <1>5, <1>12, <1>13, <2>5, <3>2, <3>3, <3>7 DEF CursorInv
  <2> QED BY <1>3, <2>6, <2>7
<1> QED BY <1>14, <1>15

LEMMA CloneCursorStep ==
  ASSUME CursorInv, CloneCursor
  PROVE  CursorInv'
<1>1. /\ phase = "copy" /\ contexts' = Copy(contexts, iters["local"])
      /\ iters' = [iters EXCEPT !["session"] = iters["local"]]
      /\ phase' = "batch" /\ count' = 0
      /\ pairs' = pairs /\ fences' = fences /\ always' = always /\ worker' = worker
      /\ query' = query /\ valid' = valid /\ start_key' = start_key /\ delivered' = delivered
  BY DEF CloneCursor, treeVars
<1>2. /\ contexts \in Pages /\ iters \in Places /\ Counted(contexts, iters)
      /\ "local" \in Iters /\ "session" \in Iters /\ "temp" \in Iters
  BY <1>1, TypedParts DEF CursorInv, ContextsCounted, Counted, Holders, Iters
<1>3. /\ iters["session"].ctx = Null /\ iters["local"].ctx # Null /\ iters["temp"].ctx = Null
      /\ worker = "opener" /\ delivered = <<>> /\ valid = (iters["local"].pos # Inf)
  BY <1>1 DEF CursorInv, ShapeOK, Held
<1>4. Shared(contexts, contexts', iters')
  BY <1>1, <1>2, <1>3, Share
<1>5. /\ contexts' \in Pages /\ iters' \in Places /\ ContextsCounted'
      /\ \A c \in Contexts :
           contexts'[c].items = contexts[c].items /\ contexts'[c].high = contexts[c].high
  BY <1>4 DEF Shared, Counted, ContextsCounted, Holders
<1>6. /\ iters'["session"] = iters["local"] /\ iters'["local"] = iters["local"]
      /\ iters'["temp"] = iters["temp"]
  BY <1>1, <1>2 DEF Places
<1>7. \A i \in Iters : iters[i].ctx = Null \/ iters[i].ctx \in Contexts
  BY <1>2 DEF Places
<1>8. TypeOK'
  <2>1. ASSUME NEW i \in Iters, iters'[i].pos # Inf
        PROVE  iters'[i].pos \in contexts'[iters'[i].ctx].items
    <3>1. PICK j \in Iters : iters'[i] = iters[j]
      BY <1>2, <1>6 DEF Iters
    <3>2. iters[j].pos \in contexts[iters[j].ctx].items /\ iters[j].ctx # Null
      BY <2>1, <3>1 DEF CursorInv, TypeOK, ShapeOK, Held
    <3> QED BY <1>5, <1>7, <3>1, <3>2
  <2> QED BY <1>1, <1>5, <2>1, CursorAssumption DEF CursorInv, TypeOK, Pages, Places
<1>9. WithinInv'
  <2>1. query.start <= iters["local"].pos /\ ScanWithin
    BY <1>1 DEF CursorInv, WithinInv
  <2> QED BY <1>1, <1>3, <1>6, <2>1 DEF WithinInv, ScanWithin
<1>10. (\A c \in Contexts : PageOK(contexts[c]))'
  BY <1>5 DEF CursorInv, PageOK
<1>11. ShapeOK'
  <2>1. \A k \in Range(delivered) : k \in Pairs
    BY <1>3 DEF Range
  <2>2. \A i \in Iters : iters'[i].ctx = Null => iters'[i].pos = Inf
    BY <1>6 DEF CursorInv, ShapeOK, Held, Iters
  <2> QED BY <1>1, <1>3, <1>6, <2>1, <2>2 DEF ShapeOK, Held
<1>12. SharedOK'
  <2> DEFINE below == Below(contexts'[iters'["session"].ctx], iters'["session"].pos)
  <2>1. below \in SUBSET Pairs
    <3>1. contexts'[iters'["session"].ctx].items \in SUBSET Pairs
      BY <1>2, <1>3, <1>5, <1>6, <1>7 DEF Pages
    <3> QED BY <3>1 DEF Below
  <2>2. Cardinality(below) \in Nat
    BY <2>1, FiniteItems
  <2> HIDE DEF below
  <2>3. count' <= Cardinality(below) /\ worker' = "opener"
    BY <1>1, <1>3, <2>2
  <2> QED BY <1>1, <2>3 DEF SharedOK, below
<1>13. ScanOrdered'
  BY <1>1 DEF CursorInv, ScanOrdered
<1>14. ScanInv'
  <2>1. Covers(iters["session"])'
    <3>1. Covers(iters["local"])
      BY <1>1 DEF CursorInv, ScanInv
    <3>2. iters["local"].ctx \in Contexts
      BY <1>2, <1>3, <1>7
    <3> QED BY <1>1, <1>3, <1>5, <1>6, <3>1, <3>2 DEF Covers
  <2>2. Range(delivered) = {}
    BY <1>3 DEF Range
  <2>3. \A k : Behind(k)' => Behind(k)
    BY <1>1, <1>6 DEF Behind
  <2> QED BY <1>1, <2>1, <2>2, <2>3 DEF CursorInv, ScanInv
<1> QED BY <1>5, <1>8, <1>9, <1>10, <1>11, <1>12, <1>13, <1>14 DEF CursorInv

LEMMA RangeAppend ==
  ASSUME NEW T, NEW q \in Seq(T), NEW x
  PROVE  Range(Append(q, x)) = Range(q) \cup {x}
<1>1. ASSUME NEW y \in Range(q) PROVE y \in Range(Append(q, x))
  <2>1. PICK i \in DOMAIN q : y = q[i]
    BY DEF Range
  <2>2. i \in DOMAIN Append(q, x) /\ Append(q, x)[i] = y
    BY <2>1
  <2> QED BY <2>2 DEF Range
<1>2. x \in Range(Append(q, x))
  <2>1. Len(q) + 1 \in DOMAIN Append(q, x) /\ Append(q, x)[Len(q) + 1] = x
    OBVIOUS
  <2> QED BY <2>1 DEF Range
<1>3. ASSUME NEW y \in Range(Append(q, x)) PROVE y \in Range(q) \cup {x}
  <2>1. PICK i \in DOMAIN Append(q, x) : y = Append(q, x)[i]
    BY DEF Range
  <2>2. CASE i = Len(q) + 1
    BY <2>1, <2>2
  <2>3. CASE i # Len(q) + 1
    <3>1. i \in DOMAIN q /\ y = q[i]
      BY <2>1, <2>3
    <3> QED BY <3>1 DEF Range
  <2> QED BY <2>2, <2>3
<1> QED BY <1>1, <1>2, <1>3

(* The next item is the least one above, and no key in between was missed.  *)
LEMMA NextItemStep ==
  ASSUME CursorInv, NextItem
  PROVE  CursorInv'
<1> DEFINE it == iters["session"]
<1>1. /\ phase = "batch" /\ valid /\ ~Full(count)
      /\ delivered' = Append(delivered, it.pos) /\ count' = count + 1
      /\ pairs' = pairs /\ fences' = fences /\ always' = always /\ worker' = worker
      /\ query' = query
  BY DEF NextItem, treeVars
<1>2. /\ contexts \in Pages /\ iters \in Places /\ Counted(contexts, iters)
      /\ "local" \in Iters /\ "session" \in Iters /\ "temp" \in Iters
  BY <1>1, TypedParts DEF CursorInv, ContextsCounted, Counted, Holders, Iters
<1>3. /\ iters["temp"].ctx = Null /\ it.ctx # Null /\ it.pos # Inf
      /\ (worker = "opener" => Held("local"))
  BY <1>1 DEF CursorInv, ShapeOK, Held
<1>4. PICK a \in Contexts : a = it.ctx
  BY <1>2, <1>3 DEF Places
<1>5. PICK S \in SUBSET Pairs, h \in 2 .. Inf : S = contexts[a].items /\ h = contexts[a].high
  BY DEF CursorInv, TypeOK
<1>6. PICK x \in S : x = it.pos
  BY <1>2, <1>3, <1>4, <1>5 DEF CursorInv, TypeOK
<1>7. x \in Pairs /\ x \in Nat /\ x < h /\ x < Inf /\ h \in Nat
  BY <1>4, <1>5, <1>6, InfFacts DEF CursorInv, PageOK, Pairs
<1>8. PICK q \in 1 .. Inf :
        /\ q = UpperBound(S, x) /\ (q # Inf => q \in S) /\ q > x
        /\ \A y \in S : y > x => q <= y
  <2>1. /\ UpperBound(S, x) \in 1 .. Inf /\ UpperBound(S, x) > x
        /\ UpperBound(S, x) # Inf => UpperBound(S, x) \in S
        /\ \A y \in S : y > x => UpperBound(S, x) <= y
    BY <1>7, BoundFacts
  <2> QED BY <2>1
<1>9. q \in Nat /\ (q # Inf => q < h)
  BY <1>4, <1>5, <1>8, InfFacts DEF CursorInv, PageOK
<1> DEFINE moved  == [it EXCEPT !.pos = q]
           copied == Copy(contexts, it)
<1>10. it = [ctx |-> a, pos |-> x] /\ moved = [ctx |-> a, pos |-> q]
  BY <1>2, <1>4, <1>6 DEF Places
<1>11. Shared(contexts, copied, [iters EXCEPT !["temp"] = it])
  BY <1>2, <1>3, Share
<1>12. /\ copied \in Pages
       /\ \A c \in Contexts : copied[c].items = contexts[c].items /\ copied[c].high = contexts[c].high
  BY <1>11 DEF Shared
<1>13. (moved.pos = Inf /\ ~IsEnd(copied, moved)) <=> q = Inf /\ h # Inf
  BY <1>4, <1>3, <1>5, <1>10, <1>12 DEF IsEnd
<1>14. Valid(copied, moved) <=> ~(q = Inf /\ h = Inf) /\ q <= query.end
  BY <1>4, <1>3, <1>5, <1>10, <1>12 DEF IsEnd, Valid
<1>15. IF q = Inf /\ h # Inf
       THEN /\ contexts' = copied /\ start_key' = h /\ phase' = "move" /\ valid' = valid
            /\ iters' = [iters EXCEPT !["session"] = moved, !["temp"] = it]
       ELSE /\ contexts' = DecRef(copied, it) /\ start_key' = start_key /\ phase' = phase
            /\ iters' = [iters EXCEPT !["session"] = moved]
            /\ valid' = Valid(copied, moved)
  <2>1. moved = [it EXCEPT !.pos = UpperBound(contexts[it.ctx].items, it.pos)]
    BY <1>4, <1>5, <1>6, <1>8
  <2>2. contexts[it.ctx].high = h
    BY <1>4, <1>5
  <2>3. IF moved.pos = Inf /\ ~IsEnd(copied, moved)
        THEN /\ contexts' = copied
             /\ iters' = [iters EXCEPT !["session"] = moved, !["temp"] = it]
             /\ start_key' = contexts[it.ctx].high
             /\ phase' = "move"
             /\ UNCHANGED valid
        ELSE /\ contexts' = DecRef(copied, it)
             /\ iters' = [iters EXCEPT !["session"] = moved]
             /\ valid' = Valid(copied, moved)
             /\ UNCHANGED <<start_key, phase>>
    <3> HIDE DEF moved, copied
    <3> QED BY <2>1 DEF NextItem, copied
  <2> HIDE DEF moved, copied, it
  <2> QED BY <1>13, <2>2, <2>3
<1>16. /\ query.start <= x /\ query.start \in Nat /\ query.end \in Nat
       /\ delivered # <<>> => x <= query.end
  BY <1>1, <1>6 DEF CursorInv, WithinInv, TypeOK
<1>17. /\ delivered \in Seq(Pairs) /\ delivered' \in Seq(Pairs)
       /\ Range(delivered') = Range(delivered) \cup {x}
  <2>1. delivered \in Seq(Pairs) /\ delivered' = Append(delivered, x)
    BY <1>1, <1>6 DEF CursorInv, TypeOK
  <2> QED BY <1>7, <2>1, RangeAppend
<1>18. \A k \in Range(delivered) : k < x /\ k \in Pairs
  BY <1>1, <1>6, <1>17 DEF CursorInv, ScanInv, Behind, Range
<1>19. ScanOrdered'
  <2>1. delivered' = Append(delivered, x)
    BY <1>1, <1>6
  <2>2. \A i \in DOMAIN delivered : delivered[i] < x
    BY <1>18 DEF Range
  <2>3. \A i, j \in DOMAIN delivered : i < j => delivered[i] < delivered[j]
    BY DEF CursorInv, ScanOrdered
  <2> SUFFICES ASSUME NEW i \in DOMAIN delivered', NEW j \in DOMAIN delivered', i < j
               PROVE  delivered'[i] < delivered'[j]
    BY DEF ScanOrdered
  <2>4. i \in DOMAIN delivered /\ delivered'[i] = delivered[i]
    BY <1>17, <2>1
  <2>5. CASE j = Len(delivered) + 1
    BY <1>17, <2>1, <2>2, <2>4, <2>5
  <2>6. CASE j # Len(delivered) + 1
    BY <1>17, <2>1, <2>3, <2>4, <2>6
  <2> QED BY <2>5, <2>6
<1>w. ScanWithin' /\ delivered' # <<>>
  <2>1. delivered' = Append(delivered, x) /\ delivered' # <<>>
    BY <1>1, <1>6, <1>17
  <2>2. \A i \in DOMAIN delivered :
          query.start <= delivered[i] /\ (i > 1 => delivered[i] <= query.end)
    BY DEF CursorInv, WithinInv, ScanWithin
  <2> SUFFICES ASSUME NEW i \in DOMAIN delivered'
               PROVE  query.start <= delivered'[i] /\ (i > 1 => delivered'[i] <= query.end)
    BY <1>1, <2>1 DEF ScanWithin
  <2>3. CASE i = Len(delivered) + 1
    <3>1. delivered'[i] = x /\ (i > 1 => delivered # <<>>)
      BY <1>17, <2>1, <2>3
    <3> QED BY <1>16, <3>1
  <2>4. CASE i # Len(delivered) + 1
    <3>1. i \in DOMAIN delivered /\ delivered'[i] = delivered[i]
      BY <1>17, <2>1, <2>4
    <3> QED BY <2>2, <3>1
  <2> QED BY <2>3, <2>4
(* No pair between the one returned and the next was there throughout. *)
<1>20. ASSUME NEW k \in always, query.start <= k, k <= query.end, k < q, k < h
       PROVE  k \in Range(delivered')
  <2>1. k \in Pairs /\ k \in Nat
    BY DEF CursorInv, TypeOK, Pairs
  <2>2. CASE k < x
    <3>1. k \in Range(delivered)
      BY <1>1, <1>6, <1>20, <2>2 DEF CursorInv, ScanInv, Behind
    <3> QED BY <1>17, <3>1
  <2>3. CASE k = x
    BY <1>17, <2>3
  <2>4. CASE k > x
    <3>1. Covers(it)
      BY <1>1 DEF CursorInv, ScanInv
    <3>2. k \in S
      BY <1>3, <1>4, <1>5, <1>6, <1>7, <1>20, <2>1, <2>4, <3>1 DEF Covers
    <3> QED BY <1>8, <1>9, <1>20, <2>1, <2>4, <3>2
  <2> QED BY <1>7, <2>1, <2>2, <2>3, <2>4
<1>21. \A k \in Range(delivered') : k < q /\ k < h /\ k \in Pairs
  <2>1. \A k \in Range(delivered') : k \in Pairs /\ k \in Nat /\ k <= x
    BY <1>7, <1>17, <1>18 DEF Pairs
  <2> QED BY <1>7, <1>8, <1>9, <2>1
<1>22. count' \in 0 .. Cap
  BY <1>1, CursorAssumption DEF Full, CursorInv, TypeOK
<1>23. \A i \in Iters : iters[i].pos # Inf =>
         /\ iters[i].ctx # Null /\ iters[i].ctx \in Contexts
         /\ iters[i].pos \in contexts[iters[i].ctx].items
  BY <1>2 DEF CursorInv, TypeOK, ShapeOK, Held, Places
<1>24. \A i \in Iters : ~Held(i) => iters[i].pos = Inf
  BY DEF CursorInv, ShapeOK
<1> HIDE DEF it
<1>25. CASE q = Inf /\ h # Inf
  <2>1. /\ contexts' = copied /\ start_key' = h /\ phase' = "move" /\ valid' = valid
        /\ iters' = [iters EXCEPT !["session"] = moved, !["temp"] = it]
    BY <1>15, <1>25
  <2>2. /\ iters' \in Places /\ iters'["local"] = iters["local"]
        /\ iters'["session"] = [ctx |-> a, pos |-> q] /\ iters'["temp"] = [ctx |-> a, pos |-> x]
    <3> HIDE DEF moved
    <3>1. x \in 1 .. Inf
      BY <1>7, InfFacts DEF Pairs
    <3> QED BY <1>2, <1>10, <2>1, <3>1 DEF Places
  <2>3. ContextsCounted'
    <3> DEFINE its2 == [iters EXCEPT !["temp"] = it]
    <3>1. Counted(copied, its2) /\ its2 \in Places
      BY <1>11 DEF Shared
    <3>2. \A i \in Iters : iters'[i].ctx = its2[i].ctx
      <4>1. /\ its2["local"] = iters["local"] /\ its2["session"] = it /\ its2["temp"] = it
        BY <1>2 DEF Places, it
      <4> HIDE DEF its2
      <4> QED BY <1>10, <2>2, <4>1 DEF Iters
    <3> HIDE DEF its2, copied
    <3>3. \A c \in Contexts : Holders(iters', c) = Holders(its2, c)
      BY <3>2 DEF Holders
    <3> QED BY <2>1, <3>1, <3>3 DEF Counted, ContextsCounted, Holders
  <2>w. WithinInv'
    BY <1>1, <1>16, <1>25, <1>w, <2>1, <1>7 DEF WithinInv
  <2>4. TypeOK'
    <3>1. ASSUME NEW i \in Iters, iters'[i].pos # Inf
          PROVE  iters'[i].pos \in contexts'[iters'[i].ctx].items
      <4>1. CASE i = "local"
        BY <1>12, <1>23, <2>1, <2>2, <3>1, <4>1
      <4>2. CASE i = "session"
        BY <1>25, <2>2, <3>1, <4>2
      <4>3. CASE i = "temp"
        BY <1>5, <1>6, <1>12, <2>1, <2>2, <4>3
      <4> QED BY <4>1, <4>2, <4>3 DEF Iters
    <3>2. start_key' \in 0 .. NumPairs
      BY <1>25, <2>1, InfFacts
    <3>3. contexts' \in Pages
      BY <1>12, <2>1
    <3> QED BY <1>1, <1>17, <1>22, <2>1, <2>2, <3>1, <3>2, <3>3
        DEF CursorInv, TypeOK, Pages, Places
  <2>5. (\A c \in Contexts : PageOK(contexts[c]))'
    BY <1>12, <2>1 DEF CursorInv, PageOK
  <2>6. ShapeOK'
    <3>1. h \in Pairs
      BY <1>25, InfFacts DEF Pairs
    <3>2. a # Null
      BY CursorAssumption
    <3> QED BY <1>1, <1>3, <1>21, <1>24, <2>1, <2>2, <3>1, <3>2 DEF ShapeOK, Held, Iters
  <2>7. SharedOK'
    <3>1. worker = "prefetcher" /\ Held("local") /\ iters["local"].ctx = a =>
            Cardinality(contexts[a].items) > Cap
      BY <1>4 DEF CursorInv, SharedOK, it
    <3>2. contexts'[a].items = contexts[a].items
      BY <1>12, <2>1
    <3> QED BY <1>1, <2>1, <2>2, <3>1, <3>2 DEF SharedOK, Held
  <2>8. ScanInv'
    <3>1. \A k \in always : k < Inf
      BY InfFacts DEF CursorInv, TypeOK, Pairs
    <3> QED BY <1>1, <1>20, <1>21, <1>25, <2>1, <3>1 DEF ScanInv, Behind
  <2> QED BY <1>19, <2>w, <2>3, <2>4, <2>5, <2>6, <2>7, <2>8 DEF CursorInv
<1>26. CASE ~(q = Inf /\ h # Inf)
  <2>1. /\ contexts' = DecRef(copied, it) /\ start_key' = start_key /\ phase' = "batch"
        /\ iters' = [iters EXCEPT !["session"] = moved]
        /\ valid' = Valid(copied, moved)
    BY <1>1, <1>15, <1>26
  <2>2. /\ iters' \in Places /\ iters'["local"] = iters["local"]
        /\ iters'["session"] = [ctx |-> a, pos |-> q] /\ iters'["temp"] = iters["temp"]
    <3> HIDE DEF moved
    <3> QED BY <1>2, <1>10, <2>1 DEF Places
  <2>3. contexts' = contexts
    <3>1. copied = [contexts EXCEPT ![a].ref = @ + 1]
      BY <1>4 DEF Copy
    <3>2. contexts[a].ref \in Nat /\ contexts[a].ref # 0
      <4>1. contexts[a].ref \in 0 .. 3
        BY DEF CursorInv, TypeOK
      <4>2. contexts[a].ref = Cardinality(Holders(iters, a))
        BY <1>2 DEF Counted
      <4>3. Cardinality(Holders(iters, a)) # 0
        <5>1. "session" \in Iters /\ iters["session"].ctx = a
          BY <1>2, <1>4 DEF it
        <5>2. Cardinality(Holders(iters, a)) = 0 <=> \A k \in Iters : iters[k].ctx # a
          BY HolderFacts
        <5> QED BY <5>1, <5>2
      <4> QED BY <4>1, <4>2, <4>3
    <3>3. copied[a].ref = contexts[a].ref + 1 /\ copied[a].ref # 1
      BY <1>2, <3>1, <3>2 DEF Pages
    <3>4. contexts' = [copied EXCEPT ![a].ref = @ - 1]
      <4> HIDE DEF copied
      <4> QED BY <1>3, <1>4, <2>1, <3>3 DEF DecRef
    <3>5. contexts[a] \in [ref : 0 .. 3, items : SUBSET Pairs, high : 2 .. Inf]
      BY <1>2 DEF Pages
    <3>6. contexts'[a] = contexts[a]
      BY <1>2, <3>1, <3>2, <3>4, <3>5 DEF Pages
    <3> QED BY <1>2, <3>1, <3>4, <3>6 DEF Pages
  <2>4. /\ valid' \in BOOLEAN
        /\ valid' <=> q # Inf /\ q <= query.end
    <3>1. Valid(copied, moved) \in BOOLEAN
      BY DEF Valid
    <3>2. Valid(copied, moved) <=> q # Inf /\ q <= query.end
      BY <1>14, <1>26, <1>9, InfFacts DEF CursorInv, TypeOK
    <3> HIDE DEF copied, moved
    <3> QED BY <2>1, <3>1, <3>2
  <2>w. WithinInv'
    BY <1>1, <1>7, <1>8, <1>9, <1>16, <1>w, <2>1, <2>2, <2>4 DEF WithinInv
  <2>5. ContextsCounted'
    <3>1. \A i \in Iters : iters'[i].ctx = iters[i].ctx
      BY <1>4, <2>2 DEF Iters, it
    <3> QED BY <1>1, <2>3, <3>1 DEF CursorInv, ContextsCounted
  <2>6. TypeOK'
    <3>1. ASSUME NEW i \in Iters, iters'[i].pos # Inf
          PROVE  iters'[i].pos \in contexts'[iters'[i].ctx].items
      <4>1. CASE i \in {"local", "temp"}
        BY <1>23, <2>2, <2>3, <3>1, <4>1
      <4>2. CASE i = "session"
        BY <1>5, <1>8, <2>2, <2>3, <3>1, <4>2
      <4> QED BY <4>1, <4>2 DEF Iters
    <3> QED BY <1>1, <1>17, <1>22, <2>1, <2>2, <2>3, <2>4, <3>1
        DEF CursorInv, TypeOK, Places
  <2>7. (\A c \in Contexts : PageOK(contexts[c]))'
    BY <2>3 DEF CursorInv
  <2>8. ShapeOK'
    <3>1. a # Null
      BY CursorAssumption
    <3> QED BY <1>1, <1>3, <1>21, <1>24, <2>1, <2>2, <2>4, <3>1 DEF ShapeOK, Held, Iters
  <2>9. SharedOK'
    <3>1. /\ worker = "prefetcher" /\ Held("local")
                 /\ iters["local"].ctx \in {a, iters["temp"].ctx} =>
               Cardinality(contexts[iters["local"].ctx].items) > Cap
          /\ worker = "opener" /\ a = iters["local"].ctx =>
               count <= Cardinality(Below(contexts[a], x))
      BY <1>1, <1>4, <1>6 DEF CursorInv, SharedOK, it
    <3> DEFINE old == Below(contexts[a], x)
               new == Below(contexts[a], q)
    <3>2. count + 1 <= Cardinality(new) \/ count > Cardinality(old)
      <4>1. old \in SUBSET Pairs /\ new \in SUBSET Pairs /\ x \notin old
        BY <1>5, <1>7 DEF Below
      <4>2. old \cup {x} \in SUBSET new
        BY <1>5, <1>6, <1>7, <1>8, <1>9 DEF Below, Pairs
      <4> HIDE DEF old, new
      <4>3. /\ IsFiniteSet(old) /\ Cardinality(old) \in Nat /\ Cardinality(new) \in Nat
        BY <4>1, FiniteItems
      <4>4. Cardinality(old \cup {x}) = Cardinality(old) + 1
        BY <4>1, <4>3, FS_AddElement
      <4>5. Cardinality(old \cup {x}) <= Cardinality(new)
        BY <4>1, <4>2, FewerItems
      <4> QED BY <4>3, <4>4, <4>5 DEF CursorInv, TypeOK
    <3>3. Cardinality(old) \in Nat
      <4>1. old \in SUBSET Pairs
        BY <1>5 DEF Below
      <4> QED BY <4>1, FiniteItems
    <3> HIDE DEF old, new
    <3>4. worker = "opener" /\ a = iters["local"].ctx => count' <= Cardinality(new)
      BY <1>1, <3>1, <3>2, <3>3 DEF CursorInv, TypeOK, old
    <3> QED BY <1>1, <2>2, <2>3, <3>1, <3>4 DEF SharedOK, Held, new
  <2>10. ScanInv'
    <3>1. Covers(iters["session"])'
      <4>1. Covers(it)
        BY <1>1 DEF CursorInv, ScanInv, it
      <4>2. \A k \in always : k \in Nat
        BY DEF CursorInv, TypeOK, Pairs
      <4> QED BY <1>1, <1>3, <1>4, <1>6, <1>7, <1>8, <1>9, <2>2, <2>3, <4>1, <4>2 DEF Covers
    <3>2. \A k \in Range(delivered') : Behind(k)'
      BY <1>21, <2>1, <2>2 DEF Behind
    <3>3. ASSUME NEW k \in always, query.start <= k, k <= query.end, Behind(k)'
          PROVE  k \in Range(delivered')
      <4>1. k \in Nat /\ k < Inf /\ query.end \in Nat
        BY InfFacts DEF CursorInv, TypeOK, Pairs
      <4>2. k < q
        <5>1. CASE valid'
          BY <2>1, <2>2, <3>3, <5>1 DEF Behind
        <5>2. CASE ~valid'
          BY <1>9, <2>4, <3>3, <4>1, <5>2
        <5> QED BY <5>1, <5>2
      <4>3. k < h
        BY <1>7, <1>9, <1>26, <4>1, <4>2
      <4> QED BY <1>20, <3>3, <4>2, <4>3
    <3> QED BY <1>1, <2>1, <3>1, <3>2, <3>3 DEF ScanInv
  <2> QED BY <1>19, <2>w, <2>5, <2>6, <2>7, <2>8, <2>9, <2>10 DEF CursorInv
<1> QED BY <1>25, <1>26

(* A batch that is full has left the page it shares, or the page holds more *)
(* items than a batch.                                                      *)
LEMMA HandOverStep ==
  ASSUME CursorInv, HandOver
  PROVE  CursorInv'
<1>1. /\ phase = "batch" /\ valid /\ count >= Cap /\ worker' = "prefetcher" /\ count' = 0
      /\ pairs' = pairs /\ fences' = fences /\ always' = always /\ contexts' = contexts
      /\ iters' = iters /\ phase' = phase /\ query' = query /\ valid' = valid
      /\ start_key' = start_key /\ delivered' = delivered
  BY DEF HandOver, treeVars, Full
<1>2. Held("session") /\ ~Held("temp") /\ iters["session"].pos # Inf
  BY <1>1 DEF CursorInv, ShapeOK
<1>3. ASSUME iters["session"].ctx = iters["local"].ctx
      PROVE  Cardinality(contexts[iters["local"].ctx].items) > Cap
  <2>1. PICK a \in Contexts : a = iters["session"].ctx
    BY <1>2 DEF CursorInv, TypeOK, Held, Iters
  <2>0. CASE worker = "prefetcher"
    BY <1>2, <1>3, <2>0 DEF CursorInv, SharedOK, Held
  <2>2. PICK S \in SUBSET Pairs : S = contexts[a].items
    BY DEF CursorInv, TypeOK
  <2>3. PICK x \in S : x = iters["session"].pos
    BY <1>2, <2>1, <2>2 DEF CursorInv, TypeOK, Iters
  <2> DEFINE below == Below(contexts[a], x)
  <2>4. below \in SUBSET S /\ x \notin below
    BY <2>2 DEF Below, Pairs
  <2>5. CASE worker = "opener"
    <3>1. count <= Cardinality(below)
      BY <1>1, <1>3, <2>1, <2>3, <2>5 DEF CursorInv, SharedOK
    <3> HIDE DEF below
    <3>2. IsFiniteSet(S) /\ Cardinality(S) \in Nat /\ Cardinality(below) \in Nat
      BY <2>4, FiniteItems
    <3>3. Cardinality(below) < Cardinality(S)
      <4>1. below \in SUBSET S /\ below # S
        BY <2>4
      <4> QED BY <3>2, <4>1, FS_Subset
    <3>4. Cardinality(S) > Cap
      BY <1>1, <3>1, <3>2, <3>3, CursorAssumption DEF CursorInv, TypeOK
    <3> QED BY <1>3, <2>1, <2>2, <3>4
  <2> QED BY <2>0, <2>5 DEF CursorInv, TypeOK
<1>4. TypeOK'
  BY <1>1, CursorAssumption DEF CursorInv, TypeOK
<1>5. WithinInv'
  BY <1>1 DEF CursorInv, WithinInv, ScanWithin
<1>6. (\A c \in Contexts : PageOK(contexts[c]))' /\ (phase # "raced" => ContextsCounted)'
  BY <1>1 DEF CursorInv, ContextsCounted
<1>7. ShapeOK'
  BY <1>1 DEF CursorInv, ShapeOK, Held
<1>8. SharedOK'
  BY <1>1, <1>2, <1>3 DEF SharedOK, Held
<1>9. ScanOrdered' /\ ScanInv'
  BY <1>1 DEF CursorInv, ScanOrdered, ScanInv, Covers, Behind
<1> QED BY <1>4, <1>5, <1>6, <1>7, <1>8, <1>9 DEF CursorInv

(* What an iterator that goes away leaves as it was. *)
LEMMA DropStep ==
  ASSUME CursorInv, phase # "raced", NEW i \in Iters, contexts' = DecRef(contexts, iters[i]),
         iters' = [iters EXCEPT ![i] = NoIter], pairs' = pairs, fences' = fences
  PROVE  /\ contexts' \in Pages /\ iters' \in Places /\ ContextsCounted'
         /\ (\A c \in Contexts : PageOK(contexts[c]))'
         /\ (\A j \in Iters : iters[j].pos # Inf => iters[j].pos \in contexts[iters[j].ctx].items)'
         /\ iters'[i] = NoIter /\ \A j \in Iters \ {i} : iters'[j] = iters[j]
         /\ \A j \in Iters \ {i} : iters[j].ctx # Null =>
              /\ contexts'[iters[j].ctx].items = contexts[iters[j].ctx].items
              /\ contexts'[iters[j].ctx].high = contexts[iters[j].ctx].high
<1>1. contexts \in Pages /\ iters \in Places /\ Counted(contexts, iters)
  BY TypedParts DEF CursorInv, ContextsCounted, Counted, Holders
<1>2. Dropped(contexts, iters, i, contexts', iters')
  BY <1>1, Drop
<1>3. (\A c \in Contexts : PageOK(contexts[c]))'
  <2> SUFFICES ASSUME NEW c \in Contexts PROVE PageOK(contexts'[c])
    OBVIOUS
  <2>1. CASE contexts'[c] = Free
    BY <2>1, FreeIsOK
  <2>2. CASE contexts'[c] # Free
    BY <1>2, <2>2 DEF Dropped, CursorInv, PageOK
  <2> QED BY <2>1, <2>2
<1>4. (\A j \in Iters : iters[j].pos # Inf => iters[j].pos \in contexts[iters[j].ctx].items)'
  <2> SUFFICES ASSUME NEW j \in Iters, iters'[j].pos # Inf
               PROVE  iters'[j].pos \in contexts'[iters'[j].ctx].items
    OBVIOUS
  <2>1. j # i
    BY <1>2 DEF Dropped, NoIter
  <2>2. iters'[j] = iters[j]
    BY <1>2, <2>1 DEF Dropped
  <2>3. iters[j].ctx # Null /\ iters[j].pos \in contexts[iters[j].ctx].items
    BY <2>2 DEF CursorInv, TypeOK, ShapeOK, Held
  <2> QED BY <1>2, <2>1, <2>2, <2>3 DEF Dropped
<1>5. ContextsCounted'
  BY <1>2 DEF Dropped, Counted, ContextsCounted, Holders
<1> QED BY <1>2, <1>3, <1>4, <1>5 DEF Dropped

LEMMA DeleteSessionStep ==
  ASSUME CursorInv, DeleteSession
  PROVE  CursorInv'
<1>1. /\ phase = "batch" /\ ~valid /\ phase' = "drained"
      /\ contexts' = DecRef(contexts, iters["session"])
      /\ iters' = [iters EXCEPT !["session"] = NoIter]
      /\ pairs' = pairs /\ fences' = fences /\ always' = always /\ worker' = worker
      /\ query' = query /\ valid' = valid /\ count' = count
      /\ start_key' = start_key /\ delivered' = delivered
  BY DEF DeleteSession, treeVars
<1>2. "session" \in Iters /\ NoIter.ctx = Null /\ NoIter.pos = Inf
  BY DEF Iters, NoIter
<1>3. /\ contexts' \in Pages /\ iters' \in Places /\ ContextsCounted'
      /\ (\A c \in Contexts : PageOK(contexts[c]))'
      /\ (\A j \in Iters : iters[j].pos # Inf => iters[j].pos \in contexts[iters[j].ctx].items)'
      /\ iters'["session"] = NoIter /\ \A j \in Iters \ {"session"} : iters'[j] = iters[j]
  BY <1>1, <1>2, DropStep
<1>4. TypeOK'
  BY <1>1, <1>3 DEF CursorInv, TypeOK, Pages, Places
<1>5. ShapeOK'
  BY <1>1, <1>2, <1>3 DEF CursorInv, ShapeOK, Held, Iters
<1>6. SharedOK'
  <2>1. iters'["local"] = iters["local"] /\ iters'["temp"] = iters["temp"]
    BY <1>3 DEF Iters
  <2>2. ~Held("temp") /\ (iters["local"].ctx # Null => "local" \in Iters \ {"session"})
    BY <1>1 DEF CursorInv, ShapeOK, Iters
  <2> QED BY <1>1, <1>2, <1>3, <2>1, <2>2 DEF SharedOK, Held
<1>7. ScanOrdered' /\ ScanInv'
  BY <1>1 DEF CursorInv, ScanOrdered, ScanInv, Behind
<1>8. WithinInv'
  BY <1>1 DEF CursorInv, WithinInv, ScanWithin
<1> QED BY <1>3, <1>4, <1>5, <1>6, <1>7, <1>8 DEF CursorInv

LEMMA ReturnFromOpenStep ==
  ASSUME CursorInv, ReturnFromOpen
  PROVE  CursorInv'
<1>1. /\ worker = "prefetcher" \/ phase = "drained"
      /\ iters["local"].ctx # Null
      /\ contexts' = DecRef(contexts, iters["local"])
      /\ iters' = [iters EXCEPT !["local"] = NoIter]
      /\ pairs' = pairs /\ fences' = fences /\ always' = always /\ worker' = worker
      /\ query' = query /\ valid' = valid /\ count' = count /\ phase' = phase
      /\ start_key' = start_key /\ delivered' = delivered
  BY DEF ReturnFromOpen, treeVars
<1>5. phase \notin {"idle", "open", "copy", "raced"}
  BY <1>1 DEF CursorInv, ShapeOK, Held
<1>2. /\ "local" \in Iters /\ "session" \in Iters /\ "temp" \in Iters
      /\ NoIter.ctx = Null /\ NoIter.pos = Inf
  BY DEF Iters, NoIter
<1>3. /\ contexts' \in Pages /\ iters' \in Places /\ ContextsCounted'
      /\ (\A c \in Contexts : PageOK(contexts[c]))'
      /\ (\A j \in Iters : iters[j].pos # Inf => iters[j].pos \in contexts[iters[j].ctx].items)'
      /\ iters'["local"] = NoIter /\ \A j \in Iters \ {"local"} : iters'[j] = iters[j]
      /\ \A j \in Iters \ {"local"} : iters[j].ctx # Null =>
           /\ contexts'[iters[j].ctx].items = contexts[iters[j].ctx].items
           /\ contexts'[iters[j].ctx].high = contexts[iters[j].ctx].high
  BY <1>1, <1>2, <1>5, DropStep
<1>4. iters'["session"] = iters["session"] /\ iters'["temp"] = iters["temp"]
  BY <1>2, <1>3
<1>6. TypeOK'
  BY <1>1, <1>3 DEF CursorInv, TypeOK, Pages, Places
<1>7. ShapeOK'
  BY <1>1, <1>2, <1>3, <1>4, <1>5 DEF CursorInv, ShapeOK, Held, Iters
<1>8. SharedOK'
  BY <1>1, <1>2, <1>3, <1>4 DEF CursorInv, SharedOK, ShapeOK, Held
<1>9. ScanOrdered'
  BY <1>1 DEF CursorInv, ScanOrdered
<1>10. ScanInv'
  <2>1. ASSUME phase = "batch" PROVE Covers(iters["session"])'
    <3>1. Covers(iters["session"])
      BY <2>1 DEF CursorInv, ScanInv
    <3> QED BY <1>1, <1>2, <1>3, <1>4, <3>1 DEF Covers
  <2>2. \A k : Behind(k)' <=> Behind(k)
    BY <1>1, <1>4, <1>5 DEF Behind
  <2> QED BY <1>1, <1>5, <2>1, <2>2 DEF CursorInv, ScanInv
<1>11. WithinInv'
  BY <1>1, <1>4, <1>5 DEF CursorInv, WithinInv, ScanWithin
<1> QED BY <1>3, <1>6, <1>7, <1>8, <1>9, <1>10, <1>11 DEF CursorInv

(* Only in a page with more items than a batch. *)
LEMMA RaceCountsStep ==
  ASSUME CursorInv, RaceCounts
  PROVE  CursorInv'
<1>1. PICK lost \in {-1, 1} : contexts' = [contexts EXCEPT ![iters["session"].ctx].ref = @ + lost]
  BY DEF RaceCounts
<1>2. /\ phase = "batch" /\ valid /\ worker = "prefetcher" /\ phase' = "raced"
      /\ iters["local"].ctx # Null /\ iters["local"].ctx = iters["session"].ctx
      /\ iters' = [iters EXCEPT !["local"] = NoIter, !["temp"] = iters["session"]]
      /\ pairs' = pairs /\ fences' = fences /\ always' = always /\ worker' = worker
      /\ query' = query /\ valid' = valid /\ count' = count
      /\ start_key' = start_key /\ delivered' = delivered
  BY DEF RaceCounts, treeVars
<1>3. /\ contexts \in Pages /\ iters \in Places /\ Counted(contexts, iters)
      /\ "local" \in Iters /\ "session" \in Iters /\ "temp" \in Iters
  BY <1>2, TypedParts DEF CursorInv, ContextsCounted, Counted, Holders, Iters
<1>4. PICK a \in Contexts : a = iters["session"].ctx /\ a # Null
  BY <1>2, <1>3, CursorAssumption DEF Places
<1>5. iters["temp"].ctx = Null
  BY <1>2 DEF CursorInv, ShapeOK, Held
<1>6. contexts[a].ref - 1 \in 0 .. 3 /\ contexts[a].ref + 1 \in 0 .. 3 /\ contexts[a].ref \in 0 .. 3
  <2>1. contexts[a] \in [ref : 0 .. 3, items : SUBSET Pairs, high : 2 .. Inf]
    BY <1>3 DEF Pages
  <2>2. Shared(contexts, Copy(contexts, iters["session"]), [iters EXCEPT !["temp"] = iters["session"]])
    BY <1>3, <1>4, <1>5, Share
  <2>3. Copy(contexts, iters["session"])[a].ref \in 0 .. 3
    BY <2>2 DEF Shared, Pages
  <2>4. Copy(contexts, iters["session"])[a].ref = contexts[a].ref + 1
    BY <1>3, <1>4 DEF Copy, Pages
  <2>5. contexts[a].ref = Cardinality(Holders(iters, a)) /\ Cardinality(Holders(iters, a)) # 0
    BY <1>3, <1>4, HolderFacts DEF Counted
  <2> QED BY <2>1, <2>3, <2>4, <2>5
<1>7. /\ contexts' \in Pages
      /\ \A c \in Contexts :
           contexts'[c].items = contexts[c].items /\ contexts'[c].high = contexts[c].high
  <2>1. contexts' = [contexts EXCEPT ![a] = [contexts[a] EXCEPT !.ref = contexts[a].ref + lost]]
    BY <1>1, <1>4
  <2>2. contexts[a] \in [ref : 0 .. 3, items : SUBSET Pairs, high : 2 .. Inf]
    BY <1>3 DEF Pages
  <2>3. contexts[a].ref + lost \in 0 .. 3
    BY <1>6
  <2>4. /\ [contexts[a] EXCEPT !.ref = contexts[a].ref + lost]
              \in [ref : 0 .. 3, items : SUBSET Pairs, high : 2 .. Inf]
        /\ [contexts[a] EXCEPT !.ref = contexts[a].ref + lost].items = contexts[a].items
        /\ [contexts[a] EXCEPT !.ref = contexts[a].ref + lost].high = contexts[a].high
    BY <2>2, <2>3
  <2> QED BY <1>3, <2>1, <2>4 DEF Pages
<1>8. /\ iters' \in Places /\ iters'["local"] = NoIter
      /\ iters'["session"] = iters["session"] /\ iters'["temp"] = iters["session"]
  BY <1>2, <1>3, TypedIters DEF Places
<1>9. NoIter.ctx = Null /\ NoIter.pos = Inf
  BY DEF NoIter
<1>10. TypeOK'
  <2>1. ASSUME NEW i \in Iters, iters'[i].pos # Inf
        PROVE  iters'[i].pos \in contexts'[iters'[i].ctx].items
    <3>1. iters'[i] = iters["session"]
      BY <1>8, <1>9, <2>1 DEF Iters
    <3>2. iters["session"].pos \in contexts[a].items
      BY <1>3, <1>4, <2>1, <3>1 DEF CursorInv, TypeOK
    <3> QED BY <1>4, <1>7, <3>1, <3>2
  <2> QED BY <1>2, <1>7, <1>8, <2>1 DEF CursorInv, TypeOK, Pages, Places
<1>11. (\A c \in Contexts : PageOK(contexts[c]))'
  BY <1>7 DEF CursorInv, PageOK
<1>12. ShapeOK'
  BY <1>2, <1>4, <1>8, <1>9 DEF CursorInv, ShapeOK, Held, Iters
<1>13. SharedOK'
  BY <1>2, <1>8, <1>9 DEF SharedOK, Held
<1>14. ScanOrdered' /\ WithinInv'
  BY <1>2 DEF CursorInv, ScanOrdered, WithinInv, ScanWithin
<1>15. ScanInv'
  BY <1>2 DEF CursorInv, ScanInv, Behind
<1> QED BY <1>2, <1>10, <1>11, <1>12, <1>13, <1>14, <1>15 DEF CursorInv

LEMMA FinishStep ==
  ASSUME CursorInv, Finish
  PROVE  CursorInv'
<1>1. /\ phase = "drained" /\ ~Held("local") /\ phase' = "idle" /\ worker' = "opener"
      /\ query' = NoQuery /\ count' = 0 /\ delivered' = <<>> /\ always' = {}
      /\ pairs' = pairs /\ fences' = fences /\ contexts' = contexts /\ iters' = iters
      /\ valid' = valid /\ start_key' = start_key
  BY DEF Finish, treeVars, Held
<1>2. NoQuery \in [start : 0 .. NumPairs, end : 0 .. NumPairs] /\ 0 \in 0 .. Cap
  BY InfFacts, CursorAssumption DEF NoQuery
<1>3. <<>> \in Seq(Pairs) /\ Range(<<>>) = {} /\ DOMAIN <<>> = {}
  BY DEF Range
<1>4. TypeOK'
  BY <1>1, <1>2, <1>3 DEF CursorInv, TypeOK
<1>5. WithinInv'
  BY <1>1, <1>3 DEF WithinInv, ScanWithin
<1>6. (\A c \in Contexts : PageOK(contexts[c]))' /\ (phase # "raced" => ContextsCounted)'
  BY <1>1 DEF CursorInv, ContextsCounted
<1>7. ShapeOK'
  BY <1>1 DEF CursorInv, ShapeOK, Held
<1>8. SharedOK'
  BY <1>1 DEF SharedOK
<1>9. ScanOrdered' /\ ScanInv'
  BY <1>1, <1>3 DEF ScanOrdered, ScanInv
<1> QED BY <1>4, <1>5, <1>6, <1>7, <1>8, <1>9 DEF CursorInv

-----------------------------------------------------------------------------
(* Together *)

LEMMA InitCursor == Init => CursorInv
<1> SUFFICES ASSUME Init PROVE CursorInv
  OBVIOUS
<1>1. /\ pairs \in SUBSET Pairs /\ fences \in SUBSET KeyStarts
      /\ contexts = [c \in Contexts |-> Free] /\ iters = [i \in Iters |-> NoIter]
      /\ phase = "idle" /\ worker = "opener" /\ query = NoQuery /\ valid = FALSE
      /\ count = 0 /\ start_key = 0 /\ delivered = <<>> /\ always = {}
  BY DEF Init
<1>2. NoQuery \in [start : 0 .. NumPairs, end : 0 .. NumPairs] /\ 0 \in 0 .. Cap /\ 0 \in 0 .. NumPairs
  BY InfFacts, CursorAssumption DEF NoQuery
<1>3. <<>> \in Seq(Pairs) /\ Range(<<>>) = {} /\ DOMAIN <<>> = {}
  BY DEF Range
<1>4. \A i \in Iters : iters[i] = NoIter
  BY <1>1
<1>5. NoIter.ctx = Null /\ NoIter.pos = Inf /\ Free.ref = 0
  BY DEF NoIter, Free
<1>6. TypeOK
  BY <1>1, <1>2, <1>3, <1>4, <1>5, TypedIters DEF TypeOK
<1>7. \A c \in Contexts : PageOK(contexts[c])
  BY <1>1, FreeIsOK
<1>8. ContextsCounted
  <2> SUFFICES ASSUME NEW c \in Contexts PROVE contexts[c].ref = Cardinality(Holders(iters, c))
    BY DEF ContextsCounted, Holders
  <2>1. \A i \in Iters : iters[i].ctx # c
    BY <1>4, <1>5, CursorAssumption
  <2>2. Cardinality(Holders(iters, c)) = 0 <=> \A i \in Iters : iters[i].ctx # c
    BY HolderFacts
  <2> QED BY <1>1, <1>5, <2>1, <2>2
<1>9. ShapeOK
  BY <1>1, <1>4, <1>5 DEF ShapeOK, Held, Iters
<1>10. SharedOK
  BY <1>1 DEF SharedOK
<1>11. ScanOrdered /\ ScanInv /\ WithinInv
  BY <1>1, <1>3 DEF ScanOrdered, ScanInv, WithinInv, ScanWithin
<1> QED BY <1>1, <1>6, <1>7, <1>8, <1>9, <1>10, <1>11 DEF CursorInv

LEMMA NextCursor == CursorInv /\ [Next]_vars => CursorInv'
<1> SUFFICES ASSUME CursorInv, [Next]_vars PROVE CursorInv'
  OBVIOUS
<1>1. CASE \E start, end \in Pairs : Find(start, end)
  BY <1>1, FindStep
<1>2. CASE LoadPage
  BY <1>2, LoadPageStep
<1>3. CASE CloneCursor
  BY <1>3, CloneCursorStep
<1>4. CASE NextItem
  BY <1>4, NextItemStep
<1>5. CASE HandOver
  BY <1>5, HandOverStep
<1>6. CASE DeleteSession
  BY <1>6, DeleteSessionStep
<1>7. CASE ReturnFromOpen
  BY <1>7, ReturnFromOpenStep
<1>8. CASE Finish
  BY <1>8, FinishStep
<1>9. CASE RaceCounts
  BY <1>9, RaceCountsStep
<1>10. CASE \/ \E k \in Pairs : Insert(k) \/ Delete(k)
            \/ \E k \in KeyStarts : SplitLeaf(k) \/ MergeLeaf(k)
  BY <1>10, WriterStep
<1>11. CASE UNCHANGED vars
  <2>1. UNCHANGED scanVars /\ pairs' = pairs /\ fences' = fences /\ always' = always
    BY <1>11 DEF vars, treeVars
  <2>2. pairs \in SUBSET Pairs /\ fences \in SUBSET KeyStarts /\ always \subseteq pairs
    BY DEF CursorInv, TypeOK
  <2> QED BY <2>1, <2>2, WriterFrame
<1> QED BY <1>1, <1>2, <1>3, <1>4, <1>5, <1>6, <1>7, <1>8, <1>9, <1>10, <1>11 DEF Next, Scan

LEMMA CursorInvariant == Spec => []CursorInv
BY InitCursor, NextCursor, PTL DEF Spec

(* The types; with them, that the cursor stands on an item of the page it   *)
(* holds or past its end, and returns pairs only (operator* and IsEnd of     *)
(* bwtree.h, get_items of procs_ol.cpp).                                    *)
THEOREM RangeCursorTypeOK == Spec => []TypeOK
<1>1. CursorInv => TypeOK
  BY DEF CursorInv
<1> QED BY <1>1, CursorInvariant, PTL

(* A scan returns every pair of its range that is in the tree from the find *)
(* on, once and in order, whatever is inserted, deleted, split or merged    *)
(* between the pages it copies (LowerBound and MoveAheadByOne of bwtree.h), *)
(* and at most its first item lies beyond the range (bptree.h:27).          *)
THEOREM RangeScanExact == Spec => []ScanExact
<1>1. CursorInv => ScanExact
  <2> SUFFICES ASSUME CursorInv PROVE ScanComplete
    BY DEF CursorInv, WithinInv, ScanExact
  <2>1. \A k : Passed(k) => Behind(k)
    BY DEF Passed, Behind
  <2> QED BY <2>1 DEF CursorInv, ScanInv, ScanComplete
<1> QED BY <1>1, CursorInvariant, PTL

(* An IteratorContext is freed when its last iterator goes and not before,  *)
(* until two threads change its count at once; they can do that only when   *)
(* the leaf inside has more items than a batch (IncRef and DecRef,          *)
(* bwtree.h:7785-7829; the cursor handed over in procs_ol.cpp).             *)
THEOREM RangeContextsSound == Spec => []ContextsSound
<1>1. CursorInv => ContextsSound
  <2> SUFFICES ASSUME CursorInv PROVE SingleThreaded
    BY DEF CursorInv, ContextsSound
  <2> SUFFICES ASSUME NEW i \in Iters, NEW j \in Iters, Owner(i) # Owner(j),
                      iters[i].ctx = iters[j].ctx, iters[i].ctx # Null
               PROVE  Cardinality(contexts[iters[i].ctx].items) > Cap
    BY DEF SingleThreaded
  <2>1. worker = "prefetcher" /\ "local" \in {i, j}
    BY DEF Owner, CursorInv, TypeOK
  <2>2. iters["local"].ctx = iters[i].ctx /\ Held("local")
    BY <2>1 DEF Held
  <2>3. iters["local"].ctx \in {iters["session"].ctx, iters["temp"].ctx}
    BY <2>1, <2>2 DEF Owner, Iters
  <2> QED BY <2>1, <2>2, <2>3 DEF CursorInv, SharedOK
<1> QED BY <1>1, CursorInvariant, PTL
=============================================================================
