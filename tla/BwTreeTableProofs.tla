------------------------- MODULE BwTreeTableProofs -------------------------
(***************************************************************************)
(* What one compare-and-swap does to the tree as a whole: the shape of the  *)
(* mapping table (Struct), and that each kind of write the threads of       *)
(* BwTreeSMO make keeps it.  BwTreeSMOProofs has the threads.               *)
(*                                                                         *)
(* The definitions take the table and what goes with it as parameters:      *)
(*   T    the mapping table                                                 *)
(*   R    the retired NodeIDs, with the threads each waits for              *)
(*   z    for a removed node that was merged, and whose separator is still  *)
(*        there, the node it was merged into; Nil for any other             *)
(*   l    how far a node is above the leaves                                *)
(*   top  the root                                                          *)
(* The program keeps neither z nor l: the invariant says that there are     *)
(* such functions.                                                          *)
(***************************************************************************)
EXTENDS BwTreeSMO, FiniteSetTheorems, WellFoundedInduction, TLAPS

(* The logical node behind a NodeID.                                        *)
N(T, i) == Live(T[i])

Plain == {"base", "delta", "split", "merge"}
IsNode(n) ==
  n = [leaf |-> n.leaf, type |-> n.type, low |-> n.low, high |-> n.high,
       next |-> n.next, items |-> n.items, smo |-> n.smo, under |-> n.under]

(* Separators lie in the range of their node, one for a key, and one at its *)
(* low key.                                                                 *)
InnerOK(n) ==
  /\ \A s \in n.items :
       s = <<s[1], s[2]>> /\ s[1] \in Nat /\ s[2] \in Ids /\ n.low <= s[1] /\ s[1] < n.high
  /\ \A s, x \in n.items : s[1] = x[1] => s = x
  /\ \E s \in n.items : s[1] = n.low

Whole(n) ==
  /\ IsNode(n) /\ n.leaf \in BOOLEAN /\ n.type \in Plain
  /\ n.low \in Nat /\ n.high \in Nat /\ n.low < n.high /\ n.high <= Inf
  /\ n.next \in Ids \cup {Nil}
  /\ n.next = Nil => n.high = Inf
  /\ n.leaf => \A k \in n.items : k \in Keys /\ n.low <= k /\ k < n.high
  /\ ~n.leaf => InnerOK(n)
  /\ n.type = "split" => n.smo = <<n.high, n.next>> /\ n.next # Nil
  /\ n.type = "merge" =>
       /\ n.smo = <<n.smo[1], n.smo[2]>> /\ n.smo[1] \in Nat /\ n.smo[2] \in Ids
       /\ n.low < n.smo[1] /\ n.smo[1] < n.high

(* What an entry of the table may be.                                       *)
Entry(n) ==
  \/ n = None
  \/ Whole(n)
  \/ /\ n.type = "remove" /\ n = Cover(n.under[1], "remove")
     /\ Whole(n.under[1]) /\ n.under[1].type = "base"
  \/ /\ n.type = "abort" /\ n = Cover(n.under[1], "abort")
     /\ Whole(n.under[1]) /\ ~n.under[1].leaf

(* A node is in the table until it is retired; it covers its keys (is       *)
(* current) until it is merged.                                             *)
InT(T, R, i) == i \in Ids /\ T[i].type # "none" /\ \A r \in R : r.id # i
InC(T, R, z, i) == InT(T, R, i) /\ z[i] = Nil

(* The separator of a node is in a node one level up.                       *)
HasSep(T, R, z, l, i) ==
  \E p \in Ids : InC(T, R, z, p) /\ l[p] = l[i] + 1 /\ <<N(T, i).low, i>> \in N(T, p).items
Sepd(T, R, z, l, i) == InC(T, R, z, i) => HasSep(T, R, z, l, i)

Entries(T) == T = [i \in Ids |-> T[i]] /\ \A i \in Ids : Entry(T[i])
Links(T, R, z, l) ==
  \A i \in Ids : InT(T, R, i) /\ N(T, i).next # Nil =>
    /\ InC(T, R, z, N(T, i).next)
    /\ l[N(T, i).next] = l[i]
    /\ N(T, N(T, i).next).low = N(T, i).high
Levels(T, R, l, top) ==
  /\ l \in [Ids -> Nat]
  /\ \A i \in Ids : InT(T, R, i) => (N(T, i).leaf <=> l[i] = 0) /\ l[i] <= l[top]
  /\ \A i \in Ids : T[i].type = "remove" => l[i] < l[top]
Apart(T, R, z, l) ==
  \A i, j \in Ids : InC(T, R, z, i) /\ InC(T, R, z, j) /\ l[i] = l[j] /\ i # j =>
    N(T, i).high <= N(T, j).low \/ N(T, j).high <= N(T, i).low
Targets(T, R, l) ==
  \A i \in Ids : InT(T, R, i) /\ ~N(T, i).leaf =>
    \A s \in N(T, i).items : InT(T, R, s[2]) /\ N(T, s[2]).low = s[1] /\ l[s[2]] + 1 = l[i]

(* A removed node that was merged: the node it went into still shows the    *)
(* merge record, covers what it covered, and its separator is still there.  *)
Merged(T, R, z, l, i) ==
  /\ InT(T, R, i) /\ T[i].type = "remove"
  /\ InC(T, R, z, z[i]) /\ l[z[i]] = l[i]
  /\ N(T, z[i]).type = "merge" /\ N(T, z[i]).smo = <<N(T, i).low, i>>
  /\ N(T, z[i]).high = N(T, i).high /\ N(T, z[i]).next = N(T, i).next
  /\ N(T, i).items \subseteq N(T, z[i]).items
  /\ HasSep(T, R, z, l, i)
Zombies(T, R, z, l) ==
  z \in [Ids -> Ids \cup {Nil}] /\ \A i \in Ids : z[i] # Nil => Merged(T, R, z, l, i)

(* A right sibling without a separator is right of a topmost split record.  *)
Seps(T, R, z, l) ==
  \A i \in Ids : InC(T, R, z, i) /\ N(T, i).next # Nil /\ N(T, i).type # "split"
                   => Sepd(T, R, z, l, N(T, i).next)
LowChildren(T, R) ==
  \A i \in Ids : InT(T, R, i) /\ ~N(T, i).leaf => T[LowChild(N(T, i))].type # "remove"
Ends(T, R, z, l, top) ==
  /\ InC(T, R, z, top) /\ N(T, top).low = 0
  /\ InC(T, R, z, FirstLeaf) /\ l[FirstLeaf] = 0 /\ N(T, FirstLeaf).low = 0
RetiredOK(T, R) ==
  /\ \A r \in R : r = [id |-> r.id, until |-> r.until] /\ r.id \in Ids /\ T[r.id].type # "none"
  /\ \A r, q \in R : r.id = q.id => r = q

(* A thread may follow a NodeID: it was not given back, and if it was       *)
(* retired, that waits for the thread and the entry is a remove record.     *)
Guarded(T, R, t, i) ==
  /\ i \in Ids /\ T[i].type # "none"
  /\ \A r \in R : r.id = i => t \in r.until /\ T[i].type = "remove"
Ref(T, R, l, t, i, k, v) == Guarded(T, R, t, i) /\ N(T, i).low = k /\ l[i] = v
NodeRefs(T, R, l, t, n, v) ==
  /\ v \in Nat /\ (n.leaf <=> v = 0)
  /\ n.next # Nil => Ref(T, R, l, t, n.next, n.high, v)
  /\ ~n.leaf => \A s \in n.items : Ref(T, R, l, t, s[2], s[1], v - 1)
RetiredRefs(T, R, l) ==
  \A r \in R : T[r.id].type = "remove" =>
    \A t \in r.until : NodeRefs(T, R, l, t, N(T, r.id), l[r.id])

Struct(T, R, z, l, top) ==
  /\ Entries(T) /\ Links(T, R, z, l) /\ Levels(T, R, l, top) /\ Apart(T, R, z, l)
  /\ Targets(T, R, l) /\ Zombies(T, R, z, l) /\ Seps(T, R, z, l) /\ LowChildren(T, R)
  /\ Ends(T, R, z, l, top) /\ RetiredOK(T, R) /\ RetiredRefs(T, R, l)

(* What a thread knew of the NodeIDs it may follow is still true.           *)
Evolve(T, R, z, l, T2, R2, z2, l2, t) ==
  \A i \in Ids : Guarded(T, R, t, i) =>
    /\ Guarded(T2, R2, t, i)
    /\ N(T2, i).low = N(T, i).low /\ l2[i] = l[i]
    /\ T[i].type = "remove" => T2[i] = T[i]
    /\ Sepd(T, R, z, l, i) => Sepd(T2, R2, z2, l2, i)
-----------------------------------------------------------------------------
(* Nodes *)

(* An entry is a whole node, or one below a remove or an abort record.      *)
LEMMA EntryFacts ==
  ASSUME NEW n, Entry(n), n.type # "none"
  PROVE  /\ Whole(Live(n)) /\ n.type \in Plain \cup {"remove", "abort"}
         /\ n.type \in Plain => Whole(n) /\ Live(n) = n
         /\ n.type \in {"remove", "abort"} => n = Cover(Live(n), n.type) /\ n.under[1] = Live(n)
         /\ n.type = "remove" => Live(n).type = "base"
         /\ n.type = "abort" => ~Live(n).leaf
<1>1. CASE Whole(n)
  BY <1>1 DEF Whole, Live, Plain
<1>2. CASE n = None
  BY <1>2 DEF None, Node
<1>3. CASE /\ n.type = "remove" /\ n = Cover(n.under[1], "remove")
           /\ Whole(n.under[1]) /\ n.under[1].type = "base"
  BY <1>3 DEF Live, Plain
<1>4. CASE /\ n.type = "abort" /\ n = Cover(n.under[1], "abort")
           /\ Whole(n.under[1]) /\ ~n.under[1].leaf
  BY <1>4 DEF Live, Plain
<1> QED BY <1>1, <1>2, <1>3, <1>4 DEF Entry

(* An update of a field leaves a node a node.                               *)
LEMMA StillNode ==
  ASSUME NEW n, IsNode(n), NEW v
  PROVE  /\ IsNode([n EXCEPT !.type = v]) /\ IsNode([n EXCEPT !.high = v])
         /\ IsNode([n EXCEPT !.next = v]) /\ IsNode([n EXCEPT !.items = v])
         /\ IsNode([n EXCEPT !.smo = v]) /\ IsNode([n EXCEPT !.under = v])
<1>1. IsNode([n EXCEPT !.type = v])
  BY DEF IsNode
<1>2. IsNode([n EXCEPT !.high = v])
  BY DEF IsNode
<1>3. IsNode([n EXCEPT !.next = v])
  BY DEF IsNode
<1>4. IsNode([n EXCEPT !.items = v])
  BY DEF IsNode
<1>5. IsNode([n EXCEPT !.smo = v])
  BY DEF IsNode
<1>6. IsNode([n EXCEPT !.under = v])
  BY DEF IsNode
<1> QED BY <1>1, <1>2, <1>3, <1>4, <1>5, <1>6

(* A remove or abort record shows the fields of the node below it.          *)
LEMMA CoverFields ==
  ASSUME NEW n, Whole(n), NEW c \in {"remove", "abort"}, NEW m, m = Cover(n, c)
  PROVE  /\ m.type = c /\ m.under = <<n>> /\ m.under[1] = n /\ Live(m) = n
         /\ m.leaf = n.leaf /\ m.low = n.low /\ m.high = n.high
         /\ m.next = n.next /\ m.items = n.items
<1>1. /\ m.type = c /\ m.under = <<n>> /\ m.leaf = n.leaf /\ m.low = n.low /\ m.high = n.high
      /\ m.next = n.next /\ m.items = n.items
  BY DEF Whole, IsNode, Cover
<1> QED BY <1>1 DEF Live

(* A remove record on a base page, or an abort record on an inner node, is  *)
(* an entry.                                                                *)
LEMMA CoverEntry ==
  ASSUME NEW n, Whole(n)
  PROVE  /\ n.type = "base" => Entry(Cover(n, "remove"))
         /\ ~n.leaf => Entry(Cover(n, "abort"))
  BY CoverFields DEF Entry

(* A consolidated node covers and holds what it did.                        *)
LEMMA ConsolidatedFields ==
  ASSUME NEW n, Whole(n), NEW m, m = Consolidated(n)
  PROVE  /\ Whole(m) /\ m.type = "base" /\ m.leaf = n.leaf /\ m.low = n.low
         /\ m.high = n.high /\ m.next = n.next /\ m.items = n.items
<1> DEFINE m1 == [n EXCEPT !.type = "base"]
<1>1. /\ m.type = "base" /\ m.leaf = n.leaf /\ m.low = n.low /\ m.high = n.high
      /\ m.next = n.next /\ m.items = n.items
  BY DEF Whole, IsNode, Consolidated
<1>2. m = [m1 EXCEPT !.smo = <<>>]
  BY DEF Whole, IsNode, Consolidated
<1>3. IsNode(m1)
  BY StillNode DEF Whole
<1> HIDE DEF m1
<1>4. IsNode(m)
  <2>1. IsNode([m1 EXCEPT !.smo = <<>>])
    BY <1>3, StillNode
  <2> QED BY <1>2, <2>1
<1> QED BY <1>1, <1>4 DEF Whole, InnerOK, Plain

(* A node with other items of its range is still whole.                     *)
LEMMA DataFields ==
  ASSUME NEW n, Whole(n), NEW s, NEW m, m = Data(n, s),
         n.leaf => \A k \in s : k \in Keys /\ n.low <= k /\ k < n.high,
         ~n.leaf => /\ \A x \in s : /\ x = <<x[1], x[2]>> /\ x[1] \in Nat /\ x[2] \in Ids
                                    /\ n.low <= x[1] /\ x[1] < n.high
                    /\ \A x, y \in s : x[1] = y[1] => x = y
                    /\ \E x \in s : x[1] = n.low
  PROVE  /\ Whole(m) /\ m.type = "delta" /\ m.leaf = n.leaf /\ m.low = n.low
         /\ m.high = n.high /\ m.next = n.next /\ m.items = s
<1> DEFINE m1 == [n EXCEPT !.type = "delta"]
           m2 == [m1 EXCEPT !.items = s]
<1>1. /\ m.type = "delta" /\ m.leaf = n.leaf /\ m.low = n.low /\ m.high = n.high
      /\ m.next = n.next /\ m.items = s
  BY DEF Whole, IsNode, Data
<1>2. m = [m2 EXCEPT !.smo = <<>>]
  BY DEF Whole, IsNode, Data
<1>3. IsNode(m1)
  BY StillNode DEF Whole
<1>4. IsNode(m2)
  <2> HIDE DEF m1
  <2> QED BY <1>3, StillNode
<1> HIDE DEF m1, m2
<1>5. IsNode(m)
  <2>1. IsNode([m2 EXCEPT !.smo = <<>>])
    BY <1>4, StillNode
  <2> QED BY <1>2, <2>1
<1> QED BY <1>1, <1>5 DEF Whole, InnerOK, Plain

(* What a split record shows.                                               *)
LEMMA SplitFields ==
  ASSUME NEW n, Whole(n), NEW k, NEW id, NEW s, NEW m, m = Split(n, k, id, s)
  PROVE  /\ IsNode(m) /\ m.type = "split" /\ m.leaf = n.leaf /\ m.low = n.low
         /\ m.high = k /\ m.next = id /\ m.items = s /\ m.smo = <<k, id>>
<1> DEFINE m1 == [n EXCEPT !.type = "split"]
           m2 == [m1 EXCEPT !.high = k]
           m3 == [m2 EXCEPT !.next = id]
           m4 == [m3 EXCEPT !.items = s]
<1>1. /\ m.type = "split" /\ m.leaf = n.leaf /\ m.low = n.low /\ m.high = k
      /\ m.next = id /\ m.items = s /\ m.smo = <<k, id>>
  BY DEF Whole, IsNode, Split
<1>2. m = [m4 EXCEPT !.smo = <<k, id>>]
  BY DEF Whole, IsNode, Split
<1>3. IsNode(m1)
  BY StillNode DEF Whole
<1>4. IsNode(m2)
  <2> HIDE DEF m1
  <2> QED BY <1>3, StillNode
<1>5. IsNode(m3)
  <2> HIDE DEF m2
  <2> QED BY <1>4, StillNode
<1>6. IsNode(m4)
  <2> HIDE DEF m3
  <2> QED BY <1>5, StillNode
<1>7. IsNode(m)
  <2> HIDE DEF m4
  <2>1. IsNode([m4 EXCEPT !.smo = <<k, id>>])
    BY <1>6, StillNode
  <2> QED BY <1>2, <2>1
<1> QED BY <1>1, <1>7

(* What a merge record shows.                                               *)
LEMMA MergeFields ==
  ASSUME NEW n, Whole(n), NEW id, NEW r, NEW m, m = Merge(n, id, r)
  PROVE  /\ IsNode(m) /\ m.type = "merge" /\ m.leaf = n.leaf /\ m.low = n.low
         /\ m.high = r.high /\ m.next = r.next /\ m.items = n.items \cup r.items
         /\ m.smo = <<n.high, id>>
<1> DEFINE m1 == [n EXCEPT !.type = "merge"]
           m2 == [m1 EXCEPT !.high = r.high]
           m3 == [m2 EXCEPT !.next = r.next]
           m4 == [m3 EXCEPT !.items = n.items \cup r.items]
<1>1. /\ m.type = "merge" /\ m.leaf = n.leaf /\ m.low = n.low /\ m.high = r.high
      /\ m.next = r.next /\ m.items = n.items \cup r.items /\ m.smo = <<n.high, id>>
  BY DEF Whole, IsNode, Merge
<1>2. m = [m4 EXCEPT !.smo = <<n.high, id>>]
  BY DEF Whole, IsNode, Merge
<1>3. IsNode(m1)
  BY StillNode DEF Whole
<1>4. IsNode(m2)
  <2> HIDE DEF m1
  <2> QED BY <1>3, StillNode
<1>5. IsNode(m3)
  <2> HIDE DEF m2
  <2> QED BY <1>4, StillNode
<1>6. IsNode(m4)
  <2> HIDE DEF m3
  <2> QED BY <1>5, StillNode
<1>7. IsNode(m)
  <2> HIDE DEF m4
  <2>1. IsNode([m4 EXCEPT !.smo = <<n.high, id>>])
    BY <1>6, StillNode
  <2> QED BY <1>2, <2>1
<1> QED BY <1>1, <1>7

(* The child below the separator at the low key.                            *)
LEMMA LowChildIs ==
  ASSUME NEW n, InnerOK(n), n.low \in Nat
  PROVE  /\ <<n.low, LowChild(n)>> \in n.items
         /\ \A s \in n.items : s[2] = LowChild(n) /\ s[1] = n.low => s = <<n.low, LowChild(n)>>
         /\ \A s \in n.items : s[1] = n.low => s[2] = LowChild(n)
<1>1. PICK s \in n.items : s[1] = n.low
  BY DEF InnerOK
<1>2. \A x \in n.items : s[1] <= x[1]
  BY <1>1 DEF InnerOK
<1> DEFINE c == CHOOSE y \in n.items : \A x \in n.items : y[1] <= x[1]
<1>3. c \in n.items /\ \A x \in n.items : c[1] <= x[1]
  BY <1>2
<1>4. c[1] = s[1]
  BY <1>1, <1>2, <1>3 DEF InnerOK
<1>5. c = s
  BY <1>3, <1>4 DEF InnerOK
<1>6. LowChild(n) = s[2]
  BY <1>5 DEF LowChild
<1> QED BY <1>1, <1>6 DEF InnerOK
-----------------------------------------------------------------------------
(* What the shape of the table says of nodes at one level *)

(* What a NodeID in use stands for.                                         *)
LEMMA Alloc ==
  ASSUME NEW T, Entries(T), NEW i \in Ids, T[i].type # "none"
  PROVE  /\ Whole(N(T, i)) /\ Entry(T[i])
         /\ T[i].type \in Plain => N(T, i) = T[i]
         /\ T[i].type \in {"remove", "abort"} => T[i] = Cover(N(T, i), T[i].type) /\ T[i].under[1] = N(T, i)
         /\ T[i].type = "remove" => N(T, i).type = "base"
         /\ T[i].type \in Plain \cup {"remove", "abort"}
<1>1. Entry(T[i])
  BY DEF Entries
<1> QED BY <1>1, EntryFacts DEF N

(* At one level no two current nodes cover the same key.                    *)
LEMMA OneCover ==
  ASSUME NEW T, NEW R, NEW z, NEW l, Entries(T), Apart(T, R, z, l),
         NEW i, NEW j, InC(T, R, z, i), InC(T, R, z, j), l[i] = l[j],
         NEW k \in Int, N(T, i).low <= k, k < N(T, i).high, N(T, j).low <= k, k < N(T, j).high
  PROVE  i = j
<1>1. Whole(N(T, i)) /\ Whole(N(T, j)) /\ i \in Ids /\ j \in Ids
  BY Alloc DEF InC, InT
<1>2. /\ N(T, i).low \in Int /\ N(T, i).high \in Int
      /\ N(T, j).low \in Int /\ N(T, j).high \in Int
  BY <1>1 DEF Whole
<1>3. ~(N(T, i).high <= N(T, j).low \/ N(T, j).high <= N(T, i).low)
  BY <1>2
<1> QED BY <1>1, <1>3 DEF Apart

(* A separator is in the node that covers its key.                          *)
LEMMA OneHolder ==
  ASSUME NEW T, NEW R, NEW z, NEW l, Entries(T), Apart(T, R, z, l),
         NEW p, NEW q, InC(T, R, z, p), InC(T, R, z, q), l[p] = l[q],
         NEW s, s \in N(T, p).items, ~N(T, p).leaf,
         N(T, q).low <= s[1], s[1] < N(T, q).high
  PROVE  p = q
<1>1. Whole(N(T, p)) /\ p \in Ids
  BY Alloc DEF InC, InT
<1>2. s[1] \in Int /\ N(T, p).low <= s[1] /\ s[1] < N(T, p).high
  BY <1>1 DEF Whole, InnerOK
<1> QED BY <1>2, OneCover
-----------------------------------------------------------------------------
(* Writes in place: the node stays where it is between its siblings.        *)

(* What Struct says, and what the write of node m at i asks for.            *)
InPlaceWrite(T, R, z, l, top, i, m, T2) ==
  /\ InC(T, R, z, i) /\ T[i].type # "remove"
  /\ Entry(m) /\ m.type # "none"
  /\ T2 = [T EXCEPT ![i] = m]
  /\ Live(m).leaf = N(T, i).leaf /\ Live(m).low = N(T, i).low
  /\ Live(m).high = N(T, i).high /\ Live(m).next = N(T, i).next
  /\ ~N(T, i).leaf =>
       /\ N(T, i).items \subseteq Live(m).items
       /\ \A s \in Live(m).items \ N(T, i).items :
            InC(T, R, z, s[2]) /\ N(T, s[2]).low = s[1] /\ l[s[2]] + 1 = l[i]
  /\ \/ Live(m) = N(T, i)
     \/ /\ Live(m).type \in {"base", "delta"}
        /\ N(T, i).next # Nil => Sepd(T, R, z, l, N(T, i).next)
        /\ \A j \in Ids : z[j] # i
  /\ m.type = "remove" =>
       /\ l[i] < l[top]
       /\ \A q \in Ids : InT(T, R, q) /\ ~N(T, q).leaf => LowChild(N(T, q)) # i

(* Frame of such a write.                                                   *)
LEMMA InPlaceFrame ==
  ASSUME NEW T, NEW R, NEW z, NEW l, NEW top, Struct(T, R, z, l, top),
         NEW i, NEW m, NEW T2, InPlaceWrite(T, R, z, l, top, i, m, T2)
  PROVE  /\ i \in Ids /\ T2[i] = m /\ N(T2, i) = Live(m)
         /\ \A j \in Ids : j # i => T2[j] = T[j] /\ N(T2, j) = N(T, j)
         /\ Entries(T2)
         /\ \A j \in Ids : T2[j].type = "none" <=> T[j].type = "none"
         /\ \A j : InT(T2, R, j) <=> InT(T, R, j)
         /\ \A j : InC(T2, R, z, j) <=> InC(T, R, z, j)
         /\ \A j \in Ids : /\ N(T2, j).leaf = N(T, j).leaf /\ N(T2, j).low = N(T, j).low
                           /\ N(T2, j).high = N(T, j).high /\ N(T2, j).next = N(T, j).next
                           /\ ~N(T, j).leaf => N(T, j).items \subseteq N(T2, j).items
         /\ \A j \in Ids : HasSep(T, R, z, l, j) => HasSep(T2, R, z, l, j)
         /\ \A j \in Ids : Sepd(T, R, z, l, j) => Sepd(T2, R, z, l, j)
<1>1. i \in Ids /\ T[i].type # "none" /\ m.type # "none" /\ T2 = [T EXCEPT ![i] = m] /\ Entry(m)
  BY DEF InPlaceWrite, InC, InT
<1>2. T = [j \in Ids |-> T[j]] /\ \A j \in Ids : Entry(T[j])
  BY DEF Struct, Entries
<1>3. T2[i] = m /\ \A j \in Ids : j # i => T2[j] = T[j]
  BY <1>1, <1>2
<1>4. N(T2, i) = Live(m) /\ \A j \in Ids : j # i => N(T2, j) = N(T, j)
  BY <1>3 DEF N
<1>5. Entries(T2)
  BY <1>1, <1>2, <1>3 DEF Entries
<1>6. \A j \in Ids : T2[j].type = "none" <=> T[j].type = "none"
  BY <1>1, <1>3
<1>7. \A j : InT(T2, R, j) <=> InT(T, R, j)
  BY <1>6 DEF InT
<1>8. \A j : InC(T2, R, z, j) <=> InC(T, R, z, j)
  BY <1>7 DEF InC
<1>9. \A j \in Ids : /\ N(T2, j).leaf = N(T, j).leaf /\ N(T2, j).low = N(T, j).low
                     /\ N(T2, j).high = N(T, j).high /\ N(T2, j).next = N(T, j).next
                     /\ ~N(T, j).leaf => N(T, j).items \subseteq N(T2, j).items
  BY <1>4 DEF InPlaceWrite
<1>10. ASSUME NEW j \in Ids, HasSep(T, R, z, l, j) PROVE HasSep(T2, R, z, l, j)
  <2>1. PICK p \in Ids : InC(T, R, z, p) /\ l[p] = l[j] + 1 /\ <<N(T, j).low, j>> \in N(T, p).items
    BY <1>10 DEF HasSep
  <2>2. ~N(T, p).leaf
    <3>1. l[j] \in Nat /\ InT(T, R, p)
      BY <2>1 DEF Struct, Levels, InC
    <3> QED BY <2>1, <3>1 DEF Struct, Levels
  <2> QED BY <1>8, <1>9, <2>1, <2>2 DEF HasSep
<1>11. \A j \in Ids : Sepd(T, R, z, l, j) => Sepd(T2, R, z, l, j)
  BY <1>8, <1>10 DEF Sepd
<1> QED BY <1>1, <1>3, <1>4, <1>5, <1>6, <1>7, <1>8, <1>9, <1>10, <1>11

(* Threads keep what they may follow.                                       *)
LEMMA InPlaceEvolve ==
  ASSUME NEW T, NEW R, NEW z, NEW l, NEW top, Struct(T, R, z, l, top),
         NEW i, NEW m, NEW T2, InPlaceWrite(T, R, z, l, top, i, m, T2), NEW t
  PROVE  Evolve(T, R, z, l, T2, R, z, l, t)
<1> SUFFICES ASSUME NEW j \in Ids, Guarded(T, R, t, j)
             PROVE  /\ Guarded(T2, R, t, j)
                    /\ N(T2, j).low = N(T, j).low
                    /\ T[j].type = "remove" => T2[j] = T[j]
                    /\ Sepd(T, R, z, l, j) => Sepd(T2, R, z, l, j)
  BY DEF Evolve
<1>1. InT(T, R, i) /\ T[i].type # "remove"
  BY DEF InPlaceWrite, InC
<1>2. T[j].type = "remove" => T2[j] = T[j]
  BY <1>1, InPlaceFrame
<1>3. Guarded(T2, R, t, j)
  BY <1>2, InPlaceFrame DEF Guarded
<1> QED BY <1>2, <1>3, InPlaceFrame

(* References a thread was given before are good after any evolution.       *)
LEMMA RefsEvolve ==
  ASSUME NEW T, NEW R, NEW z, NEW l, NEW T2, NEW R2, NEW z2, NEW l2, NEW t,
         Evolve(T, R, z, l, T2, R2, z2, l2, t),
         NEW n, NEW v, NodeRefs(T, R, l, t, n, v)
  PROVE  NodeRefs(T2, R2, l2, t, n, v)
<1>1. \A i, k, w : Ref(T, R, l, t, i, k, w) => Ref(T2, R2, l2, t, i, k, w)
  BY DEF Ref, Evolve, Guarded
<1> QED BY <1>1 DEF NodeRefs

(* A write that leaves the range, the neighbours and the separators of a    *)
(* node alone keeps the shape of the tree.                                  *)
LEMMA InPlace ==
  ASSUME NEW T, NEW R, NEW z, NEW l, NEW top, Struct(T, R, z, l, top),
         NEW i, NEW m, NEW T2, InPlaceWrite(T, R, z, l, top, i, m, T2)
  PROVE  Struct(T2, R, z, l, top)
<1> USE InPlaceFrame
<1>1. Entries(T2)
  OBVIOUS
<1>2. Links(T2, R, z, l)
  <2> SUFFICES ASSUME NEW j \in Ids, InT(T2, R, j), N(T2, j).next # Nil
               PROVE  /\ InC(T2, R, z, N(T2, j).next) /\ l[N(T2, j).next] = l[j]
                      /\ N(T2, N(T2, j).next).low = N(T2, j).high
    BY DEF Links
  <2>1. /\ InC(T, R, z, N(T, j).next) /\ l[N(T, j).next] = l[j]
        /\ N(T, N(T, j).next).low = N(T, j).high
    BY DEF Struct, Links
  <2>2. N(T, j).next \in Ids
    BY <2>1 DEF InC, InT
  <2> QED BY <2>1, <2>2
<1>3. Levels(T2, R, l, top)
  <2>1. \A j \in Ids : T2[j].type = "remove" => l[j] < l[top]
    BY DEF Struct, Levels, InPlaceWrite
  <2> QED BY <2>1 DEF Struct, Levels
<1>4. Apart(T2, R, z, l)
  BY DEF Struct, Apart
<1>5. Targets(T2, R, l)
  <2> SUFFICES ASSUME NEW j \in Ids, InT(T2, R, j), ~N(T2, j).leaf, NEW s \in N(T2, j).items
               PROVE  InT(T2, R, s[2]) /\ N(T2, s[2]).low = s[1] /\ l[s[2]] + 1 = l[j]
    BY DEF Targets
  <2>1. InT(T, R, s[2]) /\ N(T, s[2]).low = s[1] /\ l[s[2]] + 1 = l[j]
    <3>1. CASE s \in N(T, j).items
      BY <3>1 DEF Struct, Targets
    <3>2. CASE s \notin N(T, j).items
      <4>1. j = i /\ s \in Live(m).items \ N(T, i).items
        BY <3>2
      <4>2. ~N(T, i).leaf
        BY <4>1
      <4>3. InC(T, R, z, s[2]) /\ N(T, s[2]).low = s[1] /\ l[s[2]] + 1 = l[i]
        BY <4>1, <4>2 DEF InPlaceWrite
      <4> QED BY <4>1, <4>3 DEF InC
    <3> QED BY <3>1, <3>2
  <2>2. s[2] \in Ids
    BY <2>1 DEF InT
  <2> QED BY <2>1, <2>2
<1>6. Zombies(T2, R, z, l)
  <2>1. z \in [Ids -> Ids \cup {Nil}]
    BY DEF Struct, Zombies
  <2> SUFFICES ASSUME NEW j \in Ids, z[j] # Nil
               PROVE  Merged(T2, R, z, l, j)
    BY <2>1 DEF Zombies
  <2>2. Merged(T, R, z, l, j)
    BY DEF Struct, Zombies
  <2>3. z[j] \in Ids /\ j # i
    BY <2>1, <2>2 DEF InPlaceWrite, Merged
  <2>4. N(T2, z[j]) = N(T, z[j])
    <3>1. CASE Live(m) = N(T, i)
      BY <2>3, <3>1
    <3>2. CASE z[j] # i
      BY <2>3, <3>2
    <3> QED BY <3>1, <3>2 DEF InPlaceWrite
  <2>5. T2[j] = T[j] /\ N(T2, j) = N(T, j)
    BY <2>3
  <2> QED BY <2>2, <2>4, <2>5 DEF Merged
<1>7. Seps(T2, R, z, l)
  <2> SUFFICES ASSUME NEW j \in Ids, InC(T2, R, z, j), N(T2, j).next # Nil, N(T2, j).type # "split"
               PROVE  Sepd(T2, R, z, l, N(T2, j).next)
    BY DEF Seps
  <2>1. N(T, j).next \in Ids
    <3>1. T[j].type # "none"
      BY DEF InC, InT
    <3> QED BY <3>1, Alloc DEF Whole, Struct
  <2>2. Sepd(T, R, z, l, N(T, j).next)
    <3>1. CASE N(T2, j) = N(T, j)
      BY <3>1 DEF Struct, Seps
    <3>2. CASE N(T2, j) # N(T, j)
      <4>1. j = i /\ Live(m) # N(T, i) /\ N(T, i).next # Nil
        BY <3>2
      <4> QED BY <4>1 DEF InPlaceWrite
    <3> QED BY <3>1, <3>2
  <2> QED BY <2>1, <2>2
<1>8. LowChildren(T2, R)
  <2> SUFFICES ASSUME NEW j \in Ids, InT(T2, R, j), ~N(T2, j).leaf
               PROVE  T2[LowChild(N(T2, j))].type # "remove"
    BY DEF LowChildren
  <2>1. InnerOK(N(T, j)) /\ InnerOK(N(T2, j)) /\ N(T, j).low \in Nat
    <3>1. T[j].type # "none" /\ T2[j].type # "none" /\ Entries(T)
      BY DEF InT, Struct
    <3>2. Whole(N(T, j))
      BY <3>1, Alloc
    <3>3. Whole(N(T2, j))
      BY <1>1, <3>1, Alloc
    <3> QED BY <3>2, <3>3 DEF Whole
  <2>2. LowChild(N(T2, j)) = LowChild(N(T, j)) /\ LowChild(N(T, j)) \in Ids
    <3>1. <<N(T, j).low, LowChild(N(T, j))>> \in N(T, j).items
      BY <2>1, LowChildIs
    <3>2. <<N(T, j).low, LowChild(N(T, j))>> \in N(T2, j).items
      BY <3>1
    <3>3. \A s \in N(T2, j).items : s[1] = N(T2, j).low => s[2] = LowChild(N(T2, j))
      <4>1. N(T2, j).low \in Nat
        BY <2>1
      <4> QED BY <2>1, <4>1, LowChildIs
    <3>4. LowChild(N(T, j)) \in Ids
      BY <2>1, <3>1 DEF InnerOK
    <3> QED BY <3>2, <3>3, <3>4
  <2>3. T[LowChild(N(T, j))].type # "remove"
    BY DEF Struct, LowChildren
  <2>4. LowChild(N(T, j)) = i => m.type # "remove"
    <3>1. InT(T, R, j) /\ ~N(T, j).leaf
      OBVIOUS
    <3> QED BY <3>1 DEF InPlaceWrite
  <2> QED BY <2>2, <2>3, <2>4
<1>9. Ends(T2, R, z, l, top)
  BY DEF Struct, Ends, InC, InT
<1>10. RetiredOK(T2, R)
  BY DEF Struct, RetiredOK
<1>11. RetiredRefs(T2, R, l)
  <2> SUFFICES ASSUME NEW r \in R, T2[r.id].type = "remove", NEW t \in r.until
               PROVE  NodeRefs(T2, R, l, t, N(T2, r.id), l[r.id])
    BY DEF RetiredRefs
  <2>1. r.id \in Ids /\ r.id # i
    BY DEF Struct, RetiredOK, InPlaceWrite, InC, InT
  <2>2. NodeRefs(T, R, l, t, N(T, r.id), l[r.id])
    BY <2>1 DEF Struct, RetiredRefs
  <2>3. NodeRefs(T2, R, l, t, N(T, r.id), l[r.id])
    BY <2>2, InPlaceEvolve, RefsEvolve
  <2> QED BY <2>1, <2>3
<1> QED BY <1>1, <1>2, <1>3, <1>4, <1>5, <1>6, <1>7, <1>8, <1>9, <1>10, <1>11 DEF Struct

(* Any thread may follow what a node in the table refers to.                *)
LEMMA InTRefs ==
  ASSUME NEW T, NEW R, NEW z, NEW l, NEW top, Struct(T, R, z, l, top),
         NEW i, InT(T, R, i), NEW t
  PROVE  NodeRefs(T, R, l, t, N(T, i), l[i])
<1>1. i \in Ids /\ l[i] \in Nat /\ (N(T, i).leaf <=> l[i] = 0)
  BY DEF Struct, Levels, InT
<1>2. \A j : InT(T, R, j) => Guarded(T, R, t, j)
  BY DEF InT, Guarded
<1>3. ASSUME N(T, i).next # Nil PROVE Ref(T, R, l, t, N(T, i).next, N(T, i).high, l[i])
  <2>1. /\ InT(T, R, N(T, i).next) /\ l[N(T, i).next] = l[i]
        /\ N(T, N(T, i).next).low = N(T, i).high
    BY <1>1, <1>3 DEF Struct, Links, InC
  <2> QED BY <1>2, <2>1 DEF Ref
<1>4. ASSUME ~N(T, i).leaf, NEW s \in N(T, i).items PROVE Ref(T, R, l, t, s[2], s[1], l[i] - 1)
  <2>1. InT(T, R, s[2]) /\ N(T, s[2]).low = s[1] /\ l[s[2]] + 1 = l[i]
    BY <1>1, <1>4 DEF Struct, Targets
  <2>2. l[s[2]] \in Nat
    BY <2>1 DEF Struct, Levels, InT
  <2>3. l[s[2]] = l[i] - 1
    BY <1>1, <2>1, <2>2
  <2> QED BY <1>2, <2>1, <2>3 DEF Ref
<1> QED BY <1>1, <1>3, <1>4 DEF NodeRefs
-----------------------------------------------------------------------------
(* The separator s of a merged node leaves node p, and the NodeID of the    *)
(* merged node is retired.                                                  *)
DeleteWrite(T, R, z, l, p, s, m, T2, R2, z2, U) ==
  /\ InC(T, R, z, p) /\ T[p].type # "remove" /\ ~N(T, p).leaf
  /\ Whole(m) /\ Live(m) = m /\ m.type = "delta"
  /\ T2 = [T EXCEPT ![p] = m]
  /\ m.leaf = N(T, p).leaf /\ m.low = N(T, p).low
  /\ m.high = N(T, p).high /\ m.next = N(T, p).next
  /\ s \in N(T, p).items /\ s[1] # N(T, p).low /\ m.items = N(T, p).items \ {s}
  /\ z[s[2]] # Nil
  /\ N(T, p).next # Nil => Sepd(T, R, z, l, N(T, p).next)
  /\ \A j \in Ids : z[j] # p
  /\ z2 = [z EXCEPT ![s[2]] = Nil]
  /\ R2 = R \cup {[id |-> s[2], until |-> U]}
  /\ \A r \in R : r.until \subseteq U

(* Deleting the separator of a merged node: what changes, and what does     *)
(* not.                                                                     *)
LEMMA DeleteFrame ==
  ASSUME NEW T, NEW R, NEW z, NEW l, NEW top, Struct(T, R, z, l, top),
         NEW p, NEW s, NEW m, NEW T2, NEW R2, NEW z2, NEW U,
         DeleteWrite(T, R, z, l, p, s, m, T2, R2, z2, U)
  PROVE  /\ p \in Ids /\ s[2] \in Ids /\ s[2] # p
         /\ Merged(T, R, z, l, s[2]) /\ InT(T, R, s[2])
         /\ T2[p] = m /\ N(T2, p) = m
         /\ \A j \in Ids : j # p => T2[j] = T[j] /\ N(T2, j) = N(T, j)
         /\ \A j \in Ids : j # s[2] => z2[j] = z[j]
         /\ z2[s[2]] = Nil /\ z2 \in [Ids -> Ids \cup {Nil}]
         /\ Entries(T2)
         /\ \A j \in Ids : T2[j].type = "none" <=> T[j].type = "none"
         /\ \A j : InT(T2, R2, j) <=> InT(T, R, j) /\ j # s[2]
         /\ \A j : InC(T2, R2, z2, j) <=> InC(T, R, z, j)
         /\ \A j \in Ids : /\ N(T2, j).leaf = N(T, j).leaf /\ N(T2, j).low = N(T, j).low
                           /\ N(T2, j).high = N(T, j).high /\ N(T2, j).next = N(T, j).next
                           /\ N(T2, j).items \subseteq N(T, j).items
         /\ \A j \in Ids : j # s[2] /\ HasSep(T, R, z, l, j) => HasSep(T2, R2, z2, l, j)
         /\ \A j \in Ids : Sepd(T, R, z, l, j) => Sepd(T2, R2, z2, l, j)
<1>1. /\ p \in Ids /\ T[p].type # "none" /\ T[p].type # "remove" /\ m.type = "delta"
      /\ T2 = [T EXCEPT ![p] = m] /\ Entry(m) /\ Live(m) = m
  BY DEF DeleteWrite, InC, InT, Entry
<1>2. T = [j \in Ids |-> T[j]] /\ \A j \in Ids : Entry(T[j])
  BY DEF Struct, Entries
<1>3. T2[p] = m /\ \A j \in Ids : j # p => T2[j] = T[j]
  BY <1>1, <1>2
<1>4. N(T2, p) = m /\ \A j \in Ids : j # p => N(T2, j) = N(T, j)
  BY <1>1, <1>3 DEF N
<1>5. Entries(T2)
  BY <1>1, <1>2, <1>3 DEF Entries
<1>6. \A j \in Ids : T2[j].type = "none" <=> T[j].type = "none"
  BY <1>1, <1>3
<1>7. s[2] \in Ids /\ Merged(T, R, z, l, s[2]) /\ z \in [Ids -> Ids \cup {Nil}]
  <2>1. s[2] \in Ids
    <3>1. Whole(N(T, p))
      BY <1>1, Alloc DEF Struct
    <3> QED BY <3>1 DEF DeleteWrite, Whole, InnerOK
  <2> QED BY <2>1 DEF Struct, Zombies, DeleteWrite
<1>8. InT(T, R, s[2]) /\ s[2] # p
  BY <1>1, <1>7 DEF Merged
<1>9. /\ \A j \in Ids : j # s[2] => z2[j] = z[j]
      /\ z2[s[2]] = Nil /\ z2 \in [Ids -> Ids \cup {Nil}]
  BY <1>7 DEF DeleteWrite
<1>10. \A j : InT(T2, R2, j) <=> InT(T, R, j) /\ j # s[2]
  <2>1. \A j : (\A r \in R2 : r.id # j) <=> (\A r \in R : r.id # j) /\ j # s[2]
    <3> DEFINE new == [id |-> s[2], until |-> U]
    <3>1. R2 = R \cup {new}
      BY DEF DeleteWrite
    <3>2. new.id = s[2]
      OBVIOUS
    <3> HIDE DEF new
    <3> QED BY <3>1, <3>2
  <2> QED BY <1>6, <2>1 DEF InT
<1>11. \A j : InC(T2, R2, z2, j) <=> InC(T, R, z, j)
  <2>1. z[s[2]] # Nil
    BY DEF DeleteWrite
  <2>2. \A j : InT(T, R, j) => j \in Ids
    BY DEF InT
  <2> QED BY <1>9, <1>10, <2>1, <2>2 DEF InC
<1>12. \A j \in Ids : /\ N(T2, j).leaf = N(T, j).leaf /\ N(T2, j).low = N(T, j).low
                      /\ N(T2, j).high = N(T, j).high /\ N(T2, j).next = N(T, j).next
                      /\ N(T2, j).items \subseteq N(T, j).items
  BY <1>4 DEF DeleteWrite
<1>13. ASSUME NEW j \in Ids, j # s[2], HasSep(T, R, z, l, j) PROVE HasSep(T2, R2, z2, l, j)
  <2>1. PICK q \in Ids : InC(T, R, z, q) /\ l[q] = l[j] + 1 /\ <<N(T, j).low, j>> \in N(T, q).items
    BY <1>13 DEF HasSep
  <2>2. <<N(T, j).low, j>> # s
    BY <1>13
  <2>3. <<N(T, j).low, j>> \in N(T2, q).items
    BY <1>4, <2>1, <2>2 DEF DeleteWrite
  <2> QED BY <1>11, <1>12, <2>1, <2>3 DEF HasSep
<1>14. \A j \in Ids : Sepd(T, R, z, l, j) => Sepd(T2, R2, z2, l, j)
  <2>1. ~InC(T, R, z, s[2])
    BY DEF DeleteWrite, InC
  <2> QED BY <1>11, <1>13, <2>1 DEF Sepd
<1> QED BY <1>1, <1>3, <1>4, <1>5, <1>6, <1>7, <1>8, <1>9, <1>10, <1>11, <1>12, <1>13, <1>14

(* The threads it waits for may still follow the NodeID that is retired.    *)
LEMMA DeleteEvolve ==
  ASSUME NEW T, NEW R, NEW z, NEW l, NEW top, Struct(T, R, z, l, top),
         NEW p, NEW s, NEW m, NEW T2, NEW R2, NEW z2, NEW U,
         DeleteWrite(T, R, z, l, p, s, m, T2, R2, z2, U), NEW t \in U
  PROVE  Evolve(T, R, z, l, T2, R2, z2, l, t)
<1> SUFFICES ASSUME NEW j \in Ids, Guarded(T, R, t, j)
             PROVE  /\ Guarded(T2, R2, t, j)
                    /\ N(T2, j).low = N(T, j).low
                    /\ T[j].type = "remove" => T2[j] = T[j]
                    /\ Sepd(T, R, z, l, j) => Sepd(T2, R2, z2, l, j)
  BY DEF Evolve
<1>1. T[j].type = "remove" => T2[j] = T[j]
  BY DeleteFrame DEF DeleteWrite
<1>2. Guarded(T2, R2, t, j)
  <2>1. \A r \in R2 : r \in R \/ r = [id |-> s[2], until |-> U]
    BY DEF DeleteWrite
  <2>2. T[s[2]].type = "remove"
    BY DeleteFrame DEF Merged
  <2>3. T2[j].type # "none"
    BY DeleteFrame DEF Guarded
  <2>4. ASSUME NEW r \in R2, r.id = j PROVE t \in r.until /\ T2[j].type = "remove"
    <3>1. CASE r \in R
      BY <1>1, <2>4, <3>1 DEF Guarded
    <3>2. CASE r = [id |-> s[2], until |-> U]
      BY <1>1, <2>2, <2>4, <3>2
    <3> QED BY <2>1, <3>1, <3>2
  <2> QED BY <2>3, <2>4 DEF Guarded
<1> QED BY <1>1, <1>2, DeleteFrame

(* Deleting the separator of a merged node keeps the shape of the tree.     *)
LEMMA DeleteSeparator ==
  ASSUME NEW T, NEW R, NEW z, NEW l, NEW top, Struct(T, R, z, l, top),
         NEW p, NEW s, NEW m, NEW T2, NEW R2, NEW z2, NEW U,
         DeleteWrite(T, R, z, l, p, s, m, T2, R2, z2, U)
  PROVE  Struct(T2, R2, z2, l, top)
<1> USE DeleteFrame
<1>1. Entries(T2)
  OBVIOUS
<1>2. Links(T2, R2, z2, l)
  <2> SUFFICES ASSUME NEW j \in Ids, InT(T2, R2, j), N(T2, j).next # Nil
               PROVE  /\ InC(T2, R2, z2, N(T2, j).next) /\ l[N(T2, j).next] = l[j]
                      /\ N(T2, N(T2, j).next).low = N(T2, j).high
    BY DEF Links
  <2>1. /\ InC(T, R, z, N(T, j).next) /\ l[N(T, j).next] = l[j]
        /\ N(T, N(T, j).next).low = N(T, j).high
    BY DEF Struct, Links
  <2>2. N(T, j).next \in Ids
    BY <2>1 DEF InC, InT
  <2> QED BY <2>1, <2>2
<1>3. Levels(T2, R2, l, top)
  <2>1. \A j \in Ids : T2[j].type = "remove" => T[j].type = "remove"
    BY DEF DeleteWrite
  <2> QED BY <2>1 DEF Struct, Levels
<1>4. Apart(T2, R2, z2, l)
  BY DEF Struct, Apart
<1>5. Targets(T2, R2, l)
  <2> SUFFICES ASSUME NEW j \in Ids, InT(T2, R2, j), ~N(T2, j).leaf, NEW x \in N(T2, j).items
               PROVE  InT(T2, R2, x[2]) /\ N(T2, x[2]).low = x[1] /\ l[x[2]] + 1 = l[j]
    BY DEF Targets
  <2>1. x \in N(T, j).items /\ InT(T, R, j) /\ ~N(T, j).leaf
    OBVIOUS
  <2>2. InT(T, R, x[2]) /\ N(T, x[2]).low = x[1] /\ l[x[2]] + 1 = l[j]
    BY <2>1 DEF Struct, Targets
  <2>3. x[2] # s[2]
    <3> SUFFICES ASSUME x[2] = s[2] PROVE FALSE
      OBVIOUS
    <3>1. InC(T, R, z, p) /\ InT(T, R, p) /\ ~N(T, p).leaf /\ s \in N(T, p).items
      BY DEF DeleteWrite, InC
    <3>2. N(T, s[2]).low = s[1] /\ l[s[2]] + 1 = l[p]
      BY <3>1 DEF Struct, Targets
    <3>3. x[1] = s[1] /\ l[p] = l[j]
      BY <2>2, <3>2
    <3>4. Whole(N(T, p)) /\ InnerOK(N(T, p))
      BY <3>1, Alloc DEF Struct, InT, Whole
    <3>5. N(T, p).low <= s[1] /\ s[1] < N(T, p).high
      BY <3>1, <3>4 DEF InnerOK
    <3>6. x \notin N(T, p).items \/ x = s
      BY <3>1, <3>3, <3>4 DEF InnerOK
    <3>7. ASSUME NEW q, InC(T, R, z, q), l[q] = l[p], x \in N(T, q).items, ~N(T, q).leaf PROVE q = p
      BY <3>1, <3>3, <3>5, <3>7, OneHolder DEF Struct
    <3>8. CASE z[j] = Nil
      <4>1. j = p
        BY <2>1, <3>3, <3>7, <3>8 DEF InC
      <4>2. x # s
        <5>1. m.items = N(T, p).items \ {s}
          BY DEF DeleteWrite
        <5>2. x \in m.items
          BY <4>1
        <5> QED BY <5>1, <5>2
      <4> QED BY <2>1, <3>6, <4>1, <4>2
    <3>9. CASE z[j] # Nil
      <4>1. Merged(T, R, z, l, j)
        BY <3>9 DEF Struct, Zombies
      <4>2. InC(T, R, z, z[j]) /\ l[z[j]] = l[j] /\ x \in N(T, z[j]).items
        BY <2>1, <4>1 DEF Merged
      <4>3. ~N(T, z[j]).leaf
        BY <2>1, <4>2 DEF Struct, Levels, InC, InT
      <4>4. z[j] = p
        BY <3>3, <3>7, <4>2, <4>3
      <4> QED BY <4>4 DEF DeleteWrite
    <3> QED BY <3>8, <3>9
  <2>4. x[2] \in Ids
    BY <2>2 DEF InT
  <2> QED BY <2>2, <2>3, <2>4
<1>6. Zombies(T2, R2, z2, l)
  <2> SUFFICES ASSUME NEW j \in Ids, z2[j] # Nil
               PROVE  Merged(T2, R2, z2, l, j)
    BY DEF Zombies
  <2>1. j # s[2] /\ z2[j] = z[j]
    OBVIOUS
  <2>2. Merged(T, R, z, l, j)
    BY <2>1 DEF Struct, Zombies
  <2>3. z[j] \in Ids /\ z[j] # p /\ j # p
    BY <2>2 DEF DeleteWrite, Merged, InC, InT
  <2>4. N(T2, z[j]) = N(T, z[j]) /\ T2[j] = T[j] /\ N(T2, j) = N(T, j)
    BY <2>3
  <2>5. HasSep(T2, R2, z2, l, j)
    BY <2>1, <2>2 DEF Merged
  <2>6. InC(T2, R2, z2, z[j]) /\ InT(T2, R2, j)
    BY <2>1, <2>2 DEF Merged
  <2> QED BY <2>1, <2>2, <2>4, <2>5, <2>6 DEF Merged
<1>7. Seps(T2, R2, z2, l)
  <2> SUFFICES ASSUME NEW j \in Ids, InC(T2, R2, z2, j), N(T2, j).next # Nil, N(T2, j).type # "split"
               PROVE  Sepd(T2, R2, z2, l, N(T2, j).next)
    BY DEF Seps
  <2>1. N(T, j).next \in Ids
    <3>1. T[j].type # "none"
      BY DEF InC, InT
    <3> QED BY <3>1, Alloc DEF Whole, Struct
  <2>2. Sepd(T, R, z, l, N(T, j).next)
    <3>1. CASE j = p
      <4>1. N(T, p).next # Nil
        BY <3>1
      <4> QED BY <3>1, <4>1 DEF DeleteWrite
    <3>2. CASE j # p
      BY <3>2 DEF Struct, Seps
    <3> QED BY <3>1, <3>2
  <2> QED BY <2>1, <2>2
<1>8. LowChildren(T2, R2)
  <2> SUFFICES ASSUME NEW j \in Ids, InT(T2, R2, j), ~N(T2, j).leaf
               PROVE  T2[LowChild(N(T2, j))].type # "remove"
    BY DEF LowChildren
  <2>1. InnerOK(N(T, j)) /\ InnerOK(N(T2, j)) /\ N(T, j).low \in Nat /\ N(T2, j).low \in Nat
    <3>1. T[j].type # "none" /\ T2[j].type # "none" /\ Entries(T)
      BY DEF InT, Struct
    <3>2. Whole(N(T, j))
      BY <3>1, Alloc
    <3>3. Whole(N(T2, j))
      BY <1>1, <3>1, Alloc
    <3> QED BY <3>2, <3>3 DEF Whole
  <2>2. LowChild(N(T2, j)) = LowChild(N(T, j)) /\ LowChild(N(T, j)) \in Ids
    <3>1. <<N(T, j).low, LowChild(N(T, j))>> \in N(T, j).items
      BY <2>1, LowChildIs
    <3>2. <<N(T, j).low, LowChild(N(T, j))>> \in N(T2, j).items
      <4>1. CASE j = p
        <5>1. m.items = N(T, p).items \ {s} /\ s[1] # N(T, p).low
          BY DEF DeleteWrite
        <5>2. <<N(T, p).low, LowChild(N(T, p))>> # s
          BY <5>1
        <5> QED BY <3>1, <4>1, <5>1, <5>2
      <4>2. CASE j # p
        BY <3>1, <4>2
      <4> QED BY <4>1, <4>2
    <3>3. \A x \in N(T2, j).items : x[1] = N(T2, j).low => x[2] = LowChild(N(T2, j))
      BY <2>1, LowChildIs
    <3>4. LowChild(N(T, j)) \in Ids
      BY <2>1, <3>1 DEF InnerOK
    <3> QED BY <3>2, <3>3, <3>4
  <2>3. T[LowChild(N(T, j))].type # "remove"
    BY DEF Struct, LowChildren
  <2>4. m.type # "remove"
    BY DEF DeleteWrite
  <2> QED BY <2>2, <2>3, <2>4
<1>9. Ends(T2, R2, z2, l, top)
  BY DEF Struct, Ends, InC, InT
<1>10. RetiredOK(T2, R2)
  <2>1. \A r \in R2 : r \in R \/ r = [id |-> s[2], until |-> U]
    BY DEF DeleteWrite
  <2>2. \A r \in R : r.id # s[2] /\ r.id \in Ids /\ T[r.id].type # "none"
    BY DEF InT, Struct, RetiredOK
  <2>3. T[s[2]].type # "none"
    BY DEF InT
  <2>4. \A r \in R2 : r = [id |-> r.id, until |-> r.until] /\ r.id \in Ids /\ T2[r.id].type # "none"
    BY <2>1, <2>2, <2>3 DEF Struct, RetiredOK
  <2>5. ASSUME NEW r \in R2, NEW q \in R2, r.id = q.id PROVE r = q
    BY <2>1, <2>2, <2>5 DEF Struct, RetiredOK
  <2> QED BY <2>4, <2>5 DEF RetiredOK
<1>11. RetiredRefs(T2, R2, l)
  <2> SUFFICES ASSUME NEW r \in R2, T2[r.id].type = "remove", NEW t \in r.until
               PROVE  NodeRefs(T2, R2, l, t, N(T2, r.id), l[r.id])
    BY DEF RetiredRefs
  <2>1. r \in R \/ r = [id |-> s[2], until |-> U]
    BY DEF DeleteWrite
  <2>2. NodeRefs(T, R, l, t, N(T, r.id), l[r.id]) /\ t \in U /\ N(T2, r.id) = N(T, r.id)
    <3>1. CASE r \in R
      <4>1. r.id \in Ids /\ r.id # p
        BY <3>1 DEF Struct, RetiredOK, DeleteWrite, InC, InT
      <4>2. t \in U
        BY <3>1 DEF DeleteWrite
      <4> QED BY <3>1, <4>1, <4>2 DEF Struct, RetiredRefs
    <3>2. CASE r = [id |-> s[2], until |-> U]
      <4>1. r.id = s[2] /\ r.until = U
        BY <3>2
      <4>2. NodeRefs(T, R, l, t, N(T, s[2]), l[s[2]])
        BY InTRefs
      <4> QED BY <4>1, <4>2
    <3> QED BY <2>1, <3>1, <3>2
  <2>3. Evolve(T, R, z, l, T2, R2, z2, l, t)
    BY <2>2, DeleteEvolve
  <2> QED BY <2>2, <2>3, RefsEvolve
<1> QED BY <1>1, <1>2, <1>3, <1>4, <1>5, <1>6, <1>7, <1>8, <1>9, <1>10, <1>11 DEF Struct
-----------------------------------------------------------------------------
(* A node gives its upper part to a new right sibling.                      *)
SplitWrite(T, R, z, l, i, new, k, m, sib, T2, l2) ==
  /\ InC(T, R, z, i) /\ T[i].type # "remove"
  /\ new \in Ids /\ T[new].type = "none"
  /\ k \in Nat /\ N(T, i).low < k /\ k < N(T, i).high
  /\ Whole(m) /\ Live(m) = m /\ m.type = "split" /\ m.leaf = N(T, i).leaf
  /\ m.low = N(T, i).low /\ m.high = k /\ m.next = new
  /\ Whole(sib) /\ Live(sib) = sib /\ sib.type = "base" /\ sib.leaf = N(T, i).leaf
  /\ sib.low = k /\ sib.high = N(T, i).high /\ sib.next = N(T, i).next
  /\ m.items \cup sib.items = N(T, i).items
  /\ T2 = [T EXCEPT ![new] = sib, ![i] = m]
  /\ l2 = [l EXCEPT ![new] = l[i]]
  /\ N(T, i).next # Nil => Sepd(T, R, z, l, N(T, i).next)
  /\ \A j \in Ids : z[j] # i
  /\ ~N(T, i).leaf => T[LowChild(sib)].type # "remove"

(* Splitting a node: what changes, and what does not.                       *)
LEMMA SplitFrame ==
  ASSUME NEW T, NEW R, NEW z, NEW l, NEW top, Struct(T, R, z, l, top),
         NEW i, NEW new, NEW k, NEW m, NEW sib, NEW T2, NEW l2,
         SplitWrite(T, R, z, l, i, new, k, m, sib, T2, l2)
  PROVE  /\ i \in Ids /\ new \in Ids /\ i # new
         /\ T2[i] = m /\ N(T2, i) = m /\ T2[new] = sib /\ N(T2, new) = sib
         /\ \A j \in Ids : j # i /\ j # new => T2[j] = T[j] /\ N(T2, j) = N(T, j)
         /\ Entries(T2)
         /\ l2 \in [Ids -> Nat] /\ l2[new] = l[i] /\ l2[i] = l[i]
         /\ \A j \in Ids : j # new => l2[j] = l[j]
         /\ ~InT(T, R, new) /\ InT(T2, R, new)
         /\ \A j : j # new => (InT(T2, R, j) <=> InT(T, R, j))
         /\ z[new] = Nil /\ InC(T2, R, z, new)
         /\ \A j : j # new => (InC(T2, R, z, j) <=> InC(T, R, z, j))
         /\ \A j \in Ids : j # new => N(T2, j).leaf = N(T, j).leaf /\ N(T2, j).low = N(T, j).low
         /\ \A j \in Ids : j # new /\ HasSep(T, R, z, l, j) => HasSep(T2, R, z, l2, j)
         /\ \A j \in Ids : j # new /\ Sepd(T, R, z, l, j) => Sepd(T2, R, z, l2, j)
<1>1. /\ i \in Ids /\ new \in Ids /\ T[i].type # "none" /\ T[new].type = "none"
      /\ Whole(m) /\ Whole(sib) /\ Live(m) = m /\ Live(sib) = sib
      /\ m.type = "split" /\ sib.type = "base"
      /\ T2 = [T EXCEPT ![new] = sib, ![i] = m] /\ l2 = [l EXCEPT ![new] = l[i]]
  BY DEF SplitWrite, InC, InT
<1>2. /\ T = [j \in Ids |-> T[j]] /\ \A j \in Ids : Entry(T[j])
  BY DEF Struct, Entries
<1>3. i # new
  BY <1>1
<1>4. T2[i] = m /\ T2[new] = sib /\ \A j \in Ids : j # i /\ j # new => T2[j] = T[j]
  BY <1>1, <1>2, <1>3
<1>5. /\ N(T2, i) = m /\ N(T2, new) = sib
      /\ \A j \in Ids : j # i /\ j # new => N(T2, j) = N(T, j)
  BY <1>1, <1>4 DEF N
<1>6. Entries(T2)
  <2>1. Entry(m) /\ Entry(sib)
    BY <1>1 DEF Entry
  <2> QED BY <1>1, <1>2, <1>4, <2>1 DEF Entries
<1>7. l \in [Ids -> Nat] /\ l2 \in [Ids -> Nat] /\ l2[new] = l[i] /\ \A j \in Ids : j # new => l2[j] = l[j]
  BY <1>1 DEF Struct, Levels
<1>8. /\ ~InT(T, R, new) /\ InT(T2, R, new)
      /\ \A j : j # new => (InT(T2, R, j) <=> InT(T, R, j))
  <2>1. \A r \in R : r.id # new
    BY <1>1 DEF Struct, RetiredOK
  <2>2. \A j \in Ids : j # new => (T2[j].type = "none" <=> T[j].type = "none")
    BY <1>1, <1>4
  <2> QED BY <1>1, <1>4, <2>1, <2>2 DEF InT
<1>9. z[new] = Nil
  BY <1>1, <1>8 DEF Struct, Zombies, Merged
<1>10. InC(T2, R, z, new) /\ \A j : j # new => (InC(T2, R, z, j) <=> InC(T, R, z, j))
  BY <1>8, <1>9 DEF InC
<1>11. \A j \in Ids : j # new => N(T2, j).leaf = N(T, j).leaf /\ N(T2, j).low = N(T, j).low
  BY <1>5 DEF SplitWrite
<1>12. ASSUME NEW j \in Ids, j # new, HasSep(T, R, z, l, j) PROVE HasSep(T2, R, z, l2, j)
  <2>1. PICK p \in Ids : InC(T, R, z, p) /\ l[p] = l[j] + 1 /\ <<N(T, j).low, j>> \in N(T, p).items
    BY <1>12 DEF HasSep
  <2>2. p # new
    BY <1>8, <2>1 DEF InC
  <2>3. CASE p # i
    BY <1>5, <1>7, <1>10, <1>11, <1>12, <2>1, <2>2, <2>3 DEF HasSep
  <2>4. CASE p = i
    <3>1. <<N(T, j).low, j>> \in m.items \/ <<N(T, j).low, j>> \in sib.items
      BY <2>1, <2>4 DEF SplitWrite
    <3>2. CASE <<N(T, j).low, j>> \in m.items
      BY <1>1, <1>3, <1>5, <1>7, <1>10, <1>11, <1>12, <2>1, <2>4, <3>2 DEF HasSep
    <3>3. CASE <<N(T, j).low, j>> \in sib.items
      BY <1>1, <1>3, <1>5, <1>7, <1>10, <1>11, <1>12, <2>1, <2>4, <3>3 DEF HasSep
    <3> QED BY <3>1, <3>2, <3>3
  <2> QED BY <2>3, <2>4
<1>13. \A j \in Ids : j # new /\ Sepd(T, R, z, l, j) => Sepd(T2, R, z, l2, j)
  BY <1>10, <1>12 DEF Sepd
<1> QED BY <1>1, <1>3, <1>4, <1>5, <1>6, <1>7, <1>8, <1>9, <1>10, <1>11, <1>12, <1>13

(* What a thread follows is where it was after a split.                     *)
LEMMA SplitEvolve ==
  ASSUME NEW T, NEW R, NEW z, NEW l, NEW top, Struct(T, R, z, l, top),
         NEW i, NEW new, NEW k, NEW m, NEW sib, NEW T2, NEW l2,
         SplitWrite(T, R, z, l, i, new, k, m, sib, T2, l2), NEW t
  PROVE  Evolve(T, R, z, l, T2, R, z, l2, t)
<1> SUFFICES ASSUME NEW j \in Ids, Guarded(T, R, t, j)
             PROVE  /\ Guarded(T2, R, t, j)
                    /\ N(T2, j).low = N(T, j).low /\ l2[j] = l[j]
                    /\ T[j].type = "remove" => T2[j] = T[j]
                    /\ Sepd(T, R, z, l, j) => Sepd(T2, R, z, l2, j)
  BY DEF Evolve
<1>c. T[i].type # "remove" /\ T[new].type = "none" /\ m.type = "split"
  BY DEF SplitWrite
<1>1. j # new
  BY <1>c DEF Guarded
<1>2. T[j].type = "remove" => T2[j] = T[j]
  BY <1>1, <1>c, SplitFrame
<1>3. T2[j].type # "none"
  BY <1>1, <1>c, SplitFrame DEF Guarded
<1>4. Guarded(T2, R, t, j)
  BY <1>2, <1>3 DEF Guarded
<1> QED BY <1>1, <1>2, <1>4, SplitFrame

(* Splitting a node keeps the shape of the tree.                            *)
LEMMA SplitStep ==
  ASSUME NEW T, NEW R, NEW z, NEW l, NEW top, Struct(T, R, z, l, top),
         NEW i, NEW new, NEW k, NEW m, NEW sib, NEW T2, NEW l2,
         SplitWrite(T, R, z, l, i, new, k, m, sib, T2, l2)
  PROVE  Struct(T2, R, z, l2, top)
<1>c. /\ T[i].type # "remove" /\ T[new].type = "none"
      /\ k \in Nat /\ N(T, i).low < k /\ k < N(T, i).high
      /\ Whole(m) /\ m.type = "split" /\ m.leaf = N(T, i).leaf
      /\ m.low = N(T, i).low /\ m.high = k /\ m.next = new
      /\ Whole(sib) /\ sib.type = "base" /\ sib.leaf = N(T, i).leaf
      /\ sib.low = k /\ sib.high = N(T, i).high /\ sib.next = N(T, i).next
      /\ m.items \cup sib.items = N(T, i).items
      /\ N(T, i).next # Nil => Sepd(T, R, z, l, N(T, i).next)
      /\ \A j \in Ids : z[j] # i
      /\ ~N(T, i).leaf => T[LowChild(sib)].type # "remove"
  BY DEF SplitWrite
<1> USE SplitFrame
<1>a. InC(T, R, z, i) /\ InT(T, R, i) /\ T[i].type # "remove" /\ Whole(N(T, i))
  BY Alloc DEF SplitWrite, InC, InT, Struct
<1>b. \A j : InC(T, R, z, j) => j # new /\ j \in Ids
  BY DEF InC, InT
<1>1. Entries(T2)
  OBVIOUS
<1>2. Links(T2, R, z, l2)
  <2> SUFFICES ASSUME NEW j \in Ids, InT(T2, R, j), N(T2, j).next # Nil
               PROVE  /\ InC(T2, R, z, N(T2, j).next) /\ l2[N(T2, j).next] = l2[j]
                      /\ N(T2, N(T2, j).next).low = N(T2, j).high
    BY DEF Links
  <2>1. CASE j = i
    BY <1>c, <2>1
  <2>2. CASE j = new
    <3>1. N(T2, j).next = N(T, i).next /\ N(T2, j).high = N(T, i).high /\ l2[j] = l[i]
      BY <1>c, <2>2
    <3>2. /\ InC(T, R, z, N(T, i).next) /\ l[N(T, i).next] = l[i]
          /\ N(T, N(T, i).next).low = N(T, i).high
      BY <1>a, <3>1 DEF Struct, Links
    <3> QED BY <1>b, <3>1, <3>2
  <2>3. CASE j # i /\ j # new
    <3>1. /\ InC(T, R, z, N(T, j).next) /\ l[N(T, j).next] = l[j]
          /\ N(T, N(T, j).next).low = N(T, j).high
      BY <2>3 DEF Struct, Links
    <3> QED BY <1>b, <2>3, <3>1
  <2> QED BY <2>1, <2>2, <2>3
<1>3. Levels(T2, R, l2, top)
  <2>1. \A j \in Ids : T2[j].type = "remove" => T[j].type = "remove" /\ j # new
    BY <1>c
  <2>2. top \in Ids /\ top # new
    BY <1>b DEF Struct, Ends
  <2>3. \A j \in Ids : j # new => (InT(T2, R, j) => (N(T2, j).leaf <=> l2[j] = 0) /\ l2[j] <= l2[top])
    BY <2>2 DEF Struct, Levels
  <2>4. (N(T2, new).leaf <=> l2[new] = 0) /\ l2[new] <= l2[top]
    BY <1>c, <1>a, <2>2 DEF Struct, Levels
  <2> QED BY <2>1, <2>2, <2>3, <2>4 DEF Struct, Levels
<1>4. Apart(T2, R, z, l2)
  <2> SUFFICES ASSUME NEW j \in Ids, NEW h \in Ids, InC(T2, R, z, j), InC(T2, R, z, h), l2[j] = l2[h], j # h
               PROVE  N(T2, j).high <= N(T2, h).low \/ N(T2, h).high <= N(T2, j).low
    BY DEF Apart
  <2>1. /\ N(T2, i).low = N(T, i).low /\ N(T2, i).high = k
        /\ N(T2, new).low = k /\ N(T2, new).high = N(T, i).high
        /\ k \in Nat /\ N(T, i).low < k /\ k < N(T, i).high
        /\ N(T, i).low \in Nat /\ N(T, i).high \in Nat
    BY <1>c, <1>a DEF Whole
  <2>2. ASSUME NEW q \in Ids, q # i, q # new, InC(T2, R, z, q), l2[q] = l[i]
        PROVE  /\ N(T2, q).low \in Nat /\ N(T2, q).high \in Nat
               /\ N(T2, q).high <= N(T, i).low \/ N(T, i).high <= N(T2, q).low
    <3>1. InC(T, R, z, q) /\ l[q] = l[i] /\ N(T2, q) = N(T, q)
      BY <2>2
    <3>2. Whole(N(T, q))
      BY <3>1, Alloc DEF Struct, InC, InT
    <3>3. N(T, q).high <= N(T, i).low \/ N(T, i).high <= N(T, q).low
      BY <1>a, <2>2, <3>1 DEF Struct, Apart
    <3> QED BY <3>1, <3>2, <3>3 DEF Whole
  <2>3. CASE j \in {i, new} /\ h \in {i, new}
    BY <2>1, <2>3
  <2>4. CASE j \in {i, new} /\ h \notin {i, new}
    BY <2>1, <2>2, <2>4
  <2>5. CASE j \notin {i, new} /\ h \in {i, new}
    BY <2>1, <2>2, <2>5
  <2>6. CASE j \notin {i, new} /\ h \notin {i, new}
    BY <2>6 DEF Struct, Apart
  <2> QED BY <2>3, <2>4, <2>5, <2>6
<1>5. Targets(T2, R, l2)
  <2> SUFFICES ASSUME NEW j \in Ids, InT(T2, R, j), ~N(T2, j).leaf, NEW x \in N(T2, j).items
               PROVE  InT(T2, R, x[2]) /\ N(T2, x[2]).low = x[1] /\ l2[x[2]] + 1 = l2[j]
    BY DEF Targets
  <2>1. PICK q \in Ids : InT(T, R, q) /\ ~N(T, q).leaf /\ x \in N(T, q).items /\ l[q] = l2[j]
    <3>1. CASE j \in {i, new}
      <4>1. x \in N(T, i).items /\ ~N(T, i).leaf /\ l[i] = l2[j]
        BY <1>c, <3>1
      <4> QED BY <1>a, <4>1
    <3>2. CASE j \notin {i, new}
      BY <3>2
    <3> QED BY <3>1, <3>2
  <2>2. InT(T, R, x[2]) /\ N(T, x[2]).low = x[1] /\ l[x[2]] + 1 = l[q]
    BY <2>1 DEF Struct, Targets
  <2>3. x[2] \in Ids /\ x[2] # new
    BY <2>2 DEF InT
  <2> QED BY <2>1, <2>2, <2>3
<1>6. Zombies(T2, R, z, l2)
  <2>1. z \in [Ids -> Ids \cup {Nil}]
    BY DEF Struct, Zombies
  <2> SUFFICES ASSUME NEW j \in Ids, z[j] # Nil
               PROVE  Merged(T2, R, z, l2, j)
    BY <2>1 DEF Zombies
  <2>2. Merged(T, R, z, l, j)
    BY DEF Struct, Zombies
  <2>3. z[j] \in Ids /\ z[j] # i /\ j # i /\ j # new /\ z[j] # new
    BY <1>c, <1>a, <1>b, <2>2 DEF Merged
  <2>4. N(T2, z[j]) = N(T, z[j]) /\ T2[j] = T[j] /\ N(T2, j) = N(T, j)
    BY <2>3
  <2>5. HasSep(T2, R, z, l2, j)
    BY <2>2, <2>3 DEF Merged
  <2>6. InC(T2, R, z, z[j]) /\ InT(T2, R, j) /\ l2[z[j]] = l2[j]
    BY <2>2, <2>3 DEF Merged
  <2> QED BY <2>2, <2>4, <2>5, <2>6 DEF Merged
<1>7. Seps(T2, R, z, l2)
  <2> SUFFICES ASSUME NEW j \in Ids, InC(T2, R, z, j), N(T2, j).next # Nil, N(T2, j).type # "split"
               PROVE  Sepd(T2, R, z, l2, N(T2, j).next)
    BY DEF Seps
  <2>1. PICK q \in Ids : InT(T, R, q) /\ N(T, q).next = N(T2, j).next /\ Sepd(T, R, z, l, N(T, q).next)
    <3>1. CASE j = new
      <4>1. N(T2, j).next = N(T, i).next
        BY <1>c, <3>1
      <4>2. Sepd(T, R, z, l, N(T, i).next)
        BY <1>c, <4>1
      <4> QED BY <1>a, <4>1, <4>2
    <3>2. CASE j # new
      <4>1. j # i
        BY <1>c
      <4>2. N(T2, j) = N(T, j) /\ InC(T, R, z, j)
        BY <3>2, <4>1
      <4>3. Sepd(T, R, z, l, N(T, j).next)
        BY <4>2 DEF Struct, Seps
      <4> QED BY <4>2, <4>3 DEF InC
    <3> QED BY <3>1, <3>2
  <2>2. N(T, q).next \in Ids /\ N(T, q).next # new
    <3>1. InC(T, R, z, N(T, q).next)
      BY <2>1 DEF Struct, Links
    <3> QED BY <1>b, <3>1
  <2> QED BY <2>1, <2>2
<1>8. LowChildren(T2, R)
  <2> SUFFICES ASSUME NEW j \in Ids, InT(T2, R, j), ~N(T2, j).leaf
               PROVE  T2[LowChild(N(T2, j))].type # "remove"
    BY DEF LowChildren
  <2>1. \A x \in Ids : T2[x].type = "remove" => T[x].type = "remove"
    BY <1>c
  <2>2. InnerOK(N(T2, j)) /\ N(T2, j).low \in Nat
    BY <1>1, Alloc DEF Whole, InT
  <2>3. <<N(T2, j).low, LowChild(N(T2, j))>> \in N(T2, j).items /\ LowChild(N(T2, j)) \in Ids
    <3>1. <<N(T2, j).low, LowChild(N(T2, j))>> \in N(T2, j).items
      BY <2>2, LowChildIs
    <3> QED BY <2>2, <3>1 DEF InnerOK
  <2>4. T[LowChild(N(T2, j))].type # "remove"
    <3>1. CASE j = new
      BY <1>c, <3>1
    <3>2. CASE j = i
      <4>1. ~N(T, i).leaf /\ N(T, i).low = N(T2, j).low /\ N(T2, j).items \subseteq N(T, i).items
        BY <1>c, <3>2
      <4>2. InnerOK(N(T, i)) /\ N(T, i).low \in Nat
        BY <1>a, <4>1 DEF Whole
      <4>3. \A s \in N(T, i).items : s[1] = N(T, i).low => s[2] = LowChild(N(T, i))
        BY <4>2, LowChildIs
      <4>4. LowChild(N(T2, j)) = LowChild(N(T, i))
        BY <2>3, <4>1, <4>3
      <4> QED BY <1>a, <4>1, <4>4 DEF Struct, LowChildren
    <3>3. CASE j # i /\ j # new
      BY <3>3 DEF Struct, LowChildren
    <3> QED BY <3>1, <3>2, <3>3
  <2> QED BY <2>1, <2>3, <2>4
<1>9. Ends(T2, R, z, l2, top)
  BY <1>b DEF Struct, Ends
<1>10. RetiredOK(T2, R)
  <2>1. \A j \in Ids : T[j].type # "none" => T2[j].type # "none"
    BY <1>c
  <2> QED BY <2>1 DEF Struct, RetiredOK
<1>11. RetiredRefs(T2, R, l2)
  <2> SUFFICES ASSUME NEW r \in R, T2[r.id].type = "remove", NEW t \in r.until
               PROVE  NodeRefs(T2, R, l2, t, N(T2, r.id), l2[r.id])
    BY DEF RetiredRefs
  <2>1. r.id \in Ids /\ r.id # i /\ r.id # new
    BY <1>c DEF Struct, RetiredOK, InC, InT
  <2>2. NodeRefs(T, R, l, t, N(T, r.id), l[r.id])
    BY <2>1 DEF Struct, RetiredRefs
  <2>3. NodeRefs(T2, R, l2, t, N(T, r.id), l[r.id])
    BY <2>2, SplitEvolve, RefsEvolve
  <2> QED BY <2>1, <2>3
<1> QED BY <1>1, <1>2, <1>3, <1>4, <1>5, <1>6, <1>7, <1>8, <1>9, <1>10, <1>11 DEF Struct
-----------------------------------------------------------------------------
(* A node takes over its removed right sibling.                             *)
MergeWrite(T, R, z, l, i, d, m, T2, z2) ==
  /\ InC(T, R, z, i) /\ T[i].type # "remove"
  /\ d = N(T, i).next /\ d # Nil /\ T[d].type = "remove"
  /\ Whole(m) /\ Live(m) = m /\ m.type = "merge" /\ m.leaf = N(T, i).leaf
  /\ m.low = N(T, i).low /\ m.high = N(T, d).high /\ m.next = N(T, d).next
  /\ m.items = N(T, i).items \cup N(T, d).items /\ m.smo = <<N(T, i).high, d>>
  /\ T2 = [T EXCEPT ![i] = m]
  /\ z2 = [z EXCEPT ![d] = i]
  /\ Sepd(T, R, z, l, d)
  /\ \A j \in Ids : z[j] # i

(* Merging a removed node into its left neighbour: what changes, and what   *)
(* does not.                                                                *)
LEMMA MergeFrame ==
  ASSUME NEW T, NEW R, NEW z, NEW l, NEW top, Struct(T, R, z, l, top),
         NEW i, NEW d, NEW m, NEW T2, NEW z2, MergeWrite(T, R, z, l, i, d, m, T2, z2)
  PROVE  /\ i \in Ids /\ d \in Ids /\ i # d /\ InC(T, R, z, i) /\ InC(T, R, z, d)
         /\ l[d] = l[i] /\ N(T, d).low = N(T, i).high
         /\ T2[i] = m /\ N(T2, i) = m
         /\ \A j \in Ids : j # i => T2[j] = T[j] /\ N(T2, j) = N(T, j)
         /\ Entries(T2)
         /\ z2[d] = i /\ z2 \in [Ids -> Ids \cup {Nil}] /\ \A j \in Ids : j # d => z2[j] = z[j]
         /\ \A j \in Ids : T2[j].type = "none" <=> T[j].type = "none"
         /\ \A j : InT(T2, R, j) <=> InT(T, R, j)
         /\ \A j : InC(T2, R, z2, j) <=> InC(T, R, z, j) /\ j # d
         /\ \A j \in Ids : /\ N(T2, j).leaf = N(T, j).leaf /\ N(T2, j).low = N(T, j).low
                           /\ N(T, j).items \subseteq N(T2, j).items
         /\ \A j \in Ids : HasSep(T, R, z, l, j) => HasSep(T2, R, z2, l, j)
         /\ \A j \in Ids : Sepd(T, R, z, l, j) => Sepd(T2, R, z2, l, j)
<1>1. /\ i \in Ids /\ InT(T, R, i) /\ InC(T, R, z, i) /\ T[i].type # "none"
      /\ T[i].type # "remove" /\ T[d].type = "remove" /\ Entry(m) /\ Live(m) = m
      /\ m.type = "merge" /\ T2 = [T EXCEPT ![i] = m] /\ z2 = [z EXCEPT ![d] = i]
  BY DEF MergeWrite, InC, InT, Entry
<1>2. T = [j \in Ids |-> T[j]] /\ \A j \in Ids : Entry(T[j])
  BY DEF Struct, Entries
<1>3. T2[i] = m /\ \A j \in Ids : j # i => T2[j] = T[j]
  BY <1>1, <1>2
<1>4. N(T2, i) = m /\ \A j \in Ids : j # i => N(T2, j) = N(T, j)
  BY <1>1, <1>3 DEF N
<1>5. Entries(T2)
  BY <1>1, <1>2, <1>3 DEF Entries
<1>6. \A j \in Ids : T2[j].type = "none" <=> T[j].type = "none"
  BY <1>1, <1>3
<1>7. InC(T, R, z, d) /\ l[d] = l[i] /\ N(T, d).low = N(T, i).high /\ d \in Ids /\ d # i
  <2>1. d = N(T, i).next /\ d # Nil
    BY DEF MergeWrite
  <2>2. InC(T, R, z, d) /\ l[d] = l[i] /\ N(T, d).low = N(T, i).high
    BY <1>1, <2>1 DEF Struct, Links
  <2> QED BY <1>1, <2>2 DEF InC, InT
<1>8. z2[d] = i /\ z2 \in [Ids -> Ids \cup {Nil}] /\ \A j \in Ids : j # d => z2[j] = z[j]
  BY <1>1, <1>7 DEF Struct, Zombies
<1>9. \A j : InT(T2, R, j) <=> InT(T, R, j)
  BY <1>6 DEF InT
<1>10. \A j : InC(T2, R, z2, j) <=> InC(T, R, z, j) /\ j # d
  <2>1. i # Nil /\ \A j : InT(T, R, j) => j \in Ids
    BY <1>1 DEF InT, Ids, Nil
  <2> QED BY <1>8, <1>9, <2>1 DEF InC
<1>11. \A j \in Ids : /\ N(T2, j).leaf = N(T, j).leaf /\ N(T2, j).low = N(T, j).low
                      /\ N(T, j).items \subseteq N(T2, j).items
  BY <1>4 DEF MergeWrite
<1>12. ASSUME NEW j \in Ids, HasSep(T, R, z, l, j) PROVE HasSep(T2, R, z2, l, j)
  <2>1. PICK p \in Ids : InC(T, R, z, p) /\ l[p] = l[j] + 1 /\ <<N(T, j).low, j>> \in N(T, p).items
    BY <1>12 DEF HasSep
  <2>2. CASE p # d
    BY <1>10, <1>11, <2>1, <2>2 DEF HasSep
  <2>3. CASE p = d
    <3>1. <<N(T, j).low, j>> \in N(T2, i).items
      BY <1>4, <2>1, <2>3 DEF MergeWrite
    <3>2. InC(T2, R, z2, i) /\ l[i] = l[j] + 1
      BY <1>1, <1>7, <1>10, <2>1, <2>3
    <3> QED BY <1>1, <1>11, <3>1, <3>2 DEF HasSep
  <2> QED BY <2>2, <2>3
<1>13. \A j \in Ids : Sepd(T, R, z, l, j) => Sepd(T2, R, z2, l, j)
  BY <1>10, <1>12 DEF Sepd
<1> QED BY <1>1, <1>3, <1>4, <1>5, <1>6, <1>7, <1>8, <1>9, <1>10, <1>11, <1>12, <1>13

(* What a thread follows is where it was after a merge.                     *)
LEMMA MergeEvolve ==
  ASSUME NEW T, NEW R, NEW z, NEW l, NEW top, Struct(T, R, z, l, top),
         NEW i, NEW d, NEW m, NEW T2, NEW z2, MergeWrite(T, R, z, l, i, d, m, T2, z2), NEW t
  PROVE  Evolve(T, R, z, l, T2, R, z2, l, t)
<1> SUFFICES ASSUME NEW j \in Ids, Guarded(T, R, t, j)
             PROVE  /\ Guarded(T2, R, t, j)
                    /\ N(T2, j).low = N(T, j).low
                    /\ T[j].type = "remove" => T2[j] = T[j]
                    /\ Sepd(T, R, z, l, j) => Sepd(T2, R, z2, l, j)
  BY DEF Evolve
<1>1. T[i].type # "remove"
  BY DEF MergeWrite
<1>2. T[j].type = "remove" => T2[j] = T[j]
  BY <1>1, MergeFrame
<1>3. Guarded(T2, R, t, j)
  BY <1>2, MergeFrame DEF Guarded
<1> QED BY <1>2, <1>3, MergeFrame

(* Merging a removed node into its left neighbour keeps the shape of the    *)
(* tree.                                                                    *)
LEMMA MergeStep ==
  ASSUME NEW T, NEW R, NEW z, NEW l, NEW top, Struct(T, R, z, l, top),
         NEW i, NEW d, NEW m, NEW T2, NEW z2, MergeWrite(T, R, z, l, i, d, m, T2, z2)
  PROVE  Struct(T2, R, z2, l, top)
<1>c. /\ T[i].type # "remove" /\ d = N(T, i).next /\ d # Nil /\ T[d].type = "remove"
      /\ Whole(m) /\ m.type = "merge" /\ m.leaf = N(T, i).leaf
      /\ m.low = N(T, i).low /\ m.high = N(T, d).high /\ m.next = N(T, d).next
      /\ m.items = N(T, i).items \cup N(T, d).items /\ m.smo = <<N(T, i).high, d>>
      /\ Sepd(T, R, z, l, d) /\ \A j \in Ids : z[j] # i
  BY DEF MergeWrite
<1> USE MergeFrame
<1>a. /\ InT(T, R, i) /\ InT(T, R, d) /\ Whole(N(T, i)) /\ Whole(N(T, d)) /\ N(T, d).type = "base"
      /\ N(T, d).leaf = N(T, i).leaf
  <2>1. InT(T, R, i) /\ InT(T, R, d) /\ T[i].type # "none" /\ T[d].type # "none" /\ i \in Ids /\ d \in Ids
    BY DEF InC, InT
  <2>2. Entries(T) /\ l[d] = l[i]
    BY DEF Struct
  <2>3. Whole(N(T, i)) /\ N(T, i).leaf \in BOOLEAN
    BY <2>1, <2>2, Alloc DEF Whole
  <2>4. Whole(N(T, d)) /\ N(T, d).leaf \in BOOLEAN /\ N(T, d).type = "base"
    BY <1>c, <2>1, <2>2, Alloc DEF Whole
  <2>5. (N(T, i).leaf <=> l[i] = 0) /\ (N(T, d).leaf <=> l[d] = 0)
    BY <2>1 DEF Struct, Levels
  <2> QED BY <2>1, <2>2, <2>3, <2>4, <2>5
<1>b. \A j : InC(T, R, z, j) => j \in Ids /\ InT(T, R, j)
  BY DEF InC, InT
<1>d. /\ N(T, i).low \in Nat /\ N(T, i).high \in Nat /\ N(T, d).high \in Nat
      /\ N(T, i).low < N(T, i).high /\ N(T, i).high < N(T, d).high
  BY <1>a DEF Whole
<1>1. Entries(T2)
  OBVIOUS
<1>e. ASSUME NEW j \in Ids, InT(T, R, j), j # i PROVE N(T, j).next # d
  <2>1. ASSUME NEW q, InC(T, R, z, q), N(T, q).next = d PROVE q = i
    <3>1. l[d] = l[q] /\ N(T, d).low = N(T, q).high
      BY <1>b, <1>c, <2>1 DEF Struct, Links
    <3>2. Whole(N(T, q))
      BY <2>1, Alloc DEF Struct, InC, InT
    <3>3. /\ N(T, q).low <= N(T, i).high - 1 /\ N(T, i).high - 1 < N(T, q).high
          /\ N(T, i).low <= N(T, i).high - 1 /\ N(T, i).high - 1 < N(T, i).high
          /\ N(T, i).high - 1 \in Int
      BY <1>d, <3>1, <3>2 DEF Whole
    <3> QED BY <2>1, <3>1, <3>3, OneCover DEF Struct
  <2>2. CASE z[j] = Nil
    BY <1>e, <2>1, <2>2 DEF InC
  <2>3. CASE z[j] # Nil
    <3>1. Merged(T, R, z, l, j)
      BY <2>3 DEF Struct, Zombies
    <3>2. InC(T, R, z, z[j]) /\ N(T, z[j]).next = N(T, j).next
      BY <3>1 DEF Merged
    <3> QED BY <1>c, <2>1, <3>2
  <2> QED BY <2>2, <2>3
<1>2. Links(T2, R, z2, l)
  <2> SUFFICES ASSUME NEW j \in Ids, InT(T2, R, j), N(T2, j).next # Nil
               PROVE  /\ InC(T2, R, z2, N(T2, j).next) /\ l[N(T2, j).next] = l[j]
                      /\ N(T2, N(T2, j).next).low = N(T2, j).high
    BY DEF Links
  <2>1. PICK q \in Ids : /\ InT(T, R, q) /\ N(T, q).next = N(T2, j).next
                         /\ N(T, q).high = N(T2, j).high /\ l[q] = l[j] /\ N(T, q).next # d
    <3>1. CASE j = i
      <4>1. N(T, d).next # d
        BY <1>a, <1>e
      <4> QED BY <1>a, <1>c, <3>1, <4>1
    <3>2. CASE j # i
      BY <1>e, <3>2
    <3> QED BY <3>1, <3>2
  <2>2. /\ InC(T, R, z, N(T, q).next) /\ l[N(T, q).next] = l[q]
        /\ N(T, N(T, q).next).low = N(T, q).high
    BY <2>1 DEF Struct, Links
  <2> QED BY <1>b, <2>1, <2>2
<1>3. Levels(T2, R, l, top)
  <2>1. \A j \in Ids : T2[j].type = "remove" => T[j].type = "remove"
    BY <1>c
  <2> QED BY <2>1 DEF Struct, Levels
<1>4. Apart(T2, R, z2, l)
  <2> SUFFICES ASSUME NEW j \in Ids, NEW h \in Ids, InC(T2, R, z2, j), InC(T2, R, z2, h), l[j] = l[h], j # h
               PROVE  N(T2, j).high <= N(T2, h).low \/ N(T2, h).high <= N(T2, j).low
    BY DEF Apart
  <2>1. ASSUME NEW q \in Ids, q # i, InC(T2, R, z2, q), l[q] = l[i]
        PROVE  N(T2, q).high <= N(T2, i).low \/ N(T2, i).high <= N(T2, q).low
    <3>1. InC(T, R, z, q) /\ q # d /\ N(T2, q) = N(T, q)
      BY <2>1
    <3>2. Whole(N(T, q))
      BY <3>1, Alloc DEF Struct, InC, InT
    <3>3. N(T, q).high <= N(T, i).low \/ N(T, i).high <= N(T, q).low
      BY <2>1, <3>1 DEF Struct, Apart
    <3>4. N(T, q).high <= N(T, d).low \/ N(T, d).high <= N(T, q).low
      BY <2>1, <3>1 DEF Struct, Apart
    <3>5. N(T, q).low \in Nat /\ N(T, q).high \in Nat /\ N(T, q).low < N(T, q).high
      BY <3>2 DEF Whole
    <3>6. N(T, q).high <= N(T, i).low \/ N(T, d).high <= N(T, q).low
      BY <1>d, <3>3, <3>4, <3>5
    <3> QED BY <1>c, <3>1, <3>6
  <2>2. CASE j = i
    BY <2>1, <2>2
  <2>3. CASE h = i
    BY <2>1, <2>3
  <2>4. CASE j # i /\ h # i
    BY <2>4 DEF Struct, Apart
  <2> QED BY <2>2, <2>3, <2>4
<1>5. Targets(T2, R, l)
  <2> SUFFICES ASSUME NEW j \in Ids, InT(T2, R, j), ~N(T2, j).leaf, NEW x \in N(T2, j).items
               PROVE  InT(T2, R, x[2]) /\ N(T2, x[2]).low = x[1] /\ l[x[2]] + 1 = l[j]
    BY DEF Targets
  <2>1. PICK q \in Ids : InT(T, R, q) /\ ~N(T, q).leaf /\ x \in N(T, q).items /\ l[q] = l[j]
    <3>1. CASE j = i
      <4>1. x \in N(T, i).items \/ x \in N(T, d).items
        BY <1>c, <3>1
      <4> QED BY <1>a, <3>1, <4>1
    <3>2. CASE j # i
      BY <3>2
    <3> QED BY <3>1, <3>2
  <2>2. InT(T, R, x[2]) /\ N(T, x[2]).low = x[1] /\ l[x[2]] + 1 = l[q]
    BY <2>1 DEF Struct, Targets
  <2>3. x[2] \in Ids
    BY <2>2 DEF InT
  <2> QED BY <2>1, <2>2, <2>3
<1>6. Zombies(T2, R, z2, l)
  <2> SUFFICES ASSUME NEW j \in Ids, z2[j] # Nil
               PROVE  Merged(T2, R, z2, l, j)
    BY DEF Zombies
  <2>1. CASE j = d
    <3>1. HasSep(T2, R, z2, l, d)
      BY <1>c DEF Sepd
    <3> QED BY <1>a, <1>c, <2>1, <3>1 DEF Merged
  <2>2. CASE j # d
    <3>1. Merged(T, R, z, l, j) /\ z2[j] = z[j]
      BY <2>2 DEF Struct, Zombies
    <3>2. z[j] \in Ids /\ z[j] # i /\ j # i /\ z[j] # d
      BY <1>a, <1>b, <1>c, <3>1 DEF Merged
    <3>3. N(T2, z[j]) = N(T, z[j]) /\ T2[j] = T[j] /\ N(T2, j) = N(T, j)
      BY <3>2
    <3>4. HasSep(T2, R, z2, l, j) /\ InC(T2, R, z2, z[j]) /\ InT(T2, R, j)
      BY <3>1, <3>2 DEF Merged
    <3> QED BY <3>1, <3>3, <3>4 DEF Merged
  <2> QED BY <2>1, <2>2
<1>7. Seps(T2, R, z2, l)
  <2> SUFFICES ASSUME NEW j \in Ids, InC(T2, R, z2, j), N(T2, j).next # Nil, N(T2, j).type # "split"
               PROVE  Sepd(T2, R, z2, l, N(T2, j).next)
    BY DEF Seps
  <2>1. PICK q \in Ids : InC(T, R, z, q) /\ N(T, q).next = N(T2, j).next /\ N(T, q).type # "split"
    <3>1. CASE j = i
      BY <1>a, <1>c, <3>1
    <3>2. CASE j # i
      BY <3>2
    <3> QED BY <3>1, <3>2
  <2>2. Sepd(T, R, z, l, N(T, q).next) /\ N(T, q).next \in Ids
    BY <1>b, <2>1 DEF Struct, Seps, Links
  <2> QED BY <2>1, <2>2
<1>8. LowChildren(T2, R)
  <2> SUFFICES ASSUME NEW j \in Ids, InT(T2, R, j), ~N(T2, j).leaf
               PROVE  T2[LowChild(N(T2, j))].type # "remove"
    BY DEF LowChildren
  <2>1. InnerOK(N(T, j)) /\ InnerOK(N(T2, j)) /\ N(T, j).low \in Nat /\ N(T2, j).low \in Nat
    <3>1. T[j].type # "none" /\ T2[j].type # "none" /\ Entries(T)
      BY DEF InT, Struct
    <3>2. Whole(N(T, j))
      BY <3>1, Alloc
    <3>3. Whole(N(T2, j))
      BY <1>1, <3>1, Alloc
    <3> QED BY <3>2, <3>3 DEF Whole
  <2>2. LowChild(N(T2, j)) = LowChild(N(T, j)) /\ LowChild(N(T, j)) \in Ids
    <3>1. <<N(T, j).low, LowChild(N(T, j))>> \in N(T, j).items
      BY <2>1, LowChildIs
    <3>2. <<N(T, j).low, LowChild(N(T, j))>> \in N(T2, j).items
      BY <3>1
    <3>3. \A x \in N(T2, j).items : x[1] = N(T2, j).low => x[2] = LowChild(N(T2, j))
      BY <2>1, LowChildIs
    <3>4. LowChild(N(T, j)) \in Ids
      BY <2>1, <3>1 DEF InnerOK
    <3> QED BY <3>2, <3>3, <3>4
  <2>3. T[LowChild(N(T, j))].type # "remove"
    BY DEF Struct, LowChildren
  <2> QED BY <1>c, <2>2, <2>3
<1>9. Ends(T2, R, z2, l, top)
  <2>1. top # d
    <3>1. l[d] < l[top] /\ l[top] \in Nat
      BY <1>b, <1>c DEF Struct, Levels, Ends
    <3> QED BY <3>1
  <2>2. FirstLeaf # d
    BY <1>d DEF Struct, Ends
  <2> QED BY <1>b, <2>1, <2>2 DEF Struct, Ends
<1>10. RetiredOK(T2, R)
  BY DEF Struct, RetiredOK
<1>11. RetiredRefs(T2, R, l)
  <2> SUFFICES ASSUME NEW r \in R, T2[r.id].type = "remove", NEW t \in r.until
               PROVE  NodeRefs(T2, R, l, t, N(T2, r.id), l[r.id])
    BY DEF RetiredRefs
  <2>1. r.id \in Ids /\ r.id # i
    BY <1>a DEF Struct, RetiredOK, InT
  <2>2. NodeRefs(T, R, l, t, N(T, r.id), l[r.id])
    BY <2>1 DEF Struct, RetiredRefs
  <2>3. Evolve(T, R, z, l, T2, R, z2, l, t)
    BY MergeEvolve
  <2>4. NodeRefs(T2, R, l, t, N(T, r.id), l[r.id])
    BY <2>2, <2>3, RefsEvolve
  <2> QED BY <2>1, <2>4
<1> QED BY <1>1, <1>2, <1>3, <1>4, <1>5, <1>6, <1>7, <1>8, <1>9, <1>10, <1>11 DEF Struct
-----------------------------------------------------------------------------
(* A node appears at a NodeID that was free: a new root above the old one,  *)
(* or a node that no thread will ever find and that is retired at once.     *)
FreshWrite(T, R, z, l, top, new, m, U, T2, R2, l2, top2) ==
  /\ new \in Ids /\ T[new].type = "none"
  /\ Whole(m) /\ m.type = "base"
  /\ T2 = [T EXCEPT ![new] = m]
  /\ \/ R2 = R \cup {[id |-> new, until |-> U]} /\ l2 = l /\ top2 = top
     \/ /\ R2 = R /\ l2 = [l EXCEPT ![new] = l[top] + 1] /\ top2 = new
        /\ ~m.leaf /\ m.low = 0 /\ m.next = Nil
        /\ \A s \in m.items :
             /\ InC(T, R, z, s[2]) /\ N(T, s[2]).low = s[1] /\ l[s[2]] = l[top]

(* A new root, put above the old one or given up at once: what changes, and *)
(* what does not.                                                           *)
LEMMA FreshFrame ==
  ASSUME NEW T, NEW R, NEW z, NEW l, NEW top, Struct(T, R, z, l, top),
         NEW new, NEW m, NEW U, NEW T2, NEW R2, NEW l2, NEW top2,
         FreshWrite(T, R, z, l, top, new, m, U, T2, R2, l2, top2)
  PROVE  /\ new \in Ids /\ T[new].type = "none" /\ z[new] = Nil
         /\ T2[new] = m /\ N(T2, new) = m /\ Whole(m) /\ m.type = "base"
         /\ \A j \in Ids : j # new => T2[j] = T[j] /\ N(T2, j) = N(T, j)
         /\ Entries(T2)
         /\ l2 \in [Ids -> Nat] /\ \A j \in Ids : j # new => l2[j] = l[j]
         /\ R \subseteq R2 /\ \A r \in R2 : r \in R \/ r.id = new
         /\ ~InT(T, R, new) /\ (InT(T2, R2, new) <=> R2 = R)
         /\ \A j : j # new => (InT(T2, R2, j) <=> InT(T, R, j))
         /\ \A j : j # new => (InC(T2, R2, z, j) <=> InC(T, R, z, j))
         /\ \A j \in Ids : j # new /\ HasSep(T, R, z, l, j) => HasSep(T2, R2, z, l2, j)
         /\ \A j \in Ids : j # new /\ Sepd(T, R, z, l, j) => Sepd(T2, R2, z, l2, j)
<1>1. /\ new \in Ids /\ T[new].type = "none" /\ Whole(m) /\ m.type = "base" /\ Live(m) = m
      /\ T2 = [T EXCEPT ![new] = m]
  BY DEF FreshWrite, Live
<1>2. T = [j \in Ids |-> T[j]] /\ \A j \in Ids : Entry(T[j])
  BY DEF Struct, Entries
<1>3. /\ T2[new] = m /\ N(T2, new) = m
      /\ \A j \in Ids : j # new => T2[j] = T[j] /\ N(T2, j) = N(T, j)
  BY <1>1, <1>2 DEF N
<1>4. Entries(T2)
  BY <1>1, <1>2, <1>3 DEF Entries, Entry
<1>5. l \in [Ids -> Nat] /\ top \in Ids
  BY DEF Struct, Levels, Ends, InC, InT
<1>6. l2 \in [Ids -> Nat] /\ \A j \in Ids : j # new => l2[j] = l[j]
  BY <1>1, <1>5 DEF FreshWrite
<1> DEFINE rec == [id |-> new, until |-> U]
<1>7. rec.id = new /\ (R2 = R \/ R2 = R \cup {rec})
  BY DEF FreshWrite
<1> HIDE DEF rec
<1>8. R \subseteq R2 /\ \A r \in R2 : r \in R \/ r.id = new
  BY <1>7
<1>9. \A r \in R : r.id # new
  BY <1>1 DEF Struct, RetiredOK
<1>10. ~InT(T, R, new) /\ (InT(T2, R2, new) <=> R2 = R)
  BY <1>1, <1>3, <1>7, <1>9 DEF InT
<1>11. \A j : j # new => (InT(T2, R2, j) <=> InT(T, R, j))
  BY <1>3, <1>8 DEF InT
<1>12. z[new] = Nil
  BY <1>1, <1>10 DEF Struct, Zombies, Merged
<1>13. \A j : j # new => (InC(T2, R2, z, j) <=> InC(T, R, z, j))
  BY <1>11 DEF InC
<1>14. ASSUME NEW j \in Ids, j # new, HasSep(T, R, z, l, j) PROVE HasSep(T2, R2, z, l2, j)
  <2>1. PICK p \in Ids : InC(T, R, z, p) /\ l[p] = l[j] + 1 /\ <<N(T, j).low, j>> \in N(T, p).items
    BY <1>14 DEF HasSep
  <2>2. p # new
    BY <1>10, <2>1 DEF InC
  <2> QED BY <1>3, <1>6, <1>13, <1>14, <2>1, <2>2 DEF HasSep
<1>15. \A j \in Ids : j # new /\ Sepd(T, R, z, l, j) => Sepd(T2, R2, z, l2, j)
  BY <1>13, <1>14 DEF Sepd
<1> QED BY <1>1, <1>3, <1>4, <1>6, <1>8, <1>10, <1>11, <1>12, <1>13, <1>14, <1>15

(* What a thread follows is where it was after a new root.                  *)
LEMMA FreshEvolve ==
  ASSUME NEW T, NEW R, NEW z, NEW l, NEW top, Struct(T, R, z, l, top),
         NEW new, NEW m, NEW U, NEW T2, NEW R2, NEW l2, NEW top2,
         FreshWrite(T, R, z, l, top, new, m, U, T2, R2, l2, top2), NEW t
  PROVE  Evolve(T, R, z, l, T2, R2, z, l2, t)
<1> SUFFICES ASSUME NEW j \in Ids, Guarded(T, R, t, j)
             PROVE  /\ Guarded(T2, R2, t, j)
                    /\ N(T2, j).low = N(T, j).low /\ l2[j] = l[j]
                    /\ T[j].type = "remove" => T2[j] = T[j]
                    /\ Sepd(T, R, z, l, j) => Sepd(T2, R2, z, l2, j)
  BY DEF Evolve
<1>1. j # new
  BY FreshFrame DEF Guarded
<1>2. T2[j] = T[j]
  BY <1>1, FreshFrame
<1>3. \A r \in R2 : r.id = j => r \in R
  BY <1>1, FreshFrame
<1>4. Guarded(T2, R2, t, j)
  BY <1>2, <1>3 DEF Guarded
<1> QED BY <1>1, <1>2, <1>4, FreshFrame

(* A new root keeps the shape of the tree.                                  *)
LEMMA FreshStep ==
  ASSUME NEW T, NEW R, NEW z, NEW l, NEW top, Struct(T, R, z, l, top),
         NEW new, NEW m, NEW U, NEW T2, NEW R2, NEW l2, NEW top2,
         FreshWrite(T, R, z, l, top, new, m, U, T2, R2, l2, top2)
  PROVE  Struct(T2, R2, z, l2, top2)
<1> DEFINE rec == [id |-> new, until |-> U]
<1>c. /\ R2 = R => /\ l2 = [l EXCEPT ![new] = l[top] + 1] /\ top2 = new
                   /\ ~m.leaf /\ m.low = 0 /\ m.next = Nil
                   /\ \A s \in m.items :
                        InC(T, R, z, s[2]) /\ N(T, s[2]).low = s[1] /\ l[s[2]] = l[top]
      /\ R2 # R => R2 = R \cup {rec} /\ top2 = top
  <2>1. \A r \in R : r.id # new
    BY DEF FreshWrite, Struct, RetiredOK
  <2>2. rec.id = new
    OBVIOUS
  <2>3. R \cup {rec} # R
    BY <2>1, <2>2
  <2> QED BY <2>3 DEF FreshWrite
<1> USE FreshFrame
<1>a. /\ top \in Ids /\ InT(T, R, top) /\ T[top].type # "remove" /\ l[top] \in Nat
      /\ l \in [Ids -> Nat] /\ top # new
  <2>1. top \in Ids /\ InT(T, R, top) /\ l[top] \in Nat /\ l \in [Ids -> Nat]
    BY DEF Struct, Levels, Ends, InC, InT
  <2>2. T[top].type # "remove"
    BY <2>1 DEF Struct, Levels
  <2> QED BY <2>1, <2>2
<1>b. \A j : InC(T, R, z, j) => j \in Ids /\ j # new /\ InT(T, R, j)
  BY DEF InC, InT
<1>d. \A j : InT(T, R, j) => j \in Ids /\ j # new
  BY DEF InT
<1>e. InT(T2, R2, new) => l2[new] = l[top] + 1 /\ l2[top] = l[top]
  BY <1>a, <1>c
<1>1. Entries(T2)
  OBVIOUS
<1>2. Links(T2, R2, z, l2)
  <2> SUFFICES ASSUME NEW j \in Ids, InT(T2, R2, j), N(T2, j).next # Nil
               PROVE  /\ InC(T2, R2, z, N(T2, j).next) /\ l2[N(T2, j).next] = l2[j]
                      /\ N(T2, N(T2, j).next).low = N(T2, j).high
    BY DEF Links
  <2>1. j # new
    BY <1>c
  <2>2. /\ InC(T, R, z, N(T, j).next) /\ l[N(T, j).next] = l[j]
        /\ N(T, N(T, j).next).low = N(T, j).high
    BY <2>1 DEF Struct, Links
  <2> QED BY <1>b, <2>1, <2>2
<1>3. Levels(T2, R2, l2, top2)
  <2>1. CASE R2 = R
    <3>1. top2 = new /\ l2[new] = l[top] + 1 /\ ~m.leaf
      BY <1>c, <1>a, <2>1
    <3>2. \A j \in Ids : InT(T2, R2, j) => (N(T2, j).leaf <=> l2[j] = 0) /\ l2[j] <= l2[top2]
      <4> SUFFICES ASSUME NEW j \in Ids, InT(T2, R2, j)
                   PROVE  (N(T2, j).leaf <=> l2[j] = 0) /\ l2[j] <= l2[top2]
        OBVIOUS
      <4>1. CASE j = new
        BY <1>a, <3>1, <4>1
      <4>2. CASE j # new
        <5>1. (N(T, j).leaf <=> l[j] = 0) /\ l[j] <= l[top] /\ l[j] \in Nat
          BY <4>2 DEF Struct, Levels
        <5> QED BY <1>a, <3>1, <4>2, <5>1
      <4> QED BY <4>1, <4>2
    <3>3. \A j \in Ids : T2[j].type = "remove" => l2[j] < l2[top2]
      <4> SUFFICES ASSUME NEW j \in Ids, T2[j].type = "remove" PROVE l2[j] < l2[top2]
        OBVIOUS
      <4>1. j # new /\ l[j] < l[top] /\ l[j] \in Nat
        BY DEF Struct, Levels
      <4> QED BY <1>a, <3>1, <4>1
    <3> QED BY <3>2, <3>3 DEF Levels
  <2>2. CASE R2 # R
    <3>1. top2 = top /\ ~InT(T2, R2, new)
      BY <1>c, <2>2
    <3>2. \A j \in Ids : T2[j].type = "remove" => T[j].type = "remove" /\ j # new
      OBVIOUS
    <3> QED BY <1>a, <3>1, <3>2 DEF Struct, Levels
  <2> QED BY <2>1, <2>2
<1>4. Apart(T2, R2, z, l2)
  <2> SUFFICES ASSUME NEW j \in Ids, NEW h \in Ids, InC(T2, R2, z, j), InC(T2, R2, z, h), l2[j] = l2[h], j # h
               PROVE  N(T2, j).high <= N(T2, h).low \/ N(T2, h).high <= N(T2, j).low
    BY DEF Apart
  <2>1. \A q \in Ids : q # new /\ InC(T2, R2, z, q) => l2[q] <= l[top] /\ l2[q] \in Nat
    BY DEF Struct, Levels, InC
  <2>2. j # new
    BY <1>a, <1>e, <2>1 DEF InC
  <2>3. h # new
    BY <1>a, <1>e, <2>1 DEF InC
  <2> QED BY <2>2, <2>3 DEF Struct, Apart
<1>5. Targets(T2, R2, l2)
  <2> SUFFICES ASSUME NEW j \in Ids, InT(T2, R2, j), ~N(T2, j).leaf, NEW x \in N(T2, j).items
               PROVE  InT(T2, R2, x[2]) /\ N(T2, x[2]).low = x[1] /\ l2[x[2]] + 1 = l2[j]
    BY DEF Targets
  <2>1. InT(T, R, x[2]) /\ N(T, x[2]).low = x[1] /\ l[x[2]] + 1 = l2[j]
    <3>1. CASE j = new
      <4>1. InC(T, R, z, x[2]) /\ N(T, x[2]).low = x[1] /\ l[x[2]] = l[top]
        BY <1>c, <3>1
      <4> QED BY <1>b, <1>e, <3>1, <4>1
    <3>2. CASE j # new
      BY <3>2 DEF Struct, Targets
    <3> QED BY <3>1, <3>2
  <2> QED BY <1>d, <2>1
<1>6. Zombies(T2, R2, z, l2)
  <2>1. z \in [Ids -> Ids \cup {Nil}]
    BY DEF Struct, Zombies
  <2> SUFFICES ASSUME NEW j \in Ids, z[j] # Nil
               PROVE  Merged(T2, R2, z, l2, j)
    BY <2>1 DEF Zombies
  <2>2. Merged(T, R, z, l, j)
    BY DEF Struct, Zombies
  <2>3. z[j] \in Ids /\ z[j] # new /\ j # new
    BY <1>b, <2>2 DEF Merged
  <2>4. N(T2, z[j]) = N(T, z[j]) /\ T2[j] = T[j] /\ N(T2, j) = N(T, j)
    BY <2>3
  <2>5. HasSep(T2, R2, z, l2, j)
    BY <2>2, <2>3 DEF Merged
  <2>6. InC(T2, R2, z, z[j]) /\ InT(T2, R2, j) /\ l2[z[j]] = l2[j]
    BY <2>2, <2>3 DEF Merged
  <2> QED BY <2>2, <2>4, <2>5, <2>6 DEF Merged
<1>7. Seps(T2, R2, z, l2)
  <2> SUFFICES ASSUME NEW j \in Ids, InC(T2, R2, z, j), N(T2, j).next # Nil, N(T2, j).type # "split"
               PROVE  Sepd(T2, R2, z, l2, N(T2, j).next)
    BY DEF Seps
  <2>1. j # new
    BY <1>c DEF InC
  <2>2. Sepd(T, R, z, l, N(T, j).next)
    BY <2>1 DEF Struct, Seps
  <2>3. InC(T, R, z, N(T, j).next)
    BY <1>b, <2>1 DEF Struct, Links
  <2> QED BY <1>b, <2>1, <2>2, <2>3
<1>8. LowChildren(T2, R2)
  <2> SUFFICES ASSUME NEW j \in Ids, InT(T2, R2, j), ~N(T2, j).leaf
               PROVE  T2[LowChild(N(T2, j))].type # "remove"
    BY DEF LowChildren
  <2>1. <<N(T2, j).low, LowChild(N(T2, j))>> \in N(T2, j).items
    <3>1. InnerOK(N(T2, j)) /\ N(T2, j).low \in Nat
      BY <1>1, Alloc DEF Whole, InT
    <3> QED BY <3>1, LowChildIs
  <2>2. CASE j = new
    <3>1. InC(T, R, z, LowChild(m)) /\ l[LowChild(m)] = l[top]
      BY <1>c, <2>1, <2>2
    <3>2. LowChild(m) \in Ids /\ LowChild(m) # new
      BY <1>b, <3>1
    <3>3. T[LowChild(m)].type # "remove"
      BY <1>a, <3>1, <3>2 DEF Struct, Levels
    <3> QED BY <2>2, <3>2, <3>3
  <2>3. CASE j # new
    <3>1. InT(T, R, j) /\ N(T2, j) = N(T, j) /\ LowChild(N(T2, j)) = LowChild(N(T, j))
      BY <2>3
    <3>2. InT(T, R, LowChild(N(T, j)))
      BY <2>1, <3>1 DEF Struct, Targets
    <3>3. T[LowChild(N(T, j))].type # "remove"
      BY <3>1 DEF Struct, LowChildren
    <3> QED BY <1>d, <3>1, <3>2, <3>3
  <2> QED BY <2>2, <2>3
<1>9. Ends(T2, R2, z, l2, top2)
  <2>1. InC(T2, R2, z, top2) /\ N(T2, top2).low = 0
    <3>1. CASE R2 = R
      BY <1>c, <3>1 DEF InC
    <3>2. CASE R2 # R
      BY <1>a, <1>c, <3>2 DEF Struct, Ends
    <3> QED BY <3>1, <3>2
  <2>2. InC(T, R, z, FirstLeaf) /\ l[FirstLeaf] = 0 /\ N(T, FirstLeaf).low = 0
    BY DEF Struct, Ends
  <2> QED BY <1>b, <2>1, <2>2 DEF Ends
<1>10. RetiredOK(T2, R2)
  <2>1. \A r \in R2 : r \in R \/ r = rec
    BY <1>c
  <2>2. \A r \in R : r = [id |-> r.id, until |-> r.until] /\ r.id \in Ids /\ r.id # new /\ T[r.id].type # "none"
    BY DEF Struct, RetiredOK
  <2>3. rec = [id |-> rec.id, until |-> rec.until] /\ rec.id = new
    OBVIOUS
  <2> HIDE DEF rec
  <2>4. \A r \in R2 : r = [id |-> r.id, until |-> r.until] /\ r.id \in Ids /\ T2[r.id].type # "none"
    BY <2>1, <2>2, <2>3
  <2>5. ASSUME NEW r \in R2, NEW q \in R2, r.id = q.id PROVE r = q
    BY <2>1, <2>2, <2>3, <2>5 DEF Struct, RetiredOK
  <2> QED BY <2>4, <2>5 DEF RetiredOK
<1>11. RetiredRefs(T2, R2, l2)
  <2> SUFFICES ASSUME NEW r \in R2, T2[r.id].type = "remove", NEW t \in r.until
               PROVE  NodeRefs(T2, R2, l2, t, N(T2, r.id), l2[r.id])
    BY DEF RetiredRefs
  <2>1. r \in R /\ r.id \in Ids /\ r.id # new
    BY DEF Struct, RetiredOK
  <2>2. NodeRefs(T, R, l, t, N(T, r.id), l[r.id])
    BY <2>1 DEF Struct, RetiredRefs
  <2>3. Evolve(T, R, z, l, T2, R2, z, l2, t)
    BY FreshEvolve
  <2>4. NodeRefs(T2, R2, l2, t, N(T, r.id), l[r.id])
    BY <2>2, <2>3, RefsEvolve
  <2> QED BY <2>1, <2>4
<1> QED BY <1>1, <1>2, <1>3, <1>4, <1>5, <1>6, <1>7, <1>8, <1>9, <1>10, <1>11 DEF Struct
-----------------------------------------------------------------------------
(* A retired NodeID nobody waits for is given back.                         *)
FreedWrite(T, R, r, T2, R2) ==
  /\ r \in R /\ r.until = {}
  /\ T2 = [T EXCEPT ![r.id] = None] /\ R2 = R \ {r}

(* Giving back a NodeID no thread waits for: what changes, and what does    *)
(* not.                                                                     *)
LEMMA FreedFrame ==
  ASSUME NEW T, NEW R, NEW z, NEW l, NEW top, Struct(T, R, z, l, top),
         NEW r, NEW T2, NEW R2, FreedWrite(T, R, r, T2, R2)
  PROVE  /\ r.id \in Ids /\ T[r.id].type # "none" /\ z[r.id] = Nil /\ T2[r.id] = None
         /\ \A j \in Ids : j # r.id => T2[j] = T[j] /\ N(T2, j) = N(T, j)
         /\ Entries(T2)
         /\ \A q \in R : r.id = q.id => r = q
         /\ \A q \in R2 : q \in R /\ q.id # r.id
         /\ ~InT(T, R, r.id)
         /\ \A j : InT(T2, R2, j) <=> InT(T, R, j)
         /\ \A j : InC(T2, R2, z, j) <=> InC(T, R, z, j)
         /\ \A j \in Ids : j # r.id /\ HasSep(T, R, z, l, j) => HasSep(T2, R2, z, l, j)
         /\ \A j \in Ids : j # r.id /\ Sepd(T, R, z, l, j) => Sepd(T2, R2, z, l, j)
<1>1. /\ r \in R /\ r.id \in Ids /\ T[r.id].type # "none"
      /\ T2 = [T EXCEPT ![r.id] = None] /\ R2 = R \ {r}
      /\ \A q \in R : r.id = q.id => r = q
  BY DEF FreedWrite, Struct, RetiredOK
<1>2. T = [j \in Ids |-> T[j]] /\ \A j \in Ids : Entry(T[j])
  BY DEF Struct, Entries
<1>3. T2[r.id] = None /\ \A j \in Ids : j # r.id => T2[j] = T[j] /\ N(T2, j) = N(T, j)
  BY <1>1, <1>2 DEF N
<1>4. Entries(T2)
  BY <1>1, <1>2, <1>3 DEF Entries, Entry
<1>5. \A q \in R2 : q \in R /\ q.id # r.id
  BY <1>1
<1>6. ~InT(T, R, r.id)
  BY <1>1 DEF InT
<1>7. None.type = "none"
  BY DEF None, Node
<1>8. \A j : InT(T2, R2, j) <=> InT(T, R, j)
  <2> SUFFICES ASSUME NEW j PROVE InT(T2, R2, j) <=> InT(T, R, j)
    OBVIOUS
  <2>1. CASE j = r.id
    BY <1>3, <1>6, <1>7, <2>1 DEF InT
  <2>2. CASE j # r.id
    <3>1. (\A q \in R2 : q.id # j) <=> (\A q \in R : q.id # j)
      BY <1>1, <2>2
    <3> QED BY <1>3, <2>2, <3>1 DEF InT
  <2> QED BY <2>1, <2>2
<1>9. z[r.id] = Nil
  BY <1>1, <1>6 DEF Struct, Zombies, Merged
<1>10. \A j : InC(T2, R2, z, j) <=> InC(T, R, z, j)
  BY <1>8 DEF InC
<1>11. ASSUME NEW j \in Ids, j # r.id, HasSep(T, R, z, l, j) PROVE HasSep(T2, R2, z, l, j)
  <2>1. PICK p \in Ids : InC(T, R, z, p) /\ l[p] = l[j] + 1 /\ <<N(T, j).low, j>> \in N(T, p).items
    BY <1>11 DEF HasSep
  <2>2. p # r.id
    BY <1>6, <2>1 DEF InC
  <2> QED BY <1>3, <1>10, <1>11, <2>1, <2>2 DEF HasSep
<1>12. \A j \in Ids : j # r.id /\ Sepd(T, R, z, l, j) => Sepd(T2, R2, z, l, j)
  BY <1>10, <1>11 DEF Sepd
<1> QED BY <1>1, <1>3, <1>4, <1>5, <1>6, <1>8, <1>9, <1>10, <1>11, <1>12

(* What a thread follows is not what is given back.                         *)
LEMMA FreedEvolve ==
  ASSUME NEW T, NEW R, NEW z, NEW l, NEW top, Struct(T, R, z, l, top),
         NEW r, NEW T2, NEW R2, FreedWrite(T, R, r, T2, R2), NEW t
  PROVE  Evolve(T, R, z, l, T2, R2, z, l, t)
<1> SUFFICES ASSUME NEW j \in Ids, Guarded(T, R, t, j)
             PROVE  /\ Guarded(T2, R2, t, j)
                    /\ N(T2, j).low = N(T, j).low
                    /\ T[j].type = "remove" => T2[j] = T[j]
                    /\ Sepd(T, R, z, l, j) => Sepd(T2, R2, z, l, j)
  BY DEF Evolve
<1>1. j # r.id
  BY DEF FreedWrite, Guarded
<1>2. T2[j] = T[j] /\ N(T2, j) = N(T, j)
  BY <1>1, FreedFrame
<1>3. Guarded(T2, R2, t, j)
  BY <1>2, FreedFrame DEF Guarded
<1> QED BY <1>1, <1>2, <1>3, FreedFrame

(* Giving back a NodeID keeps the shape of the tree.                        *)
LEMMA FreedStep ==
  ASSUME NEW T, NEW R, NEW z, NEW l, NEW top, Struct(T, R, z, l, top),
         NEW r, NEW T2, NEW R2, FreedWrite(T, R, r, T2, R2)
  PROVE  Struct(T2, R2, z, l, top)
<1> USE FreedFrame
<1>a. \A j : InT(T, R, j) => j \in Ids /\ j # r.id
  BY DEF InT
<1>b. \A j : InC(T, R, z, j) => j \in Ids /\ j # r.id /\ InT(T, R, j)
  BY <1>a DEF InC
<1>d. None.type = "none"
  BY DEF None, Node
<1>1. Entries(T2)
  OBVIOUS
<1>2. Links(T2, R2, z, l)
  <2> SUFFICES ASSUME NEW j \in Ids, InT(T2, R2, j), N(T2, j).next # Nil
               PROVE  /\ InC(T2, R2, z, N(T2, j).next) /\ l[N(T2, j).next] = l[j]
                      /\ N(T2, N(T2, j).next).low = N(T2, j).high
    BY DEF Links
  <2>1. InT(T, R, j) /\ N(T2, j) = N(T, j)
    BY <1>a
  <2>2. /\ InC(T, R, z, N(T, j).next) /\ l[N(T, j).next] = l[j]
        /\ N(T, N(T, j).next).low = N(T, j).high
    BY <2>1 DEF Struct, Links
  <2> QED BY <1>b, <2>1, <2>2
<1>3. Levels(T2, R2, l, top)
  <2>1. \A j \in Ids : T2[j].type = "remove" => T[j].type = "remove"
    BY <1>d
  <2>2. \A j \in Ids : InT(T2, R2, j) => InT(T, R, j) /\ N(T2, j) = N(T, j)
    BY <1>a
  <2> QED BY <2>1, <2>2 DEF Struct, Levels
<1>4. Apart(T2, R2, z, l)
  <2>1. \A j \in Ids : InC(T2, R2, z, j) => InC(T, R, z, j) /\ N(T2, j) = N(T, j)
    BY <1>b
  <2> QED BY <2>1 DEF Struct, Apart
<1>5. Targets(T2, R2, l)
  <2> SUFFICES ASSUME NEW j \in Ids, InT(T2, R2, j), ~N(T2, j).leaf, NEW x \in N(T2, j).items
               PROVE  InT(T2, R2, x[2]) /\ N(T2, x[2]).low = x[1] /\ l[x[2]] + 1 = l[j]
    BY DEF Targets
  <2>1. InT(T, R, j) /\ N(T2, j) = N(T, j)
    BY <1>a
  <2>2. InT(T, R, x[2]) /\ N(T, x[2]).low = x[1] /\ l[x[2]] + 1 = l[j]
    BY <2>1 DEF Struct, Targets
  <2> QED BY <1>a, <2>2
<1>6. Zombies(T2, R2, z, l)
  <2>1. z \in [Ids -> Ids \cup {Nil}]
    BY DEF Struct, Zombies
  <2> SUFFICES ASSUME NEW j \in Ids, z[j] # Nil
               PROVE  Merged(T2, R2, z, l, j)
    BY <2>1 DEF Zombies
  <2>2. Merged(T, R, z, l, j)
    BY DEF Struct, Zombies
  <2>3. z[j] \in Ids /\ z[j] # r.id /\ j # r.id
    BY <1>a, <1>b, <2>2 DEF Merged
  <2>4. N(T2, z[j]) = N(T, z[j]) /\ T2[j] = T[j] /\ N(T2, j) = N(T, j)
    BY <2>3
  <2>5. HasSep(T2, R2, z, l, j)
    BY <2>2, <2>3 DEF Merged
  <2>6. InC(T2, R2, z, z[j]) /\ InT(T2, R2, j)
    BY <2>2 DEF Merged
  <2> QED BY <2>2, <2>4, <2>5, <2>6 DEF Merged
<1>7. Seps(T2, R2, z, l)
  <2> SUFFICES ASSUME NEW j \in Ids, InC(T2, R2, z, j), N(T2, j).next # Nil, N(T2, j).type # "split"
               PROVE  Sepd(T2, R2, z, l, N(T2, j).next)
    BY DEF Seps
  <2>1. InC(T, R, z, j) /\ N(T2, j) = N(T, j) /\ InT(T, R, j)
    BY <1>b
  <2>2. Sepd(T, R, z, l, N(T, j).next)
    BY <2>1 DEF Struct, Seps
  <2>3. InC(T, R, z, N(T, j).next)
    BY <2>1 DEF Struct, Links
  <2> QED BY <1>b, <2>1, <2>2, <2>3
<1>8. LowChildren(T2, R2)
  <2> SUFFICES ASSUME NEW j \in Ids, InT(T2, R2, j), ~N(T2, j).leaf
               PROVE  T2[LowChild(N(T2, j))].type # "remove"
    BY DEF LowChildren
  <2>1. InT(T, R, j) /\ N(T2, j) = N(T, j)
    BY <1>a
  <2>2. <<N(T, j).low, LowChild(N(T, j))>> \in N(T, j).items
    <3>1. InnerOK(N(T, j)) /\ N(T, j).low \in Nat
      BY <2>1, Alloc DEF Whole, InT, Struct
    <3> QED BY <3>1, LowChildIs
  <2>3. InT(T, R, LowChild(N(T, j)))
    BY <2>1, <2>2 DEF Struct, Targets
  <2>4. T[LowChild(N(T, j))].type # "remove"
    BY <2>1 DEF Struct, LowChildren
  <2> QED BY <1>a, <2>1, <2>3, <2>4
<1>9. Ends(T2, R2, z, l, top)
  BY <1>b DEF Struct, Ends
<1>10. RetiredOK(T2, R2)
  BY DEF Struct, RetiredOK
<1>11. RetiredRefs(T2, R2, l)
  <2> SUFFICES ASSUME NEW q \in R2, T2[q.id].type = "remove", NEW t \in q.until
               PROVE  NodeRefs(T2, R2, l, t, N(T2, q.id), l[q.id])
    BY DEF RetiredRefs
  <2>1. q \in R /\ q.id \in Ids /\ q.id # r.id
    BY DEF Struct, RetiredOK
  <2>2. NodeRefs(T, R, l, t, N(T, q.id), l[q.id])
    BY <2>1 DEF Struct, RetiredRefs
  <2>3. Evolve(T, R, z, l, T2, R2, z, l, t)
    BY FreedEvolve
  <2>4. NodeRefs(T2, R2, l, t, N(T, q.id), l[q.id])
    BY <2>2, <2>3, RefsEvolve
  <2> QED BY <2>1, <2>4
<1> QED BY <1>1, <1>2, <1>3, <1>4, <1>5, <1>6, <1>7, <1>8, <1>9, <1>10, <1>11 DEF Struct
-----------------------------------------------------------------------------
(* A thread leaves: nothing waits for it any more.                          *)
Without(R, t) == {[r EXCEPT !.until = @ \ {t}] : r \in R}

(* The retired NodeIDs after a thread left are those before.                *)
LEMMA WithoutFrame ==
  ASSUME NEW T, NEW R, RetiredOK(T, R), NEW t
  PROVE  /\ \A q \in Without(R, t) : \E r \in R :
              /\ q = [r EXCEPT !.until = @ \ {t}] /\ q = [id |-> r.id, until |-> r.until \ {t}]
              /\ q.id = r.id /\ q.until = r.until \ {t}
         /\ \A r \in R : \E q \in Without(R, t) : q.id = r.id /\ q.until = r.until \ {t}
<1>1. ASSUME NEW r \in R, NEW q, q = [r EXCEPT !.until = @ \ {t}]
      PROVE  q = [id |-> r.id, until |-> r.until \ {t}] /\ q.id = r.id /\ q.until = r.until \ {t}
  <2>1. r = [id |-> r.id, until |-> r.until]
    BY DEF RetiredOK
  <2> QED BY <1>1, <2>1
<1>2. ASSUME NEW q \in Without(R, t)
      PROVE  \E r \in R :
              /\ q = [r EXCEPT !.until = @ \ {t}] /\ q = [id |-> r.id, until |-> r.until \ {t}]
              /\ q.id = r.id /\ q.until = r.until \ {t}
  <2>1. PICK r \in R : q = [r EXCEPT !.until = @ \ {t}]
    BY <1>2 DEF Without
  <2> QED BY <1>1, <2>1
<1>3. ASSUME NEW r \in R PROVE \E q \in Without(R, t) : q.id = r.id /\ q.until = r.until \ {t}
  <2>1. [r EXCEPT !.until = @ \ {t}] \in Without(R, t)
    BY DEF Without
  <2> QED BY <1>1, <2>1
<1> QED BY <1>2, <1>3

(* To the other threads nothing changes when one leaves.                    *)
LEMMA WithoutEvolve ==
  ASSUME NEW T, NEW R, NEW z, NEW l, RetiredOK(T, R), NEW t, NEW u, u # t
  PROVE  /\ Evolve(T, R, z, l, T, Without(R, t), z, l, u)
         /\ \A j : InT(T, Without(R, t), j) <=> InT(T, R, j)
         /\ \A j : InC(T, Without(R, t), z, j) <=> InC(T, R, z, j)
<1> DEFINE R2 == Without(R, t)
<1>1. /\ \A q \in R2 : \E r \in R : q.id = r.id /\ q.until = r.until \ {t}
      /\ \A r \in R : \E q \in R2 : q.id = r.id
  BY WithoutFrame
<1> HIDE DEF R2
<1>2. \A j : InT(T, R2, j) <=> InT(T, R, j)
  BY <1>1 DEF InT
<1>3. \A j : InC(T, R2, z, j) <=> InC(T, R, z, j)
  BY <1>2 DEF InC
<1>4. \A j : Guarded(T, R, u, j) => Guarded(T, R2, u, j)
  BY <1>1 DEF Guarded
<1>5. \A j : Sepd(T, R, z, l, j) => Sepd(T, R2, z, l, j)
  BY <1>3 DEF Sepd, HasSep
<1>6. Evolve(T, R, z, l, T, R2, z, l, u)
  BY <1>4, <1>5 DEF Evolve
<1> QED BY <1>2, <1>3, <1>6 DEF R2

(* The shape of the tree stays when a thread leaves.                        *)
LEMMA WithoutStep ==
  ASSUME NEW T, NEW R, NEW z, NEW l, NEW top, Struct(T, R, z, l, top), NEW t
  PROVE  Struct(T, Without(R, t), z, l, top)
<1> DEFINE R2 == Without(R, t)
<1>1. RetiredOK(T, R)
  BY DEF Struct
<1>2. /\ \A q \in R2 : \E r \in R : q = [id |-> r.id, until |-> r.until \ {t}]
                                     /\ q.id = r.id /\ q.until = r.until \ {t}
      /\ \A r \in R : \E q \in R2 : q.id = r.id
  BY <1>1, WithoutFrame
<1>3. (\A j : InT(T, R2, j) <=> InT(T, R, j)) /\ (\A j : InC(T, R2, z, j) <=> InC(T, R, z, j))
  <2>1. PICK u : u # t
    <3>1. {t} # t \/ {} # t
      OBVIOUS
    <3> QED BY <3>1
  <2> QED BY <1>1, <2>1, WithoutEvolve
<1>4. \A u : u # t => Evolve(T, R, z, l, T, R2, z, l, u)
  BY <1>1, WithoutEvolve
<1> HIDE DEF R2
<1>5. \A j : Sepd(T, R, z, l, j) <=> Sepd(T, R2, z, l, j)
  BY <1>3 DEF Sepd, HasSep
<1>6. \A j : HasSep(T, R, z, l, j) <=> HasSep(T, R2, z, l, j)
  BY <1>3 DEF HasSep
<1>7. Links(T, R2, z, l) /\ Levels(T, R2, l, top) /\ Apart(T, R2, z, l) /\ Targets(T, R2, l)
  BY <1>3 DEF Struct, Links, Levels, Apart, Targets
<1>8. Zombies(T, R2, z, l)
  BY <1>3, <1>6 DEF Struct, Zombies, Merged
<1>9. Seps(T, R2, z, l) /\ LowChildren(T, R2) /\ Ends(T, R2, z, l, top)
  BY <1>3, <1>5 DEF Struct, Seps, LowChildren, Ends
<1>10. RetiredOK(T, R2)
  <2>1. \A q \in R2 : q = [id |-> q.id, until |-> q.until] /\ q.id \in Ids /\ T[q.id].type # "none"
    BY <1>1, <1>2 DEF RetiredOK
  <2>2. ASSUME NEW q \in R2, NEW p \in R2, q.id = p.id PROVE q = p
    <3>1. PICK r \in R : q = [id |-> r.id, until |-> r.until \ {t}] /\ q.id = r.id
      BY <1>2
    <3>2. PICK s \in R : p = [id |-> s.id, until |-> s.until \ {t}] /\ p.id = s.id
      BY <1>2
    <3>3. r = s
      BY <1>1, <2>2, <3>1, <3>2 DEF RetiredOK
    <3> QED BY <3>1, <3>2, <3>3
  <2> QED BY <2>1, <2>2 DEF RetiredOK
<1>11. RetiredRefs(T, R2, l)
  <2> SUFFICES ASSUME NEW q \in R2, T[q.id].type = "remove", NEW u \in q.until
               PROVE  NodeRefs(T, R2, l, u, N(T, q.id), l[q.id])
    BY DEF RetiredRefs
  <2>1. PICK r \in R : q.id = r.id /\ q.until = r.until \ {t}
    BY <1>2
  <2>2. u # t /\ NodeRefs(T, R, l, u, N(T, q.id), l[q.id])
    BY <2>1 DEF Struct, RetiredRefs
  <2>3. Evolve(T, R, z, l, T, R2, z, l, u)
    BY <1>4, <2>2
  <2> QED BY <2>2, <2>3, RefsEvolve
<1> QED BY <1>7, <1>8, <1>9, <1>10, <1>11 DEF Struct, R2

(* What evolves by two writes evolves.                                      *)
LEMMA EvolveTwice ==
  ASSUME NEW T, NEW R, NEW z, NEW l, NEW T2, NEW R2, NEW z2, NEW l2, NEW T3, NEW R3, NEW z3, NEW l3,
         NEW t, Evolve(T, R, z, l, T2, R2, z2, l2, t), Evolve(T2, R2, z2, l2, T3, R3, z3, l3, t)
  PROVE  Evolve(T, R, z, l, T3, R3, z3, l3, t)
<1> SUFFICES ASSUME NEW i \in Ids, Guarded(T, R, t, i)
             PROVE  /\ Guarded(T3, R3, t, i)
                    /\ N(T3, i).low = N(T, i).low /\ l3[i] = l[i]
                    /\ T[i].type = "remove" => T3[i] = T[i]
                    /\ Sepd(T, R, z, l, i) => Sepd(T3, R3, z3, l3, i)
  BY DEF Evolve
<1>1. /\ Guarded(T2, R2, t, i) /\ N(T2, i).low = N(T, i).low /\ l2[i] = l[i]
      /\ T[i].type = "remove" => T2[i] = T[i]
      /\ Sepd(T, R, z, l, i) => Sepd(T2, R2, z2, l2, i)
  BY DEF Evolve
<1>2. /\ Guarded(T3, R3, t, i) /\ N(T3, i).low = N(T2, i).low /\ l3[i] = l2[i]
      /\ T2[i].type = "remove" => T3[i] = T2[i]
      /\ Sepd(T2, R2, z2, l2, i) => Sepd(T3, R3, z3, l3, i)
  BY <1>1 DEF Evolve
<1> QED BY <1>1, <1>2
-----------------------------------------------------------------------------
(* The two halves of a node that is too large *)

(* Every set of numbers has a least one.                                    *)
LEMMA LeastOf ==
  ASSUME NEW S \in SUBSET Nat, S # {}
  PROVE  \E x \in S : \A y \in S : x <= y
<1>1. \E x \in S : \A y \in S : ~(<<y, x>> \in OpToRel(<, Nat))
  BY NatLessThanWellFounded, WFMin
<1>2. \A x, y \in Nat : y < x => <<y, x>> \in OpToRel(<, Nat)
  BY DEF OpToRel
<1>3. PICK x \in S : \A y \in S : ~(y < x)
  BY <1>1, <1>2
<1> QED BY <1>3

(* The items of a node are finitely many, in order of their keys.           *)
LEMMA ItemsFinite ==
  ASSUME NEW n, Whole(n)
  PROVE  /\ IsFiniteSet(n.items)
         /\ \A x \in n.items : /\ SortKey(n, x) \in Nat
                               /\ n.low <= SortKey(n, x) /\ SortKey(n, x) < n.high
         /\ \A x, y \in n.items : SortKey(n, x) = SortKey(n, y) => x = y
<1>1. NumKeys \in Nat /\ NumIds \in Nat /\ Inf \in Nat
  BY SizeAssumption DEF Inf
<1>2. CASE n.leaf
  <2>a. IsFiniteSet(Keys)
    BY <1>1, FS_Interval DEF Keys
  <2>1. n.items \subseteq Keys /\ IsFiniteSet(Keys)
    BY <1>2, <2>a DEF Whole
  <2>2. IsFiniteSet(n.items)
    BY <2>1, FS_Subset
  <2> QED BY <1>1, <1>2, <2>1, <2>2 DEF Whole, SortKey, Keys
<1>3. CASE ~n.leaf
  <2>1. InnerOK(n) /\ n.high \in Nat /\ n.high <= Inf
    BY <1>3 DEF Whole
  <2>2. IsFiniteSet((0 .. Inf) \X Ids)
    <3>1. IsFiniteSet(0 .. Inf)
      BY <1>1, FS_Interval
    <3>2. IsFiniteSet(Ids)
      BY <1>1, FS_Interval DEF Ids
    <3> QED BY <3>1, <3>2, FS_Product
  <2>3. n.items \subseteq (0 .. Inf) \X Ids
    <3> SUFFICES ASSUME NEW x \in n.items PROVE x \in (0 .. Inf) \X Ids
      OBVIOUS
    <3>1. x = <<x[1], x[2]>> /\ x[1] \in Nat /\ x[2] \in Ids /\ x[1] < n.high
      BY <2>1 DEF InnerOK
    <3>2. x[1] \in 0 .. Inf
      BY <1>1, <2>1, <3>1
    <3> QED BY <3>1, <3>2
  <2>4. IsFiniteSet(n.items)
    BY <2>2, <2>3, FS_Subset
  <2> QED BY <1>3, <2>1, <2>4 DEF InnerOK, SortKey
<1> QED BY <1>2, <1>3

(* Where a node that is too large is split lies inside it, with an item     *)
(* there.                                                                   *)
LEMMA Halves ==
  ASSUME NEW n, Whole(n), TooLarge(n)
  PROVE  /\ SplitKey(n) \in Nat /\ n.low < SplitKey(n) /\ SplitKey(n) < n.high
         /\ Moved(n) \subseteq n.items
         /\ \A x \in Moved(n) : SplitKey(n) <= SortKey(n, x)
         /\ \A x \in n.items \ Moved(n) : SortKey(n, x) < SplitKey(n)
         /\ \E x \in Moved(n) : SortKey(n, x) = SplitKey(n)
<1> DEFINE K(x) == SortKey(n, x)
           Below(x) == {y \in n.items : K(y) < K(x)}
           c == Cardinality(n.items)
           S == {K(x) : x \in Moved(n)}
<1>1. /\ IsFiniteSet(n.items) /\ c \in Nat
      /\ \A x \in n.items : K(x) \in Nat /\ n.low <= K(x) /\ K(x) < n.high
      /\ \A x, y \in n.items : K(x) = K(y) => x = y
      /\ n.low \in Nat /\ n.high \in Nat
  BY ItemsFinite, FS_CardinalityType DEF Whole
<1>2. c >= 2
  <2>1. LeafUpper >= 2 /\ InnerUpper >= 3 /\ LeafUpper \in Nat /\ InnerUpper \in Nat
    BY SizeAssumption
  <2> QED BY <1>1, <2>1 DEF TooLarge, Size
<1>3. \A x : x \in Moved(n) <=> x \in n.items /\ Cardinality(Below(x)) >= c \div 2
  BY DEF Moved
<1>4. ASSUME NEW x \in n.items PROVE IsFiniteSet(Below(x)) /\ Cardinality(Below(x)) \in Nat
  BY <1>1, FS_Subset, FS_CardinalityType
<1> HIDE DEF K, Below, c
<1>5. c \div 2 \in Nat /\ c \div 2 > 0 /\ c \div 2 <= c - 1
  BY <1>1, <1>2
<1>6. n.items # {}
  <2>1. c = 0 <=> n.items = {}
    BY <1>1, FS_EmptySet DEF c
  <2> QED BY <1>2, <2>1
<1>7. PICK a \in n.items : \A y \in n.items : K(a) <= K(y)
  <2> DEFINE A == {K(y) : y \in n.items}
  <2>1. A \in SUBSET Nat /\ A # {}
    BY <1>1, <1>6
  <2>2. \E k \in A : \A m \in A : k <= m
    <3> HIDE DEF A
    <3> QED BY <2>1, LeastOf
  <2> QED BY <2>2
<1>8. PICK b \in n.items : \A y \in n.items : K(y) <= K(b)
  <2> DEFINE A == {n.high - K(y) : y \in n.items}
  <2>1. A \in SUBSET Nat /\ A # {}
    BY <1>1, <1>6
  <2>2. \E k \in A : \A m \in A : k <= m
    <3> HIDE DEF A
    <3> QED BY <2>1, LeastOf
  <2>3. PICK b \in n.items : \A y \in n.items : n.high - K(b) <= n.high - K(y)
    BY <2>2
  <2> QED BY <1>1, <2>3
<1>9. a \notin Moved(n)
  <2>1. Below(a) = {}
    BY <1>1, <1>7 DEF Below
  <2>2. Cardinality(Below(a)) = 0
    BY <2>1, FS_EmptySet
  <2> QED BY <1>3, <1>5, <2>2
<1>10. b \in Moved(n)
  <2>1. Below(b) = n.items \ {b}
    <3>1. \A y \in n.items : y # b => K(y) < K(b)
      BY <1>1, <1>8
    <3>2. ~(K(b) < K(b))
      BY <1>1
    <3> QED BY <3>1, <3>2 DEF Below
  <2>2. Cardinality(Below(b)) = c - 1
    BY <1>1, <2>1, FS_RemoveElement DEF c
  <2> QED BY <1>3, <1>5, <2>2
<1>11. ASSUME NEW x \in Moved(n), NEW y \in n.items, K(x) <= K(y) PROVE y \in Moved(n)
  <2>1. x \in n.items
    BY <1>3
  <2>2. Below(x) \subseteq Below(y)
    BY <1>1, <1>11, <2>1 DEF Below
  <2>3. Cardinality(Below(x)) <= Cardinality(Below(y))
    BY <1>4, <2>2, FS_Subset
  <2>4. Cardinality(Below(x)) \in Nat /\ Cardinality(Below(y)) \in Nat
    BY <1>4, <2>1
  <2> QED BY <1>3, <1>5, <2>1, <2>3, <2>4
<1>12. S \in SUBSET Nat /\ S # {}
  BY <1>1, <1>3, <1>10
<1>13. PICK k \in S : \A m \in S : k <= m
  <2> HIDE DEF S
  <2> QED BY <1>12, LeastOf
<1>14. SplitKey(n) \in S /\ \A m \in S : SplitKey(n) <= m
  <2>1. SplitKey(n) = CHOOSE x \in S : \A y \in S : x <= y
    BY DEF SplitKey, Min, K
  <2> HIDE DEF S
  <2> QED BY <1>13, <2>1
<1>15. PICK x \in Moved(n) : K(x) = SplitKey(n)
  BY <1>14
<1>16. x \in n.items /\ K(a) < K(x)
  <2>1. x \in n.items /\ x # a
    BY <1>3, <1>9
  <2> QED BY <1>1, <1>7, <2>1
<1>17. ASSUME NEW y \in n.items \ Moved(n) PROVE K(y) < SplitKey(n)
  <2>1. ~(K(x) <= K(y))
    BY <1>11
  <2> QED BY <1>1, <1>15, <1>16, <2>1
<1> QED BY <1>1, <1>3, <1>12, <1>14, <1>15, <1>16, <1>17 DEF K

(* What a new node shows.                                                   *)
LEMMA NodeFields ==
  ASSUME NEW leaf, NEW type, NEW low, NEW high, NEW next, NEW items,
         NEW m, m = Node(leaf, type, low, high, next, items)
  PROVE  /\ IsNode(m) /\ m.leaf = leaf /\ m.type = type /\ m.low = low /\ m.high = high
         /\ m.next = next /\ m.items = items /\ m.smo = <<>> /\ m.under = <<>>
BY DEF Node, IsNode

(* The upper half of a node is a whole node.                                *)
LEMMA SiblingWhole ==
  ASSUME NEW n, Whole(n), TooLarge(n), NEW m, m = Sibling(n, SplitKey(n), Moved(n))
  PROVE  /\ Whole(m) /\ m.type = "base" /\ m.leaf = n.leaf /\ m.low = SplitKey(n)
         /\ m.high = n.high /\ m.next = n.next /\ m.items = Moved(n)
<1>1. /\ IsNode(m) /\ m.type = "base" /\ m.leaf = n.leaf /\ m.low = SplitKey(n)
      /\ m.high = n.high /\ m.next = n.next /\ m.items = Moved(n)
  BY NodeFields DEF Sibling
<1>2. m.leaf => \A k \in m.items : k \in Keys /\ m.low <= k /\ k < m.high
  BY <1>1, Halves DEF Whole, SortKey
<1>3. ~m.leaf => InnerOK(m)
  BY <1>1, Halves DEF Whole, SortKey, InnerOK
<1> QED BY <1>1, <1>2, <1>3, Halves DEF Whole, Plain

(* The lower half below a split record is a whole node.                     *)
LEMMA SplitWhole ==
  ASSUME NEW n, Whole(n), TooLarge(n), NEW new \in Ids,
         NEW kept, kept = n.items \ Moved(n),
         NEW m, m = Split(n, SplitKey(n), new, kept)
  PROVE  /\ Whole(m) /\ m.type = "split" /\ m.leaf = n.leaf /\ m.low = n.low
         /\ m.high = SplitKey(n) /\ m.next = new /\ m.items = kept
         /\ m.smo = <<SplitKey(n), new>>
<1>1. /\ IsNode(m) /\ m.type = "split" /\ m.leaf = n.leaf /\ m.low = n.low
      /\ m.high = SplitKey(n) /\ m.next = new /\ m.items = kept
      /\ m.smo = <<SplitKey(n), new>>
  BY SplitFields
<1>2. m.leaf => \A k \in m.items : k \in Keys /\ m.low <= k /\ k < m.high
  <2>1. \A x \in m.items : x \in n.items /\ SortKey(n, x) < SplitKey(n)
    BY <1>1, Halves
  <2> QED BY <1>1, <2>1 DEF Whole, SortKey
<1>3. ~m.leaf => InnerOK(m)
  <2> SUFFICES ASSUME ~m.leaf PROVE InnerOK(m)
    OBVIOUS
  <2>1. InnerOK(n)
    BY <1>1 DEF Whole
  <2>2. \A x \in n.items : SortKey(n, x) = x[1]
    BY <1>1 DEF SortKey
  <2>3. \E s \in m.items : s[1] = m.low
    <3>1. PICK s \in n.items : s[1] = n.low
      BY <2>1 DEF InnerOK
    <3>2. s \notin Moved(n)
      <4>1. ~(SplitKey(n) <= s[1])
        BY <3>1, Halves DEF Whole
      <4> QED BY <2>2, <4>1, Halves
    <3> QED BY <1>1, <3>1, <3>2
  <2>4. \A s \in m.items : s \in n.items /\ s[1] < m.high
    BY <1>1, <2>2, Halves
  <2> QED BY <1>1, <2>1, <2>3, <2>4 DEF InnerOK
<1>4. new # Nil
  BY DEF Ids, Nil
<1>5. SplitKey(n) < n.high /\ n.high \in Nat /\ Inf \in Nat /\ n.high <= Inf /\ SplitKey(n) \in Nat /\ n.low < SplitKey(n)
  BY Halves, SizeAssumption DEF Whole, Inf
<1> QED BY <1>1, <1>2, <1>3, <1>4, <1>5 DEF Whole, Plain
=============================================================================
