-------------------------- MODULE BwTreeSMOProofs --------------------------
(***************************************************************************)
(* The safety of BwTreeSMO for every number of threads, keys, NodeIDs and   *)
(* calls.  BwTreeTableProofs says what the writes do to the tree as a       *)
(* whole; here is what a thread may rely on at each point of its way        *)
(* (ThreadOK), and that every step of every thread keeps it, the thread's   *)
(* own and the steps of the others.                                        *)
(*                                                                         *)
(* The theorems have a hypothesis, SplitsInserted: the claim of the comment *)
(* in FinishPartialSMO that whoever passes a split record without inserting *)
(* its separator passes one whose separator is in the tree.                 *)
(***************************************************************************)
EXTENDS BwTreeTableProofs, SequenceTheorems

(* What the invariant says of a thread is about a view of its variables.    *)
View(t) == [pc |-> pc[t], cur |-> cur[t], par |-> par[t], removed |-> removed[t],
            go |-> go[t], call |-> call[t]]

Stages == {"out", "root", "load", "jump", "remove", "merge", "split", "consolidate",
           "fit", "innersplit", "ready", "postremove", "unblock"}
Walks(w) == w.pc \notin {"out", "root", "load"}
Gets(w)  == w.call.op = "get"
Lives(s) == s.id # Nil /\ s.is # "stale"

(* A snapshot that is not stale is what the table has, an abort record      *)
(* aside.                                                                   *)
SnapOK(T, s) ==
  /\ s = [id |-> s.id, node |-> s.node, is |-> s.is]
  /\ s.id \in Ids \cup {Nil} /\ s.is \in {"match", "under", "stale"}
  /\ s.id # Nil /\ s.is = "match" => T[s.id] = s.node
  /\ s.id # Nil /\ s.is = "under" => T[s.id] = Cover(s.node, "abort")

Placed(w) ==
  /\ w.pc \in Stages
  /\ ~Walks(w) => w.cur = NoSnapshot /\ w.par = NoSnapshot /\ w.removed = <<>>
  /\ w.pc \in {"out", "root"} => w.go = Nil
  /\ w.call.op \in {"none", "insert", "delete", "get"}
  /\ w.pc = "out" <=> w.call.op = "none"
  /\ w.pc # "out" => w.call.key \in Keys
  /\ Gets(w) => w.par.id = Nil /\ w.removed = <<>> /\ w.pc # "jump"

GoOK(T, R, t, w) ==
  /\ w.go # Nil => Guarded(T, R, t, w.go)
  /\ w.pc = "load" => w.go # Nil /\ N(T, w.go).low = 0

(* The node a thread is at, and what the node refers to: it was not given   *)
(* back, its low key is what it was, and the key of the call is not to the  *)
(* left of it.                                                              *)
CurOK(T, R, l, t, w) ==
  /\ w.cur.id = Nil => Gets(w) /\ w.pc = "ready"
  /\ w.cur.id # Nil => Ref(T, R, l, t, w.cur.id, w.cur.node.low, l[w.cur.id])
  /\ Entry(w.cur.node) /\ w.cur.node.type \in Plain \cup {"remove"}
  /\ w.cur.node.type = "remove" <=> w.pc \in {"remove", "jump"}
  /\ w.cur.node.type = "remove" => T[w.cur.id] = w.cur.node
  /\ w.pc = "split" => w.cur.node.type = "split"
  /\ w.pc = "merge" => w.cur.node.type = "merge"
  /\ \E v \in Nat : /\ NodeRefs(T, R, l, t, w.cur.node, v)
                    /\ w.cur.id # Nil => v = l[w.cur.id]
  /\ w.cur.node.low <= w.call.key

(* Its parent snapshot is one level up, and the key is not to the right.    *)
ParOK(T, R, l, t, w) ==
  /\ w.par.id = Nil => w.par = NoSnapshot
  /\ w.par.id # Nil =>
       /\ w.cur.id # Nil
       /\ Whole(w.par.node) /\ ~w.par.node.leaf
       /\ NodeRefs(T, R, l, t, w.par.node, l[w.par.id])
       /\ Ref(T, R, l, t, w.par.id, w.par.node.low, l[w.par.id])
       /\ l[w.cur.id] + 1 = l[w.par.id]
       /\ w.call.key < w.par.node.high

(* While the parent snapshot is not stale it has the separator of the node  *)
(* the thread is at, and of the right sibling if that has one there.        *)
ChildOfPar(w) == Lives(w.par) => <<w.cur.node.low, w.cur.id>> \in w.par.node.items
NextOfPar(w) ==
  /\ Lives(w.par) /\ w.pc # "split" /\ w.cur.node.type # "remove"
  /\ w.cur.node.next # Nil /\ w.cur.node.high < w.par.node.high
  => <<w.cur.node.high, w.cur.node.next>> \in w.par.node.items

(* The separators of the right siblings are in the tree, once a split       *)
(* record is finished or out of sight.                                      *)
NextSepd(T, R, z, l, w) ==
  /\ /\ w.cur.id # Nil /\ w.cur.node.type # "remove" /\ w.cur.node.next # Nil
     /\ w.pc = "split" => w.cur.is = "stale"
     => Sepd(T, R, z, l, w.cur.node.next)
  /\ w.par.id # Nil /\ w.par.node.next # Nil => Sepd(T, R, z, l, w.par.node.next)

(* A node that was merged into another is behind a merge record the thread  *)
(* has not passed.                                                          *)
NotInto(z, w) ==
  /\ Lives(w.cur) /\ w.pc # "merge" => \A i \in Ids : z[i] # w.cur.id
  /\ Lives(w.par) => \A i \in Ids : z[i] # w.par.id

(* The separator a merge record asks to delete is the one of the merged     *)
(* node, and the sibling a split record asks to insert was not retired.     *)
MergeOK(z, w) ==
  w.pc = "merge" /\ Lives(w.par) =>
    \A s \in w.par.node.items :
      s[1] = w.cur.node.smo[1] => s = w.cur.node.smo /\ z[s[2]] # Nil
SplitOK(R, w) ==
  w.pc = "split" /\ Lives(w.par) /\ w.cur.node.smo[1] < w.par.node.high =>
    \A r \in R : r.id # w.cur.node.smo[2]

(* The first child of the upper half of an inner node: it is no removed     *)
(* node when the node is split, and a removed one keeps the node unsplit.   *)
SplitChild(n) == (CHOOSE s \in n.items : s[1] = SplitKey(n))[2]
HalvesOK(T, w) ==
  /\ w.pc = "innersplit" =>
       /\ TooLarge(w.cur.node) /\ ~w.cur.node.leaf
       /\ Lives(w.cur) => T[SplitChild(w.cur.node)].type # "remove"
  /\ w.pc = "ready" /\ ~Gets(w) /\ ~w.cur.node.leaf /\ Lives(w.cur) /\ TooLarge(w.cur.node)
       => T[SplitChild(w.cur.node)].type = "remove"
  /\ Lives(w.par) /\ TooLarge(w.par.node) => T[SplitChild(w.par.node)].type = "remove"

(* A thread that removes a node holds its parent under an abort record.     *)
BlockOK(w) ==
  /\ w.pc \in {"postremove", "unblock"} => w.par.id # Nil /\ w.par.is = "under"
  /\ w.pc = "postremove" => LowChild(w.par.node) # w.cur.id /\ w.cur.node.type = "base"

(* The removed nodes it redirects, and where it jumps to.                   *)
Removal(T) == {[id |-> i, right |-> T[i].under[1]] : i \in Ids}
RemovedOK(T, R, t, w) ==
  /\ w.removed \in Seq(Removal(T))
  /\ \A i \in 1 .. Len(w.removed) :
       Guarded(T, R, t, w.removed[i].id) /\ T[w.removed[i].id].type = "remove"
JumpOK(w) ==
  w.pc = "jump" =>
    /\ w.par.id # Nil
    /\ \E s \in w.par.node.items : s[2] = w.go /\ s[1] <= w.call.key

ThreadOK(T, R, z, l, t, w) ==
  /\ Placed(w) /\ SnapOK(T, w.cur) /\ SnapOK(T, w.par) /\ GoOK(T, R, t, w)
  /\ Walks(w) =>
       /\ CurOK(T, R, l, t, w) /\ ParOK(T, R, l, t, w)
       /\ ChildOfPar(w) /\ NextOfPar(w) /\ NextSepd(T, R, z, l, w) /\ NotInto(z, w)
       /\ MergeOK(z, w) /\ SplitOK(R, w) /\ HalvesOK(T, w)
       /\ BlockOK(w) /\ RemovedOK(T, R, t, w) /\ JumpOK(w)

(* Who put which abort record, and the NodeIDs that may be handed out.      *)
Owns(t, id) == pc[t] \in {"postremove", "unblock"} /\ par[t].id = id
Owners ==
  /\ \A t, u \in Threads : \A id \in Ids : Owns(t, id) /\ Owns(u, id) => t = u
  /\ \A id \in Ids : table[id].type = "abort" => \E t \in Threads : Owns(t, id)
Free ==
  /\ unused = {i \in Ids : table[i].type = "none"}
  /\ \A r \in retired : r.until \subseteq Inside
Shapes ==
  /\ pc = [t \in Threads |-> pc[t]] /\ cur = [t \in Threads |-> cur[t]]
  /\ par = [t \in Threads |-> par[t]] /\ removed = [t \in Threads |-> removed[t]]
  /\ go = [t \in Threads |-> go[t]] /\ call = [t \in Threads |-> call[t]]

InvOf(z, l) ==
  /\ Struct(table, retired, z, l, root)
  /\ \A t \in Threads : ThreadOK(table, retired, z, l, t, View(t))
  /\ Owners /\ Free /\ Shapes
Inv == \E z, l : InvOf(z, l)
-----------------------------------------------------------------------------
(* What a snapshot says of the tree *)

(* Nil is no NodeID.                                                        *)
LEMMA IdsNotNil == Nil \notin Ids /\ \A i \in Ids : i # Nil
BY DEF Ids, Nil

(* The types of nodes that are in the tree.                                 *)
LEMMA PlainTypes ==
  /\ "remove" \notin Plain /\ "abort" \notin Plain /\ "none" \notin Plain
  /\ \A x \in Plain : x \in {"base", "delta", "split", "merge"}
BY DEF Plain

(* The references of a node are those of its cover.                         *)
LEMMA SameRefs ==
  ASSUME NEW T, NEW R, NEW l, NEW t, NEW n, NEW m, NEW v, NodeRefs(T, R, l, t, n, v),
         m.leaf = n.leaf, m.high = n.high, m.next = n.next, m.items = n.items
  PROVE  NodeRefs(T, R, l, t, m, v)
BY DEF NodeRefs

(* What a NodeID that a thread may follow refers to, it may follow too.     *)
LEMMA GuardedRefs ==
  ASSUME NEW T, NEW R, NEW z, NEW l, NEW top, Struct(T, R, z, l, top),
         NEW t, NEW i, Guarded(T, R, t, i)
  PROVE  NodeRefs(T, R, l, t, N(T, i), l[i])
<1>1. CASE InT(T, R, i)
  BY <1>1, InTRefs
<1>2. CASE ~InT(T, R, i)
  <2>1. PICK r \in R : r.id = i
    BY <1>2 DEF InT, Guarded
  <2>2. t \in r.until /\ T[i].type = "remove"
    BY <2>1 DEF Guarded
  <2> QED BY <2>1, <2>2 DEF Struct, RetiredRefs
<1> QED BY <1>1, <1>2

(* A NodeID a thread may follow, and that is not removed, is in the tree.   *)
LEMMA GuardedInC ==
  ASSUME NEW T, NEW R, NEW z, NEW l, NEW top, Struct(T, R, z, l, top),
         NEW t, NEW i, Guarded(T, R, t, i), T[i].type # "remove"
  PROVE  InC(T, R, z, i)
<1>1. InT(T, R, i)
  BY DEF Guarded, InT
<1>2. z[i] = Nil
  BY <1>1 DEF Struct, Zombies, Merged, InT
<1> QED BY <1>1, <1>2 DEF InC

(* A snapshot that is not stale is the node in the tree.                    *)
LEMMA Current ==
  ASSUME NEW T, NEW R, NEW z, NEW l, NEW top, Struct(T, R, z, l, top),
         NEW t, NEW c, SnapOK(T, c), Lives(c), Guarded(T, R, t, c.id),
         Entry(c.node), c.node.type \in Plain \cup {"remove"}
  PROVE  /\ c.id \in Ids /\ T[c.id].type # "none" /\ N(T, c.id) = Live(c.node)
         /\ c.node.type # "remove" =>
              /\ InC(T, R, z, c.id) /\ InT(T, R, c.id) /\ N(T, c.id) = c.node
              /\ Whole(c.node) /\ T[c.id].type # "remove"
         /\ c.node.type = "remove" => T[c.id] = c.node
         /\ NodeRefs(T, R, l, t, c.node, l[c.id])
<1>1. c.id \in Ids /\ T[c.id].type # "none"
  BY DEF Guarded
<1>2. /\ c.is = "match" => T[c.id] = c.node
      /\ c.is = "under" => T[c.id] = Cover(c.node, "abort")
      /\ c.is = "match" \/ c.is = "under"
  BY DEF SnapOK, Lives
<1>3. Entry(T[c.id])
  BY <1>1 DEF Struct, Entries
<1>4. c.node.type # "none"
  BY PlainTypes
<1>5. Whole(Live(c.node)) /\ (c.node.type \in Plain => Whole(c.node) /\ Live(c.node) = c.node)
  BY <1>4, EntryFacts
<1>6. CASE c.is = "match"
  <2>1. T[c.id] = c.node /\ N(T, c.id) = Live(c.node)
    BY <1>2, <1>6 DEF N
  <2>2. NodeRefs(T, R, l, t, N(T, c.id), l[c.id])
    BY GuardedRefs
  <2>3. CASE c.node.type = "remove"
    <3>1. c.node = Cover(Live(c.node), "remove")
      BY <1>4, <2>3, EntryFacts
    <3>2. /\ c.node.leaf = Live(c.node).leaf /\ c.node.high = Live(c.node).high
          /\ c.node.next = Live(c.node).next /\ c.node.items = Live(c.node).items
      BY <1>5, <3>1, CoverFields
    <3>3. NodeRefs(T, R, l, t, c.node, l[c.id])
      BY <2>1, <2>2, <3>2, SameRefs
    <3> QED BY <1>1, <2>1, <2>3, <3>3
  <2>4. CASE c.node.type # "remove"
    <3>1. c.node.type \in Plain
      BY <2>4
    <3>2. InC(T, R, z, c.id)
      BY <2>1, <2>4, GuardedInC
    <3> QED BY <1>1, <1>5, <2>1, <2>2, <2>4, <3>1, <3>2 DEF InC
  <2> QED BY <2>3, <2>4
<1>7. CASE c.is = "under"
  <2>1. T[c.id] = Cover(c.node, "abort")
    BY <1>2, <1>7
  <2>2. T[c.id].type = "abort" /\ T[c.id].under[1] = c.node
    <3>1. CASE c.node.type \in Plain
      BY <1>5, <2>1, <3>1, CoverFields
    <3>2. CASE c.node.type = "remove"
      <4>1. c.node = Cover(Live(c.node), "remove")
        BY <1>4, <3>2, EntryFacts
      <4>2. IsNode(c.node)
        <5>1. IsNode(Live(c.node))
          BY <1>5 DEF Whole
        <5>2. Cover(Live(c.node), "remove") = [[[Live(c.node) EXCEPT !.type = "remove"] EXCEPT !.smo = <<>>] EXCEPT !.under = <<Live(c.node)>>]
          BY <5>1 DEF Cover, IsNode
        <5>3. IsNode([Live(c.node) EXCEPT !.type = "remove"])
          BY <5>1, StillNode
        <5>4. IsNode([[Live(c.node) EXCEPT !.type = "remove"] EXCEPT !.smo = <<>>])
          BY <5>3, StillNode
        <5>5. IsNode([[[Live(c.node) EXCEPT !.type = "remove"] EXCEPT !.smo = <<>>] EXCEPT !.under = <<Live(c.node)>>])
          BY <5>4, StillNode
        <5> QED BY <4>1, <5>2, <5>5
      <4> QED BY <2>1, <4>2 DEF Cover, IsNode
    <3> QED BY <3>1, <3>2
  <2>3. Whole(c.node) /\ N(T, c.id) = c.node
    <3>1. /\ Whole(Live(T[c.id])) /\ T[c.id].under[1] = Live(T[c.id])
      BY <1>1, <1>3, <2>2, EntryFacts
    <3> QED BY <2>2, <3>1 DEF N
  <2>4. c.node.type # "remove" /\ Live(c.node) = c.node
    BY <2>3, PlainTypes DEF Whole, Live
  <2>5. InC(T, R, z, c.id) /\ T[c.id].type # "remove"
    BY <2>2, GuardedInC
  <2>6. NodeRefs(T, R, l, t, N(T, c.id), l[c.id])
    BY GuardedRefs
  <2> QED BY <1>1, <2>3, <2>4, <2>5, <2>6 DEF InC
<1> QED BY <1>2, <1>6, <1>7

(* A thread's view gives what Current asks for.                             *)
LEMMA CurCurrent ==
  ASSUME NEW T, NEW R, NEW z, NEW l, NEW top, Struct(T, R, z, l, top),
         NEW t, NEW w, ThreadOK(T, R, z, l, t, w), Walks(w), Lives(w.cur)
  PROVE  /\ w.cur.id \in Ids /\ T[w.cur.id].type # "none" /\ N(T, w.cur.id) = Live(w.cur.node)
         /\ w.cur.node.type # "remove" =>
              /\ InC(T, R, z, w.cur.id) /\ InT(T, R, w.cur.id) /\ N(T, w.cur.id) = w.cur.node
              /\ Whole(w.cur.node) /\ T[w.cur.id].type # "remove"
<1>1. Guarded(T, R, t, w.cur.id)
  BY DEF ThreadOK, CurOK, Lives, Ref
<1> QED BY <1>1, Current DEF ThreadOK, CurOK

(* So is the one of the parent, which is an inner node one level up.        *)
LEMMA ParCurrent ==
  ASSUME NEW T, NEW R, NEW z, NEW l, NEW top, Struct(T, R, z, l, top),
         NEW t, NEW w, ThreadOK(T, R, z, l, t, w), Walks(w), Lives(w.par)
  PROVE  /\ w.par.id \in Ids /\ InC(T, R, z, w.par.id) /\ InT(T, R, w.par.id)
         /\ N(T, w.par.id) = w.par.node /\ T[w.par.id].type # "remove"
         /\ Whole(w.par.node) /\ ~w.par.node.leaf /\ InnerOK(w.par.node)
         /\ w.cur.id # Nil /\ l[w.cur.id] + 1 = l[w.par.id]
         /\ <<w.cur.node.low, w.cur.id>> \in w.par.node.items
<1>1. w.par.id # Nil
  BY DEF Lives
<1>2. /\ Whole(w.par.node) /\ ~w.par.node.leaf /\ Guarded(T, R, t, w.par.id)
      /\ w.cur.id # Nil /\ l[w.cur.id] + 1 = l[w.par.id]
  BY <1>1 DEF ThreadOK, ParOK, Ref
<1>3. Entry(w.par.node) /\ w.par.node.type \in Plain \cup {"remove"} /\ w.par.node.type # "remove"
  BY <1>2, PlainTypes DEF Entry, Whole
<1>4. SnapOK(T, w.par)
  BY DEF ThreadOK
<1>5. /\ w.par.id \in Ids /\ InC(T, R, z, w.par.id) /\ InT(T, R, w.par.id)
      /\ N(T, w.par.id) = w.par.node /\ T[w.par.id].type # "remove"
  BY <1>2, <1>3, <1>4, Current
<1> QED BY <1>2, <1>5 DEF ThreadOK, ChildOfPar, Whole

(* A live snapshot of a node and one of its parent: what the shape of the   *)
(* tree says of the two.                                                    *)
LEMMA Around ==
  ASSUME NEW T, NEW R, NEW z, NEW l, NEW top, Struct(T, R, z, l, top),
         NEW c, InC(T, R, z, c), NEW n, n = N(T, c),
         NEW p, InC(T, R, z, p), NEW m, m = N(T, p), l[c] + 1 = l[p], ~m.leaf,
         <<n.low, c>> \in m.items
  PROVE  /\ n.type # "split" /\ n.next # Nil /\ n.high < m.high => <<n.high, n.next>> \in m.items
         /\ n.type = "merge" =>
              \A s \in m.items : s[1] = n.smo[1] => s = n.smo /\ z[s[2]] # Nil
         /\ \A i \in Ids : z[i] = c => <<N(T, i).low, i>> \in m.items
<1>1. /\ Whole(n) /\ Whole(m) /\ c \in Ids /\ p \in Ids /\ InT(T, R, c) /\ InT(T, R, p)
      /\ Entries(T) /\ Apart(T, R, z, l)
  BY Alloc DEF InC, InT, Struct
<1>2. InnerOK(m) /\ l[c] \in Nat /\ l[p] \in Nat
  BY <1>1 DEF Whole, Struct, Levels
<1>3. m.low <= n.low /\ n.low < m.high /\ n.low \in Nat /\ n.high \in Nat /\ n.low < n.high /\ m.low \in Nat /\ m.high \in Nat
  <2>1. m.low <= <<n.low, c>>[1] /\ <<n.low, c>>[1] < m.high
    BY <1>2 DEF InnerOK
  <2> QED BY <1>1, <2>1 DEF Whole
<1>4. ASSUME n.type # "split", n.next # Nil, n.high < m.high PROVE <<n.high, n.next>> \in m.items
  <2>1. InC(T, R, z, n.next) /\ l[n.next] = l[c] /\ N(T, n.next).low = n.high
    BY <1>1, <1>4 DEF Struct, Links
  <2>2. HasSep(T, R, z, l, n.next)
    BY <1>1, <1>4, <2>1 DEF Struct, Seps, Sepd
  <2>3. PICK q \in Ids : InC(T, R, z, q) /\ l[q] = l[n.next] + 1 /\ <<n.high, n.next>> \in N(T, q).items
    BY <2>1, <2>2 DEF HasSep
  <2>4. ~N(T, q).leaf
    BY <1>2, <2>1, <2>3 DEF Struct, Levels, InC
  <2>5. m.low <= n.high /\ n.high < m.high
    BY <1>3, <1>4
  <2>6. q = p
    <3>1. l[q] = l[p]
      BY <1>2, <2>1, <2>3
    <3>2. m.low <= <<n.high, n.next>>[1] /\ <<n.high, n.next>>[1] < m.high
      BY <2>5
    <3> QED BY <1>1, <2>3, <2>4, <3>1, <3>2, OneHolder
  <2> QED BY <2>3, <2>6
<1>5. ASSUME n.type = "merge", NEW s \in m.items, s[1] = n.smo[1]
      PROVE  s = n.smo /\ z[s[2]] # Nil
  <2>1. InT(T, R, s[2]) /\ N(T, s[2]).low = s[1] /\ l[s[2]] = l[c] /\ s = <<s[1], s[2]>> /\ s[2] \in Ids
    <3>1. InT(T, R, s[2]) /\ N(T, s[2]).low = s[1] /\ l[s[2]] + 1 = l[p]
      BY <1>1 DEF Struct, Targets
    <3>2. l[s[2]] \in Nat /\ s[2] \in Ids
      BY <3>1 DEF InT, Struct, Levels
    <3> QED BY <1>2, <3>1, <3>2 DEF InnerOK
  <2>2. n.low < s[1] /\ s[1] < n.high /\ s[1] \in Nat
    BY <1>1, <1>5 DEF Whole
  <2>3. Whole(N(T, s[2])) /\ s[1] < N(T, s[2]).high
    <3>1. Whole(N(T, s[2]))
      BY <1>1, <2>1, Alloc DEF InT
    <3> QED BY <2>1, <3>1 DEF Whole
  <2>4. z[s[2]] # Nil
    <3> SUFFICES ASSUME z[s[2]] = Nil PROVE FALSE
      OBVIOUS
    <3>1. InC(T, R, z, s[2])
      BY <2>1 DEF InC
    <3>2. s[2] = c
      BY <1>1, <1>3, <2>1, <2>2, <2>3, <3>1, OneCover
    <3> QED BY <2>1, <2>2, <3>2
  <2>5. Merged(T, R, z, l, s[2])
    BY <2>1, <2>4 DEF Struct, Zombies
  <2>6. z[s[2]] = c
    <3> DEFINE q == z[s[2]]
    <3>1. InC(T, R, z, q) /\ l[q] = l[c] /\ N(T, q).type = "merge" /\ N(T, q).smo = <<s[1], s[2]>>
          /\ N(T, q).high = N(T, s[2]).high
      BY <2>1, <2>5 DEF Merged
    <3>2. Whole(N(T, q))
      BY <1>1, <3>1, Alloc DEF InC, InT
    <3>3. N(T, q).low < s[1] /\ s[1] < N(T, q).high /\ N(T, q).low \in Nat
      BY <3>1, <3>2 DEF Whole
    <3> HIDE DEF q
    <3>4. q = c
      BY <1>1, <1>3, <2>2, <3>1, <3>3, OneCover
    <3> QED BY <3>4 DEF q
  <2>7. n.smo = <<s[1], s[2]>>
    BY <2>1, <2>5, <2>6 DEF Merged
  <2> QED BY <2>1, <2>4, <2>7
<1>6. ASSUME NEW i \in Ids, z[i] = c PROVE <<N(T, i).low, i>> \in m.items
  <2>1. Merged(T, R, z, l, i)
    BY <1>1, <1>6, IdsNotNil DEF Struct, Zombies
  <2>2. n.type = "merge" /\ n.smo = <<N(T, i).low, i>> /\ l[i] = l[c]
    BY <1>6, <2>1 DEF Merged
  <2>3. n.low < N(T, i).low /\ N(T, i).low < n.high /\ N(T, i).low \in Nat
    BY <1>1, <2>2 DEF Whole
  <2>4. PICK q \in Ids : InC(T, R, z, q) /\ l[q] = l[i] + 1 /\ <<N(T, i).low, i>> \in N(T, q).items
    BY <2>1 DEF Merged, HasSep
  <2>5. Whole(N(T, q)) /\ ~N(T, q).leaf /\ InnerOK(N(T, q)) /\ l[q] = l[p] /\ InT(T, R, q)
    <3>1. Whole(N(T, q)) /\ InT(T, R, q)
      BY <1>1, <2>4, Alloc DEF InC, InT
    <3>2. ~N(T, q).leaf
      BY <1>2, <2>2, <2>4, <3>1 DEF Struct, Levels
    <3> QED BY <2>2, <2>4, <3>1, <3>2 DEF Whole
  <2>6. /\ N(T, q).low <= N(T, i).low /\ N(T, i).low < N(T, q).high
        /\ N(T, q).low \in Nat /\ N(T, q).high \in Nat
    <3>1. N(T, q).low <= <<N(T, i).low, i>>[1] /\ <<N(T, i).low, i>>[1] < N(T, q).high
      BY <2>4, <2>5 DEF InnerOK
    <3> QED BY <2>5, <3>1 DEF Whole
  <2>7. q = p
    <3> SUFFICES ASSUME q # p PROVE FALSE
      OBVIOUS
    <3>1. m.high <= N(T, q).low \/ N(T, q).high <= m.low
      BY <1>1, <2>4, <2>5 DEF Apart
    <3>2. m.high <= N(T, q).low
      BY <1>3, <2>3, <2>6, <3>1
    <3> DEFINE e == LowChild(N(T, q))
               k == N(T, q).low
    <3>3. <<k, e>> \in N(T, q).items
      BY <2>5, <2>6, LowChildIs
    <3>4. InT(T, R, e) /\ N(T, e).low = k /\ l[e] + 1 = l[q] /\ T[e].type # "remove"
      <4>1. InT(T, R, <<k, e>>[2]) /\ N(T, <<k, e>>[2]).low = <<k, e>>[1] /\ l[<<k, e>>[2]] + 1 = l[q]
        BY <2>5, <3>3 DEF Struct, Targets
      <4>2. T[e].type # "remove"
        BY <2>5 DEF Struct, LowChildren
      <4> QED BY <4>1, <4>2
    <3>5. k \in Nat /\ n.low < k /\ k < n.high
      BY <1>3, <2>3, <2>6, <3>2
    <3> HIDE DEF e, k
    <3>6. e \in Ids /\ InC(T, R, z, e) /\ l[e] = l[c]
      <4>1. e \in Ids /\ l[e] \in Nat
        BY <3>4 DEF InT, Struct, Levels
      <4>2. z[e] = Nil
        BY <3>4, <4>1 DEF Struct, Zombies, Merged
      <4> QED BY <1>2, <2>5, <3>4, <4>1, <4>2 DEF InC
    <3>7. N(T, e).low <= k /\ k < N(T, e).high
      <4>1. Whole(N(T, e))
        BY <1>1, <3>4, <3>6, Alloc DEF InT
      <4> QED BY <3>4, <3>5, <4>1 DEF Whole
    <3>8. e = c
      BY <1>1, <1>3, <3>5, <3>6, <3>7, OneCover
    <3> QED BY <3>4, <3>5, <3>8
  <2> QED BY <2>4, <2>7
<1> QED BY <1>4, <1>5, <1>6
-----------------------------------------------------------------------------
(* The steps of the others *)

(* A snapshot of another thread may have become stale, blocked or unblocked.*)
Weaker(s, s2) ==
  s2.id = s.id /\ s2.node = s.node /\ (Lives(s2) => Lives(s)) /\ (s.id = Nil => s2 = s)

(* A snapshot is as good as it was where the table did not change.          *)
LEMMA Kept ==
  ASSUME NEW T, NEW T2, NEW s, SnapOK(T, s), Lives(s) => T2[s.id] = T[s.id]
  PROVE  SnapOK(T2, s) /\ Weaker(s, s)
BY DEF SnapOK, Weaker, Lives

(* What a thread relies on survives a write of another thread.              *)
LEMMA Bystander ==
  ASSUME NEW T, NEW R, NEW z, NEW l, NEW top, Struct(T, R, z, l, top),
         NEW T2, NEW R2, NEW z2, NEW l2, NEW top2, Struct(T2, R2, z2, l2, top2),
         NEW t, NEW w, NEW w2, ThreadOK(T, R, z, l, t, w),
         w.pc # "out" => Evolve(T, R, z, l, T2, R2, z2, l2, t),
         w2.pc = w.pc, w2.removed = w.removed, w2.go = w.go, w2.call = w.call,
         Weaker(w.cur, w2.cur), Weaker(w.par, w2.par),
         SnapOK(T2, w2.cur), SnapOK(T2, w2.par),
         Lives(w.cur) /\ ~Lives(w2.cur) /\ w.pc = "split" => Sepd(T, R, z, l, w.cur.node.next),
         \A i \in Ids : \/ z2[i] = z[i] \/ z2[i] = Nil
                        \/ /\ w2.cur.id = z2[i] => ~Lives(w2.cur)
                           /\ w2.par.id = z2[i] => ~Lives(w2.par),
         \A i \in Ids : z[i] # Nil /\ z2[i] = Nil /\ Lives(w2.par) =>
                          \A s \in w.par.node.items : s[2] # i,
         \A r \in R2 : \/ \E q \in R : q.id = r.id
                       \/ w.pc = "split" /\ Lives(w2.par) /\ w.cur.node.smo[1] < w.par.node.high
                            => r.id # w.cur.node.smo[2],
         \A j \in Ids : T2[j].type = "remove" /\ T[j].type # "remove" /\ w.pc = "innersplit"
                          /\ Lives(w2.cur) => SplitChild(w.cur.node) # j,
         w.pc \in {"postremove", "unblock"} => w2.par.is = "under"
  PROVE  ThreadOK(T2, R2, z2, l2, t, w2)
<1>1. Placed(w2)
  <2>1. Placed(w)
    BY DEF ThreadOK
  <2>2. w.cur = NoSnapshot => w2.cur = NoSnapshot
    BY DEF Weaker, NoSnapshot
  <2>3. w.par = NoSnapshot => w2.par = NoSnapshot
    BY DEF Weaker, NoSnapshot
  <2> QED BY <2>1, <2>2, <2>3 DEF Placed, Weaker, Walks, Gets
<1>2. \A i : Guarded(T, R, t, i) /\ w.pc # "out" =>
        /\ Guarded(T2, R2, t, i) /\ N(T2, i).low = N(T, i).low /\ l2[i] = l[i]
        /\ T[i].type = "remove" => T2[i] = T[i]
        /\ Sepd(T, R, z, l, i) => Sepd(T2, R2, z2, l2, i)
  BY DEF Evolve, Guarded
<1>3. GoOK(T2, R2, t, w2)
  BY <1>2 DEF GoOK, ThreadOK, Placed
<1> SUFFICES ASSUME Walks(w)
             PROVE  /\ CurOK(T2, R2, l2, t, w2) /\ ParOK(T2, R2, l2, t, w2)
                    /\ ChildOfPar(w2) /\ NextOfPar(w2) /\ NextSepd(T2, R2, z2, l2, w2) /\ NotInto(z2, w2)
                    /\ MergeOK(z2, w2) /\ SplitOK(R2, w2) /\ HalvesOK(T2, w2)
                    /\ BlockOK(w2) /\ RemovedOK(T2, R2, t, w2) /\ JumpOK(w2)
  BY <1>1, <1>3 DEF ThreadOK, Walks
<1>4. /\ CurOK(T, R, l, t, w) /\ ParOK(T, R, l, t, w)
      /\ ChildOfPar(w) /\ NextOfPar(w) /\ NextSepd(T, R, z, l, w) /\ NotInto(z, w)
      /\ MergeOK(z, w) /\ SplitOK(R, w) /\ HalvesOK(T, w)
      /\ BlockOK(w) /\ RemovedOK(T, R, t, w) /\ JumpOK(w)
      /\ Evolve(T, R, z, l, T2, R2, z2, l2, t) /\ w.pc # "out"
  BY DEF ThreadOK, Walks
<1>5. /\ w2.cur.id = w.cur.id /\ w2.cur.node = w.cur.node /\ (Lives(w2.cur) => Lives(w.cur))
      /\ w2.par.id = w.par.id /\ w2.par.node = w.par.node /\ (Lives(w2.par) => Lives(w.par))
      /\ w.par.id = Nil => w2.par = w.par
  BY DEF Weaker
<1>6. \A n, v : NodeRefs(T, R, l, t, n, v) => NodeRefs(T2, R2, l2, t, n, v)
  BY <1>4, RefsEvolve
<1>7. \A i, k, v : Ref(T, R, l, t, i, k, v) => Ref(T2, R2, l2, t, i, k, v)
  BY <1>2, <1>4 DEF Ref
<1>8. w.cur.id # Nil => Guarded(T, R, t, w.cur.id) /\ l2[w.cur.id] = l[w.cur.id]
  BY <1>2, <1>4 DEF CurOK, Ref
<1>9. w.par.id # Nil => Guarded(T, R, t, w.par.id) /\ l2[w.par.id] = l[w.par.id]
  BY <1>2, <1>4 DEF ParOK, Ref
<1>10. CurOK(T2, R2, l2, t, w2)
  <2>1. w.cur.node.type = "remove" => T2[w.cur.id] = w.cur.node
    <3>1. w.cur.node.type = "remove" => w.cur.id # Nil /\ T[w.cur.id] = w.cur.node
      BY <1>4 DEF CurOK
    <3> QED BY <1>2, <1>4, <1>8, <3>1
  <2>2. \E v \in Nat : NodeRefs(T2, R2, l2, t, w.cur.node, v) /\ (w.cur.id # Nil => v = l2[w.cur.id])
    BY <1>4, <1>6, <1>8 DEF CurOK
  <2>3. w.cur.id # Nil => Ref(T2, R2, l2, t, w.cur.id, w.cur.node.low, l2[w.cur.id])
    BY <1>4, <1>7, <1>8 DEF CurOK
  <2> QED BY <1>4, <1>5, <2>1, <2>2, <2>3 DEF CurOK, Gets
<1>11. ParOK(T2, R2, l2, t, w2)
  <2>1. w.par.id # Nil =>
          /\ w.cur.id # Nil
          /\ NodeRefs(T2, R2, l2, t, w.par.node, l2[w.par.id])
          /\ Ref(T2, R2, l2, t, w.par.id, w.par.node.low, l2[w.par.id])
          /\ l2[w.cur.id] + 1 = l2[w.par.id]
    BY <1>4, <1>6, <1>7, <1>8, <1>9 DEF ParOK
  <2> QED BY <1>4, <1>5, <2>1 DEF ParOK
<1>12. ChildOfPar(w2) /\ NextOfPar(w2) /\ JumpOK(w2) /\ BlockOK(w2)
  BY <1>4, <1>5 DEF ChildOfPar, NextOfPar, JumpOK, BlockOK
<1>13. NextSepd(T2, R2, z2, l2, w2)
  <2>1. ASSUME w.cur.id # Nil, w.cur.node.type # "remove", w.cur.node.next # Nil,
               w.pc = "split" => w2.cur.is = "stale"
        PROVE  Sepd(T2, R2, z2, l2, w.cur.node.next)
    <3>1. Sepd(T, R, z, l, w.cur.node.next)
      <4>1. CASE w.pc = "split" => w.cur.is = "stale"
        BY <1>4, <2>1, <4>1 DEF NextSepd
      <4>2. CASE w.pc = "split" /\ w.cur.is # "stale"
        <5>1. Lives(w.cur) /\ ~Lives(w2.cur)
          BY <2>1, <4>2 DEF Lives
        <5> QED BY <4>2, <5>1
      <4> QED BY <4>1, <4>2
    <3>2. Guarded(T, R, t, w.cur.node.next)
      BY <1>4, <2>1 DEF CurOK, NodeRefs, Ref
    <3> QED BY <1>2, <1>4, <3>1, <3>2
  <2>2. ASSUME w.par.id # Nil, w.par.node.next # Nil PROVE Sepd(T2, R2, z2, l2, w.par.node.next)
    <3>1. Sepd(T, R, z, l, w.par.node.next)
      BY <1>4, <2>2 DEF NextSepd
    <3>2. Guarded(T, R, t, w.par.node.next)
      BY <1>4, <2>2 DEF ParOK, NodeRefs, Ref
    <3> QED BY <1>2, <1>4, <3>1, <3>2
  <2> QED BY <1>5, <2>1, <2>2 DEF NextSepd
<1>14. NotInto(z2, w2)
  <2>1. ASSUME Lives(w2.cur), w.pc # "merge", NEW i \in Ids PROVE z2[i] # w.cur.id
    <3>1. z[i] # w.cur.id /\ w.cur.id # Nil
      BY <1>4, <1>5, <2>1 DEF NotInto, Lives
    <3> QED BY <1>5, <2>1, <3>1
  <2>2. ASSUME Lives(w2.par), NEW i \in Ids PROVE z2[i] # w.par.id
    <3>1. z[i] # w.par.id /\ w.par.id # Nil
      BY <1>4, <1>5, <2>2 DEF NotInto, Lives
    <3> QED BY <1>5, <2>2, <3>1
  <2> QED BY <1>5, <2>1, <2>2 DEF NotInto
<1>15. MergeOK(z2, w2)
  <2> SUFFICES ASSUME w.pc = "merge", Lives(w2.par), NEW s \in w.par.node.items, s[1] = w.cur.node.smo[1]
               PROVE  s = w.cur.node.smo /\ z2[s[2]] # Nil
    BY <1>5 DEF MergeOK
  <2>1. s = w.cur.node.smo /\ z[s[2]] # Nil
    BY <1>4, <1>5 DEF MergeOK
  <2>2. s[2] \in Ids
    BY <1>4, <1>5 DEF ParOK, Lives, Whole, InnerOK
  <2> QED BY <2>1, <2>2
<1>16. SplitOK(R2, w2)
  BY <1>4, <1>5 DEF SplitOK
<1>17. HalvesOK(T2, w2)
  <2>1. ASSUME NEW n, Whole(n), ~n.leaf, TooLarge(n) PROVE \E s \in n.items : s[2] = SplitChild(n)
    <3>1. \E s \in n.items : s[1] = SplitKey(n)
      BY <2>1, Halves DEF SortKey
    <3> QED BY <3>1 DEF SplitChild
  <2>2. ASSUME NEW n, NEW v, NodeRefs(T, R, l, t, n, v), Whole(n), ~n.leaf, TooLarge(n)
        PROVE  Guarded(T, R, t, SplitChild(n)) /\ SplitChild(n) \in Ids
    BY <2>1, <2>2 DEF NodeRefs, Ref, Guarded
  <2>3. ASSUME TooLarge(w.cur.node) PROVE Whole(w.cur.node)
    BY <1>4, <2>3, EntryFacts, PlainTypes DEF CurOK, TooLarge, Plain
  <2>4. ASSUME w.pc = "innersplit", Lives(w2.cur) PROVE T2[SplitChild(w.cur.node)].type # "remove"
    <3>1. TooLarge(w.cur.node) /\ ~w.cur.node.leaf /\ T[SplitChild(w.cur.node)].type # "remove"
      BY <1>4, <1>5, <2>4 DEF HalvesOK
    <3>2. SplitChild(w.cur.node) \in Ids
      BY <1>4, <2>2, <2>3, <3>1 DEF CurOK
    <3> QED BY <2>4, <3>1, <3>2
  <2>5. ASSUME w.pc = "ready", ~Gets(w), ~w.cur.node.leaf, Lives(w2.cur), TooLarge(w.cur.node)
        PROVE  T2[SplitChild(w.cur.node)].type = "remove"
    <3>1. T[SplitChild(w.cur.node)].type = "remove"
      BY <1>4, <1>5, <2>5 DEF HalvesOK
    <3>2. Guarded(T, R, t, SplitChild(w.cur.node))
      BY <1>4, <2>2, <2>3, <2>5 DEF CurOK
    <3> QED BY <1>2, <1>4, <3>1, <3>2
  <2>6. ASSUME Lives(w2.par), TooLarge(w.par.node) PROVE T2[SplitChild(w.par.node)].type = "remove"
    <3>1. T[SplitChild(w.par.node)].type = "remove"
      BY <1>4, <1>5, <2>6 DEF HalvesOK
    <3>2. Guarded(T, R, t, SplitChild(w.par.node))
      BY <1>4, <1>5, <2>2, <2>6 DEF ParOK, Lives
    <3> QED BY <1>2, <1>4, <3>1, <3>2
  <2> QED BY <1>4, <1>5, <2>4, <2>5, <2>6 DEF HalvesOK, Gets
<1>18. RemovedOK(T2, R2, t, w2)
  <2>1. /\ w.removed \in Seq(Removal(T))
        /\ \A i \in 1 .. Len(w.removed) :
             /\ Guarded(T2, R2, t, w.removed[i].id)
             /\ T2[w.removed[i].id] = T[w.removed[i].id] /\ T[w.removed[i].id].type = "remove"
    BY <1>2, <1>4 DEF RemovedOK
  <2>2. \A i \in 1 .. Len(w.removed) : w.removed[i] \in Removal(T2)
    <3> SUFFICES ASSUME NEW i \in 1 .. Len(w.removed) PROVE w.removed[i] \in Removal(T2)
      OBVIOUS
    <3>1. w.removed[i] \in Removal(T)
      BY <2>1
    <3>2. PICK j \in Ids : w.removed[i] = [id |-> j, right |-> T[j].under[1]]
      BY <3>1 DEF Removal
    <3>3. T2[j] = T[j]
      BY <2>1, <3>2
    <3> QED BY <3>2, <3>3 DEF Removal
  <2>3. w.removed \in Seq(Removal(T2))
    BY <2>1, <2>2
  <2> QED BY <2>1, <2>3 DEF RemovedOK
<1> QED BY <1>10, <1>11, <1>12, <1>13, <1>14, <1>15, <1>16, <1>17, <1>18
-----------------------------------------------------------------------------
(* The thread's own steps *)

(* A thread that starts over, or is not in the tree, relies on nothing.     *)
LEMMA Restarted ==
  ASSUME NEW T, NEW R, NEW z, NEW l, NEW t, NEW w,
         w.pc \in {"out", "root"}, w.cur = NoSnapshot, w.par = NoSnapshot, w.removed = <<>>,
         w.go = Nil, w.call.op \in {"none", "insert", "delete", "get"},
         w.pc = "out" <=> w.call.op = "none",
         w.pc # "out" => w.call.key \in Keys
  PROVE  ThreadOK(T, R, z, l, t, w)
<1>1. SnapOK(T, NoSnapshot) /\ NoSnapshot.id = Nil
  BY DEF SnapOK, NoSnapshot
<1>2. Placed(w)
  BY <1>1 DEF Placed, Stages, Walks, Gets
<1>3. GoOK(T, R, t, w) /\ ~Walks(w)
  BY DEF GoOK, Walks
<1> QED BY <1>1, <1>2, <1>3 DEF ThreadOK

(* A snapshot just taken, Snapshot(i) of the table T.                       *)
SnapOf(T, i) ==
  [id |-> i, node |-> IF T[i].type = "abort" THEN T[i].under[1] ELSE T[i],
   is |-> IF T[i].type = "abort" THEN "under" ELSE "match"]

(* A snapshot of a NodeID that a thread may follow.                         *)
LEMMA Taken ==
  ASSUME NEW T, NEW R, NEW z, NEW l, NEW top, Struct(T, R, z, l, top),
         NEW t, NEW i, Guarded(T, R, t, i), NEW s, s = SnapOf(T, i)
  PROVE  /\ s.id = i /\ i \in Ids /\ i # Nil /\ SnapOK(T, s) /\ Lives(s) /\ s.is # "stale"
         /\ Entry(s.node) /\ s.node.type \in Plain \cup {"remove"}
         /\ N(T, i) = Live(s.node) /\ s.node.low = N(T, i).low
         /\ s.node.type = "remove" <=> T[i].type = "remove"
         /\ s.node.type = "remove" => T[i] = s.node
         /\ s.node.type # "remove" => InC(T, R, z, i) /\ InT(T, R, i) /\ N(T, i) = s.node /\ Whole(s.node)
         /\ NodeRefs(T, R, l, t, s.node, l[i])
<1>1. i \in Ids /\ T[i].type # "none" /\ i # Nil
  BY IdsNotNil DEF Guarded
<1>2. Entry(T[i])
  BY <1>1 DEF Struct, Entries
<1>3. /\ Whole(N(T, i)) /\ T[i].type \in Plain \cup {"remove", "abort"}
      /\ T[i].type \in {"remove", "abort"} => T[i] = Cover(N(T, i), T[i].type) /\ T[i].under[1] = N(T, i)
  BY <1>1, <1>2, EntryFacts DEF N
<1>4. s.id = i /\ s.is \in {"match", "under"} /\ s = [id |-> s.id, node |-> s.node, is |-> s.is]
  BY DEF SnapOf
<1>5. /\ T[i].type # "abort" => s.node = T[i] /\ s.is = "match"
      /\ T[i].type = "abort" => s.node = N(T, i) /\ s.is = "under" /\ T[i] = Cover(s.node, "abort")
  BY <1>3 DEF SnapOf
<1>6. SnapOK(T, s) /\ Lives(s)
  BY <1>1, <1>4, <1>5 DEF SnapOK, Lives
<1>7. Entry(s.node) /\ s.node.type \in Plain \cup {"remove"} /\ s.node.low = N(T, i).low
  <2>1. CASE T[i].type = "abort"
    BY <1>3, <1>5, <2>1 DEF Entry, Whole
  <2>2. CASE T[i].type \in Plain
    BY <1>2, <1>5, <2>2, EntryFacts, PlainTypes DEF N
  <2>3. CASE T[i].type = "remove"
    <3>1. T[i] = Cover(N(T, i), "remove")
      BY <1>3, <2>3
    <3>2. T[i].low = N(T, i).low
      BY <1>3, <3>1, CoverFields
    <3> QED BY <1>2, <1>5, <2>3, <3>2
  <2> QED BY <1>3, <2>1, <2>2, <2>3
<1>8. s.node.type = "remove" <=> T[i].type = "remove"
  BY <1>3, <1>5, PlainTypes DEF Whole
<1>9. s.id = i /\ Guarded(T, R, t, s.id)
  BY <1>4
<1>10. /\ N(T, s.id) = Live(s.node)
       /\ s.node.type # "remove" =>
              InC(T, R, z, s.id) /\ InT(T, R, s.id) /\ N(T, s.id) = s.node /\ Whole(s.node)
       /\ s.node.type = "remove" => T[s.id] = s.node
       /\ NodeRefs(T, R, l, t, s.node, l[s.id])
  BY <1>6, <1>7, <1>9, Current
<1> QED BY <1>1, <1>4, <1>6, <1>7, <1>8, <1>10

(* At a node it has just read, or written, a thread may rely on what it     *)
(* would see there now.                                                     *)
LEMMA Arrive ==
  ASSUME NEW T, NEW R, NEW z, NEW l, NEW top, Struct(T, R, z, l, top),
         NEW t, NEW w, NEW i, Guarded(T, R, t, i), w.cur = SnapOf(T, i), w.pc = Stage(w.cur.node),
         GoOK(T, R, t, w), RemovedOK(T, R, t, w),
         w.call.op \in {"insert", "delete", "get"}, w.call.key \in Keys,
         Gets(w) => w.par.id = Nil /\ w.removed = <<>>,
         N(T, i).low <= w.call.key,
         SnapOK(T, w.par), ParOK(T, R, l, t, w), ChildOfPar(w),
         Lives(w.par) => \A j \in Ids : z[j] # w.par.id,
         Lives(w.par) /\ TooLarge(w.par.node) => T[SplitChild(w.par.node)].type = "remove",
         w.par.id # Nil /\ w.par.node.next # Nil => Sepd(T, R, z, l, w.par.node.next)
  PROVE  ThreadOK(T, R, z, l, t, w)
<1> DEFINE n == w.cur.node
<1>1. /\ w.cur.id = i /\ i \in Ids /\ i # Nil /\ SnapOK(T, w.cur) /\ Lives(w.cur) /\ w.cur.is # "stale"
      /\ Entry(n) /\ n.type \in Plain \cup {"remove"}
      /\ N(T, i) = Live(n) /\ n.low = N(T, i).low
      /\ n.type = "remove" <=> T[i].type = "remove"
      /\ n.type = "remove" => T[i] = n
      /\ n.type # "remove" => InC(T, R, z, i) /\ InT(T, R, i) /\ N(T, i) = n /\ Whole(n)
      /\ NodeRefs(T, R, l, t, n, l[i])
  BY Taken
<1>2. /\ w.pc \in {"split", "merge", "remove", "fit"}
      /\ n.type = "split" <=> w.pc = "split"
      /\ n.type = "merge" <=> w.pc = "merge"
      /\ n.type = "remove" <=> w.pc = "remove"
  BY DEF Stage
<1>3. Placed(w) /\ Walks(w)
  BY <1>2 DEF Placed, Walks, Stages
<1>4. CurOK(T, R, l, t, w)
  <2>1. Ref(T, R, l, t, w.cur.id, n.low, l[w.cur.id])
    BY <1>1 DEF Ref
  <2>2. l[i] \in Nat
    BY <1>1 DEF NodeRefs
  <2>3. \E v \in Nat : NodeRefs(T, R, l, t, n, v) /\ (w.cur.id # Nil => v = l[w.cur.id])
    BY <1>1, <2>2
  <2> QED BY <1>1, <1>2, <2>1, <2>3 DEF CurOK
<1>5. ASSUME Lives(w.par), n.type # "remove"
      PROVE  /\ n.type # "split" /\ n.next # Nil /\ n.high < w.par.node.high
                  => <<n.high, n.next>> \in w.par.node.items
             /\ n.type = "merge" =>
                  \A s \in w.par.node.items : s[1] = n.smo[1] => s = n.smo /\ z[s[2]] # Nil
  <2>1. w.par.id # Nil
    BY <1>5 DEF Lives
  <2>2. /\ Whole(w.par.node) /\ ~w.par.node.leaf /\ Guarded(T, R, t, w.par.id) /\ l[i] + 1 = l[w.par.id]
    BY <1>1, <2>1 DEF ParOK, Ref
  <2>3. Entry(w.par.node) /\ w.par.node.type \in Plain \cup {"remove"} /\ w.par.node.type # "remove"
    BY <2>2, PlainTypes DEF Entry, Whole
  <2>4. InC(T, R, z, w.par.id) /\ N(T, w.par.id) = w.par.node
    <3>1. PICK c : c = w.par
      OBVIOUS
    <3>2. SnapOK(T, c) /\ Lives(c) /\ Guarded(T, R, t, c.id) /\ Entry(c.node) /\ c.node.type \in Plain \cup {"remove"}
      BY <1>5, <2>2, <2>3, <3>1
    <3>3. c.node.type # "remove" => InC(T, R, z, c.id) /\ N(T, c.id) = c.node
      BY <3>2, Current
    <3> QED BY <2>3, <3>1, <3>3
  <2>5. <<n.low, i>> \in w.par.node.items
    BY <1>1, <1>5 DEF ChildOfPar
  <2> DEFINE p == w.par.id
             m == w.par.node
  <2>6. InC(T, R, z, p) /\ m = N(T, p) /\ l[i] + 1 = l[p] /\ ~m.leaf /\ <<n.low, i>> \in m.items
    BY <2>2, <2>4, <2>5
  <2>7. InC(T, R, z, i) /\ n = N(T, i)
    BY <1>1, <1>5
  <2> HIDE DEF p, m, n
  <2>8. /\ n.type # "split" /\ n.next # Nil /\ n.high < m.high => <<n.high, n.next>> \in m.items
        /\ n.type = "merge" =>
             \A s \in m.items : s[1] = n.smo[1] => s = n.smo /\ z[s[2]] # Nil
    BY <2>6, <2>7, Around
  <2> QED BY <2>8 DEF m
<1>6. NextOfPar(w)
  BY <1>2, <1>5 DEF NextOfPar
<1>7. MergeOK(z, w)
  BY <1>2, <1>5, PlainTypes DEF MergeOK
<1>8. NextSepd(T, R, z, l, w)
  <2>1. ASSUME n.type # "remove", n.next # Nil, w.pc # "split" PROVE Sepd(T, R, z, l, n.next)
    BY <1>1, <1>2, <2>1 DEF Struct, Seps
  <2> QED BY <1>1, <2>1 DEF NextSepd
<1>9. NotInto(z, w)
  <2>1. ASSUME w.pc # "merge", NEW j \in Ids, z[j] = i PROVE FALSE
    <3>1. Merged(T, R, z, l, j)
      BY <1>1, <2>1 DEF Struct, Zombies
    <3>2. N(T, i).type = "merge"
      BY <2>1, <3>1 DEF Merged
    <3>3. n.type = "remove"
      BY <1>1, <1>2, <2>1, <3>2
    <3>4. N(T, i).type = "base"
      BY <1>1, <3>3, EntryFacts
    <3> QED BY <3>2, <3>4
  <2> QED BY <1>1, <2>1 DEF NotInto
<1>10. SplitOK(R, w)
  <2>1. ASSUME w.pc = "split" PROVE \A r \in R : r.id # n.smo[2]
    <3>1. n.type = "split" /\ n.type # "remove"
      BY <1>2, <2>1
    <3>2. n.smo[2] = n.next /\ n.next # Nil /\ InT(T, R, i) /\ N(T, i) = n
      BY <1>1, <3>1 DEF Whole
    <3>3. InC(T, R, z, n.next)
      BY <1>1, <3>2 DEF Struct, Links
    <3> QED BY <3>2, <3>3 DEF InC, InT
  <2> QED BY <2>1 DEF SplitOK
<1>11. HalvesOK(T, w) /\ BlockOK(w) /\ JumpOK(w)
  BY <1>2 DEF HalvesOK, BlockOK, JumpOK
<1> QED BY <1>1, <1>3, <1>4, <1>6, <1>7, <1>8, <1>9, <1>10, <1>11 DEF ThreadOK

(* GetValue keeps no NodeID of where it is.                                 *)
LEMMA ReadHere ==
  ASSUME NEW T, NEW R, NEW z, NEW l, NEW top, Struct(T, R, z, l, top),
         NEW t, NEW w, NEW i, Guarded(T, R, t, i), T[i].type # "remove",
         w.cur = [SnapOf(T, i) EXCEPT !.id = Nil], w.pc = "ready", w.par = NoSnapshot,
         w.removed = <<>>, GoOK(T, R, t, w), Gets(w), w.call.key \in Keys,
         N(T, i).low <= w.call.key
  PROVE  ThreadOK(T, R, z, l, t, w)
<1> DEFINE s == SnapOf(T, i)
<1>1. /\ s.id = i /\ SnapOK(T, s) /\ Entry(s.node) /\ s.node.type \in Plain \cup {"remove"}
      /\ s.node.type # "remove" /\ InC(T, R, z, i) /\ InT(T, R, i) /\ N(T, i) = s.node
      /\ NodeRefs(T, R, l, t, s.node, l[i])
  BY Taken
<1>2. w.cur.id = Nil /\ w.cur.node = s.node /\ w.cur.is = s.is /\ w.cur = [id |-> Nil, node |-> s.node, is |-> s.is]
  BY DEF SnapOf
<1> HIDE DEF s
<1>3. SnapOK(T, w.cur) /\ SnapOK(T, w.par) /\ w.par.id = Nil
  BY <1>1, <1>2 DEF SnapOK, NoSnapshot
<1>4. Placed(w) /\ Walks(w)
  BY <1>3 DEF Placed, Walks, Stages, Gets
<1>5. CurOK(T, R, l, t, w)
  <2>1. \E v \in Nat : NodeRefs(T, R, l, t, s.node, v)
    BY <1>1 DEF NodeRefs
  <2> QED BY <1>1, <1>2, <2>1 DEF CurOK
<1>6. RemovedOK(T, R, t, w)
  BY EmptySeq DEF RemovedOK
<1>7. /\ ParOK(T, R, l, t, w) /\ ChildOfPar(w) /\ NextOfPar(w) /\ NextSepd(T, R, z, l, w)
      /\ NotInto(z, w) /\ MergeOK(z, w) /\ SplitOK(R, w) /\ HalvesOK(T, w)
      /\ BlockOK(w) /\ JumpOK(w)
  BY <1>2, <1>3 DEF ParOK, ChildOfPar, NextOfPar, NextSepd, NotInto, MergeOK, SplitOK, HalvesOK,
                    BlockOK, JumpOK, Lives
<1> QED BY <1>3, <1>4, <1>5, <1>6, <1>7 DEF ThreadOK

(* A thread that wrote the node it is at.                                   *)
LEMMA Refresh ==
  ASSUME NEW T, NEW R, NEW z, NEW l, NEW top, Struct(T, R, z, l, top),
         NEW t, NEW w, NEW w2, ThreadOK(T, R, z, l, t, w), Walks(w), w.cur.id # Nil,
         w.cur.node.low <= w.call.key,
         w2.cur = SnapOf(T, w.cur.id), w2.pc = Stage(w2.cur.node), w2.par = w.par, w2.go = w.go,
         w2.call = w.call, w.removed = <<>> => w2.removed = <<>>, RemovedOK(T, R, t, w2)
  PROVE  ThreadOK(T, R, z, l, t, w2)
<1> DEFINE i == w.cur.id
<1>1. /\ CurOK(T, R, l, t, w) /\ ParOK(T, R, l, t, w) /\ Placed(w) /\ SnapOK(T, w.par)
      /\ ChildOfPar(w) /\ NotInto(z, w) /\ HalvesOK(T, w) /\ NextSepd(T, R, z, l, w)
      /\ GoOK(T, R, t, w)
  BY DEF ThreadOK
<1>2. Guarded(T, R, t, i) /\ N(T, i).low = w.cur.node.low
  BY <1>1 DEF CurOK, Ref
<1>3. w2.cur.id = i /\ w2.cur.node.low = w.cur.node.low
  BY <1>2, Taken
<1>4. w2.pc \in {"split", "merge", "remove", "fit"}
  BY DEF Stage
<1>5. w.call.op \in {"insert", "delete", "get"} /\ w.call.key \in Keys
  BY <1>1 DEF Placed, Walks
<1>6. Gets(w2) => w2.par.id = Nil /\ w2.removed = <<>>
  BY <1>1 DEF Placed, Gets
<1>7. ParOK(T, R, l, t, w2) /\ ChildOfPar(w2) /\ GoOK(T, R, t, w2)
  BY <1>1, <1>3, <1>4 DEF ParOK, ChildOfPar, GoOK
<1>8. /\ Lives(w.par) => \A j \in Ids : z[j] # w.par.id
      /\ Lives(w.par) /\ TooLarge(w.par.node) => T[SplitChild(w.par.node)].type = "remove"
      /\ w.par.id # Nil /\ w.par.node.next # Nil => Sepd(T, R, z, l, w.par.node.next)
  BY <1>1 DEF NotInto, HalvesOK, NextSepd
<1>9. N(T, i).low <= w2.call.key
  BY <1>2
<1> HIDE DEF i
<1>10. w2.cur = SnapOf(T, i)
  BY DEF i
<1> QED BY <1>1, <1>2, <1>5, <1>6, <1>7, <1>8, <1>9, <1>10, Arrive

(* A thread that wrote the parent.                                          *)
LEMMA Reparent ==
  ASSUME NEW T, NEW R, NEW z, NEW l, NEW top, Struct(T, R, z, l, top),
         NEW t, NEW w, NEW w2, ThreadOK(T, R, z, l, t, w), w.pc \in {"merge", "split"},
         w.par.id # Nil, NEW m, T[w.par.id] = m,
         Whole(m), m.type = "delta", ~m.leaf, m.low = w.par.node.low, m.high = w.par.node.high,
         m.next = w.par.node.next, NodeRefs(T, R, l, t, m, l[w.par.id]),
         w2.cur = w.cur, w2.par = [id |-> w.par.id, node |-> m, is |-> "match"],
         w2.pc = "consolidate", w2.go = w.go, w2.call = w.call, w2.removed = w.removed,
         <<w.cur.node.low, w.cur.id>> \in m.items,
         w.cur.node.next # Nil /\ w.cur.node.high < m.high
           => <<w.cur.node.high, w.cur.node.next>> \in m.items,
         w.cur.node.next # Nil => Sepd(T, R, z, l, w.cur.node.next),
         Lives(w.cur) => \A j \in Ids : z[j] # w.cur.id,
         \A j \in Ids : z[j] # w.par.id
  PROVE  ThreadOK(T, R, z, l, t, w2)
<1>1. /\ CurOK(T, R, l, t, w) /\ ParOK(T, R, l, t, w) /\ Placed(w) /\ SnapOK(T, w.par)
      /\ NextSepd(T, R, z, l, w) /\ GoOK(T, R, t, w) /\ SnapOK(T, w.cur)
      /\ RemovedOK(T, R, t, w)
  BY DEF ThreadOK, Walks
<1>2. /\ w2.par.id = w.par.id /\ w2.par.node = m /\ w2.par.is = "match" /\ Lives(w2.par)
  BY DEF Lives
<1>3. Placed(w2) /\ Walks(w2) /\ GoOK(T, R, t, w2)
  BY <1>1, <1>2 DEF Placed, Walks, Stages, Gets, GoOK
<1>4. SnapOK(T, w2.par)
  BY <1>1, <1>2 DEF SnapOK
<1>5. CurOK(T, R, l, t, w2)
  BY <1>1 DEF CurOK, Gets
<1>6. ParOK(T, R, l, t, w2)
  BY <1>1, <1>2 DEF ParOK
<1>7. ChildOfPar(w2) /\ NextOfPar(w2)
  BY <1>2 DEF ChildOfPar, NextOfPar
<1>8. NextSepd(T, R, z, l, w2)
  BY <1>1, <1>2 DEF NextSepd
<1>9. NotInto(z, w2)
  BY <1>2 DEF NotInto
<1>10. HalvesOK(T, w2)
  BY <1>2 DEF HalvesOK, TooLarge
<1>11. MergeOK(z, w2) /\ SplitOK(R, w2) /\ BlockOK(w2) /\ RemovedOK(T, R, t, w2) /\ JumpOK(w2)
  BY <1>1 DEF MergeOK, SplitOK, BlockOK, RemovedOK, JumpOK
<1> QED BY <1>1, <1>3, <1>4, <1>5, <1>6, <1>7, <1>8, <1>9, <1>10, <1>11 DEF ThreadOK

(* A thread that goes on to the next thing to do at the same node.          *)
LEMMA GoOn ==
  ASSUME NEW T, NEW R, NEW z, NEW l,
         NEW t, NEW w, NEW w2, ThreadOK(T, R, z, l, t, w), Walks(w), w.cur.id # Nil,
         w.cur.node.type # "remove",
         w2.cur = w.cur, w2.par = w.par, w2.removed = w.removed, w2.go = w.go, w2.call = w.call,
         w2.pc \in {"fit", "ready", "innersplit", "postremove", "unblock"},
         w.pc = "split" => NextOfPar(w2) /\ NextSepd(T, R, z, l, w2),
         w.pc = "merge" => NotInto(z, w2),
         HalvesOK(T, w2), BlockOK(w2)
  PROVE  ThreadOK(T, R, z, l, t, w2)
<1>1. /\ CurOK(T, R, l, t, w) /\ ParOK(T, R, l, t, w) /\ Placed(w) /\ SnapOK(T, w.par)
      /\ SnapOK(T, w.cur) /\ ChildOfPar(w) /\ NextOfPar(w) /\ NotInto(z, w)
      /\ NextSepd(T, R, z, l, w) /\ GoOK(T, R, t, w) /\ RemovedOK(T, R, t, w)
  BY DEF ThreadOK
<1>2. Placed(w2) /\ Walks(w2) /\ GoOK(T, R, t, w2)
  BY <1>1 DEF Placed, Walks, Stages, Gets, GoOK
<1>3. CurOK(T, R, l, t, w2)
  BY <1>1 DEF CurOK, Gets
<1>4. ParOK(T, R, l, t, w2) /\ ChildOfPar(w2) /\ RemovedOK(T, R, t, w2)
  BY <1>1 DEF ParOK, ChildOfPar, RemovedOK
<1>5. NextOfPar(w2) /\ NextSepd(T, R, z, l, w2) /\ NotInto(z, w2)
  BY <1>1 DEF NextOfPar, NextSepd, NotInto
<1>6. MergeOK(z, w2) /\ SplitOK(R, w2) /\ JumpOK(w2)
  BY DEF MergeOK, SplitOK, JumpOK
<1> QED BY <1>1, <1>2, <1>3, <1>4, <1>5, <1>6 DEF ThreadOK

(* The separator an inner node has for a key, and the one before it.        *)
LEMMA GreatestOf ==
  ASSUME NEW S, \A s \in S : s[1] \in Nat, S # {}, NEW k \in Nat, \A s \in S : s[1] <= k
  PROVE  \E s \in S : \A x \in S : x[1] <= s[1]
<1> DEFINE D == {k - s[1] : s \in S}
<1>1. D \in SUBSET Nat /\ D # {}
  OBVIOUS
<1>2. PICK d \in D : \A e \in D : d <= e
  <2> HIDE DEF D
  <2> QED BY <1>1, LeastOf
<1>3. PICK s \in S : d = k - s[1]
  BY <1>2
<1>4. \A x \in S : x[1] <= s[1]
  <2> TAKE x \in S
  <2>1. k - s[1] <= k - x[1]
    BY <1>2, <1>3
  <2> QED BY <2>1
<1> QED BY <1>4

(* The child for a key is behind a separator not above the key.             *)
LEMMA ChildForIs ==
  ASSUME NEW n, Whole(n), ~n.leaf, NEW k \in Nat, n.low <= k
  PROVE  \E s \in n.items : s[2] = ChildFor(n, k) /\ s[1] <= k
<1> DEFINE S == {s \in n.items : s[1] <= k}
<1>1. InnerOK(n)
  BY DEF Whole
<1>2. S # {} /\ \A s \in S : s[1] \in Nat /\ s[1] <= k
  BY <1>1 DEF InnerOK
<1>3. \E s \in S : \A x \in S : x[1] <= s[1]
  <2> HIDE DEF S
  <2> QED BY <1>2, GreatestOf
<1>4. \E s \in n.items : s[1] <= k /\ \A x \in n.items : x[1] <= k => x[1] <= s[1]
  BY <1>3
<1> DEFINE c == CHOOSE s \in n.items : s[1] <= k /\ \A x \in n.items : x[1] <= k => x[1] <= s[1]
<1>5. c \in n.items /\ c[1] <= k
  BY <1>4
<1>6. ChildFor(n, k) = c[2]
  BY DEF ChildFor
<1> HIDE DEF c
<1> QED BY <1>5, <1>6

(* The child left of a separator is behind a smaller one.                   *)
LEMMA LeftOfIs ==
  ASSUME NEW n, Whole(n), ~n.leaf, NEW s \in n.items, n.low < s[1]
  PROVE  \E x \in n.items : x[2] = LeftOf(n, s[1]) /\ x[1] < s[1]
<1> DEFINE upto == {x \in n.items : x[1] <= s[1]}
           rest == {x \in upto : \E y \in upto : x[1] < y[1]}
<1>1. InnerOK(n) /\ n.low \in Nat
  BY DEF Whole
<1>2. s \in upto /\ \A x \in upto : x \in n.items /\ x[1] \in Nat /\ x[1] <= s[1] /\ s[1] \in Nat
  BY <1>1 DEF InnerOK
<1>3. rest # {} /\ \A x \in rest : x \in n.items /\ x[1] \in Nat /\ x[1] < s[1] /\ x[1] <= s[1] /\ s[1] \in Nat
  <2>1. PICK x \in n.items : x[1] = n.low
    BY <1>1 DEF InnerOK
  <2>2. x \in upto /\ x[1] < s[1]
    BY <1>1, <1>2, <2>1
  <2> HIDE DEF upto
  <2>3. x \in rest
    BY <1>2, <2>2
  <2>4. ASSUME NEW y \in rest PROVE y \in n.items /\ y[1] \in Nat /\ y[1] < s[1] /\ y[1] <= s[1] /\ s[1] \in Nat
    <3>1. y \in upto /\ \E v \in upto : y[1] < v[1]
      OBVIOUS
    <3> QED BY <1>2, <3>1
  <2> QED BY <2>3, <2>4
<1>4. LeftOf(n, s[1]) = (CHOOSE x \in rest : \A y \in rest : y[1] <= x[1])[2]
  BY <1>3 DEF LeftOf
<1> HIDE DEF upto, rest
<1>5. \E x \in rest : \A y \in rest : y[1] <= x[1]
  BY <1>2, <1>3, GreatestOf
<1> DEFINE c == CHOOSE x \in rest : \A y \in rest : y[1] <= x[1]
<1>6. c \in rest
  BY <1>5
<1> HIDE DEF c
<1>7. LeftOf(n, s[1]) = c[2]
  BY <1>4 DEF c
<1> QED BY <1>3, <1>6, <1>7

(* A node below a merge record is whole.                                    *)
LEMMA MergeWhole ==
  ASSUME NEW n, Whole(n), NEW r, Whole(r), r.leaf = n.leaf, r.low = n.high, NEW id \in Ids,
         NEW m, m = Merge(n, id, r)
  PROVE  /\ Whole(m) /\ m.type = "merge" /\ m.leaf = n.leaf /\ m.low = n.low /\ m.high = r.high
         /\ m.next = r.next /\ m.items = n.items \cup r.items /\ m.smo = <<n.high, id>>
<1>1. /\ IsNode(m) /\ m.type = "merge" /\ m.leaf = n.leaf /\ m.low = n.low
      /\ m.high = r.high /\ m.next = r.next /\ m.items = n.items \cup r.items
      /\ m.smo = <<n.high, id>>
  BY MergeFields
<1>2. n.low \in Nat /\ n.high \in Nat /\ n.low < n.high /\ r.low \in Nat /\ r.high \in Nat /\ r.low < r.high
      /\ r.high <= Inf /\ n.leaf \in BOOLEAN
  BY DEF Whole
<1>3. m.low < m.high /\ m.high <= Inf /\ m.smo = <<m.smo[1], m.smo[2]>> /\ m.smo[1] = n.high /\ m.smo[2] = id
  BY <1>1, <1>2
<1>4. m.next \in Ids \cup {Nil} /\ (m.next = Nil => m.high = Inf)
  BY <1>1 DEF Whole
<1>5. ASSUME m.leaf, NEW k \in m.items PROVE k \in Keys /\ m.low <= k /\ k < m.high
  <2>1. k \in n.items => k \in Keys /\ n.low <= k /\ k < n.high
    BY <1>1, <1>5 DEF Whole
  <2>2. k \in r.items => k \in Keys /\ r.low <= k /\ k < r.high
    BY <1>1, <1>5 DEF Whole
  <2>3. k \in Keys => k \in Nat
    BY SizeAssumption DEF Keys
  <2> QED BY <1>1, <1>2, <1>5, <2>1, <2>2, <2>3
<1>6. ASSUME ~m.leaf PROVE InnerOK(m)
  <2>1. InnerOK(n) /\ InnerOK(r)
    BY <1>1, <1>6 DEF Whole
  <2>2. \A s \in n.items : s = <<s[1], s[2]>> /\ s[1] \in Nat /\ s[2] \in Ids /\ n.low <= s[1] /\ s[1] < n.high
    BY <2>1 DEF InnerOK
  <2>3. \A s \in r.items : s = <<s[1], s[2]>> /\ s[1] \in Nat /\ s[2] \in Ids /\ n.high <= s[1] /\ s[1] < r.high
    BY <2>1 DEF InnerOK
  <2>4. \A s \in m.items : s = <<s[1], s[2]>> /\ s[1] \in Nat /\ s[2] \in Ids /\ m.low <= s[1] /\ s[1] < m.high
    BY <1>1, <1>2, <2>2, <2>3
  <2>5. ASSUME NEW s \in m.items, NEW x \in m.items, s[1] = x[1] PROVE s = x
    <3>1. CASE s \in n.items /\ x \in n.items
      BY <2>1, <2>5, <3>1 DEF InnerOK
    <3>2. CASE s \in r.items /\ x \in r.items
      BY <2>1, <2>5, <3>2 DEF InnerOK
    <3>3. CASE s \in n.items /\ x \in r.items
      BY <1>2, <2>2, <2>3, <2>5, <3>3
    <3>4. CASE s \in r.items /\ x \in n.items
      BY <1>2, <2>2, <2>3, <2>5, <3>4
    <3> QED BY <1>1, <3>1, <3>2, <3>3, <3>4
  <2>6. \E s \in m.items : s[1] = m.low
    BY <1>1, <2>1 DEF InnerOK
  <2> QED BY <2>4, <2>5, <2>6 DEF InnerOK
<1> QED BY <1>1, <1>2, <1>3, <1>4, <1>5, <1>6 DEF Whole, Plain

(* The first child of the sibling a split makes.                            *)
LEMMA SplitChildIs ==
  ASSUME NEW n, Whole(n), ~n.leaf, TooLarge(n), NEW m, m = Sibling(n, SplitKey(n), Moved(n))
  PROVE  LowChild(m) = SplitChild(n) /\ <<SplitKey(n), SplitChild(n)>> \in n.items
<1>1. Whole(m) /\ m.leaf = n.leaf /\ m.low = SplitKey(n) /\ m.items = Moved(n)
  BY SiblingWhole
<1>2. InnerOK(m) /\ m.low \in Nat /\ InnerOK(n) /\ Moved(n) \subseteq n.items
  BY <1>1, Halves DEF Whole
<1>3. <<m.low, LowChild(m)>> \in m.items
  BY <1>2, LowChildIs
<1> DEFINE s == <<SplitKey(n), LowChild(m)>>
<1>4. s \in n.items /\ s[1] = SplitKey(n) /\ s[2] = LowChild(m)
  BY <1>1, <1>2, <1>3
<1> HIDE DEF s
<1>5. \A x \in n.items : x[1] = SplitKey(n) => x = s
  BY <1>2, <1>4 DEF InnerOK
<1>6. (CHOOSE x \in n.items : x[1] = SplitKey(n)) = s
  BY <1>4, <1>5
<1>7. SplitChild(n) = LowChild(m)
  BY <1>4, <1>6 DEF SplitChild
<1> QED BY <1>4, <1>7 DEF s

(* A new NodeID is an unused one.                                           *)
LEMMA NewIdFree ==
  ASSUME unused # {}, unused \subseteq Ids
  PROVE  NewId \in unused
<1>1. unused \in SUBSET Nat
  BY DEF Ids
<1>2. \E x \in unused : \A y \in unused : x <= y
  BY <1>1, LeastOf
<1> QED BY <1>2 DEF NewId, Min
-----------------------------------------------------------------------------
(* From one state to the next *)

(* The parts of the invariant give the invariant.                           *)
LEMMA Conclude ==
  ASSUME NEW z, NEW l, Struct(table', retired', z, l, root'),
         \A u \in Threads : ThreadOK(table', retired', z, l, u, View(u)'),
         Owners', Free', Shapes'
  PROVE  Inv'
BY DEF Inv, InvOf

(* A step that writes nothing but variables of its own thread.              *)
LEMMA Quiet ==
  ASSUME NEW z, NEW l, InvOf(z, l), NEW t \in Threads,
         UNCHANGED <<table, retired, root, unused>>, Shapes',
         \A u \in Threads \ {t} : View(u)' = View(u),
         ThreadOK(table, retired, z, l, t, View(t)'),
         \A id \in Ids : Owns(t, id)' <=> Owns(t, id),
         pc[t] = "out" \/ pc'[t] # "out"
  PROVE  Inv'
<1>1. \A u \in Threads \ {t} : pc'[u] = pc[u] /\ par'[u] = par[u]
  BY DEF View
<1>2. Owners'
  <2>1. \A u \in Threads : \A id \in Ids : Owns(u, id)' <=> Owns(u, id)
    BY <1>1 DEF Owns
  <2> QED BY <2>1 DEF InvOf, Owners
<1>3. Free'
  <2>1. Inside \subseteq Inside'
    BY <1>1 DEF Inside
  <2> QED BY <2>1 DEF InvOf, Free
<1>4. Struct(table', retired', z, l, root')
  BY DEF InvOf
<1>5. \A u \in Threads : ThreadOK(table', retired', z, l, u, View(u)')
  BY DEF InvOf
<1> QED BY <1>2, <1>3, <1>4, <1>5, Conclude

(* The owners of abort records while none is put or taken off.              *)
LEMMA OwnersKept ==
  ASSUME Owners,
         \A u \in Threads : \A id \in Ids : Owns(u, id)' <=> Owns(u, id),
         \A id \in Ids : table'[id].type = "abort" => table[id].type = "abort"
  PROVE  Owners'
BY DEF Owners

(* A thread does not hold a NodeID nobody uses.                             *)
LEMMA InUse ==
  ASSUME NEW T, NEW R, NEW z, NEW l, NEW t, NEW w, ThreadOK(T, R, z, l, t, w), NEW i \in Ids
  PROVE  /\ w.cur.id = i \/ w.par.id = i => w.pc # "out" /\ Guarded(T, R, t, i)
         /\ Lives(w.cur) => w.pc # "out" /\ Guarded(T, R, t, w.cur.id)
         /\ Lives(w.par) => w.pc # "out" /\ Guarded(T, R, t, w.par.id)
<1>1. CASE ~Walks(w)
  BY <1>1, IdsNotNil DEF ThreadOK, Placed, NoSnapshot, Lives
<1>2. CASE Walks(w)
  BY <1>2, IdsNotNil DEF ThreadOK, Walks, CurOK, ParOK, Ref, Lives
<1> QED BY <1>1, <1>2

(* What a write of entry i, and perhaps of unused ones, leaves a thread     *)
(* whose snapshots of i it made stale.                                      *)
OutSnap(s, i) == IF s.id = i THEN [s EXCEPT !.is = "stale"] ELSE s
OutView(w, i) == [pc |-> w.pc, cur |-> OutSnap(w.cur, i), par |-> OutSnap(w.par, i),
                  removed |-> w.removed, go |-> w.go, call |-> w.call]

WriteOK(T, R, z, l, T2, R2, z2, i, w) ==
  /\ i \in Ids /\ T[i].type # "abort"
  /\ \A j \in Ids : j # i /\ T[j].type # "none" => T2[j] = T[j]
  /\ T[i].type = "split" => Sepd(T, R, z, l, T[i].next)
  /\ \A j \in Ids : z2[j] = z[j] \/ z2[j] = Nil \/ z2[j] = i
  /\ \A j \in Ids : z[j] # Nil /\ z2[j] = Nil /\ Lives(w.par) /\ w.par.id # i =>
                      \A s \in w.par.node.items : s[2] # j
  /\ \A r \in R2 :
        \/ \E q \in R : q.id = r.id
        \/ w.pc = "split" /\ Lives(w.par) /\ w.par.id # i
             /\ w.cur.node.smo[1] < w.par.node.high => r.id # w.cur.node.smo[2]
  /\ \A j \in Ids : T2[j].type = "remove" /\ T[j].type # "remove" =>
        (w.pc = "innersplit" /\ Lives(w.cur) /\ w.cur.id # i => SplitChild(w.cur.node) # j)

(* A snapshot of what was overwritten is stale, any other as good as it     *)
(* was.                                                                     *)
LEMMA OutSnapIs ==
  ASSUME NEW T, NEW T2, NEW i, i \in Ids, NEW s, SnapOK(T, s),
         Lives(s) /\ s.id # i => T2[s.id] = T[s.id]
  PROVE  /\ SnapOK(T2, OutSnap(s, i)) /\ Weaker(s, OutSnap(s, i)) /\ OutSnap(s, i).id = s.id
         /\ s.id = i => ~Lives(OutSnap(s, i))
<1>1. CASE s.id = i
  <2>1. OutSnap(s, i) = [id |-> s.id, node |-> s.node, is |-> "stale"]
    BY <1>1 DEF SnapOK, OutSnap
  <2> QED BY <1>1, <2>1, IdsNotNil DEF SnapOK, Weaker, Lives
<1>2. CASE s.id # i
  <2>1. OutSnap(s, i) = s
    BY <1>2 DEF OutSnap
  <2> QED BY <1>2, <2>1, Kept
<1> QED BY <1>1, <1>2

(* What another thread relies on survives a write that outdates its         *)
(* snapshots.                                                               *)
LEMMA Others ==
  ASSUME NEW T, NEW R, NEW z, NEW l, NEW top, Struct(T, R, z, l, top),
         NEW T2, NEW R2, NEW z2, NEW l2, NEW top2, Struct(T2, R2, z2, l2, top2),
         NEW u, NEW w, ThreadOK(T, R, z, l, u, w), NEW i, WriteOK(T, R, z, l, T2, R2, z2, i, w),
         w.pc # "out" => Evolve(T, R, z, l, T2, R2, z2, l2, u),
         NEW w2, w2 = OutView(w, i)
  PROVE  ThreadOK(T2, R2, z2, l2, u, w2)
<1>1. /\ i \in Ids /\ T[i].type # "abort"
      /\ \A j \in Ids : j # i /\ T[j].type # "none" => T2[j] = T[j]
      /\ T[i].type = "split" => Sepd(T, R, z, l, T[i].next)
  BY DEF WriteOK
<1>2. /\ w2.pc = w.pc /\ w2.removed = w.removed /\ w2.go = w.go /\ w2.call = w.call
      /\ w2.cur = OutSnap(w.cur, i) /\ w2.par = OutSnap(w.par, i)
  BY DEF OutView
<1>4. /\ SnapOK(T, w.cur) /\ SnapOK(T, w.par)
      /\ Lives(w.cur) => w.pc # "out" /\ Guarded(T, R, u, w.cur.id)
      /\ Lives(w.par) => w.pc # "out" /\ Guarded(T, R, u, w.par.id)
  <2>1. SnapOK(T, w.cur) /\ SnapOK(T, w.par)
    BY DEF ThreadOK
  <2> QED BY <1>1, <2>1, InUse
<1>5. /\ SnapOK(T2, w2.cur) /\ Weaker(w.cur, w2.cur) /\ w2.cur.id = w.cur.id
      /\ w.cur.id = i => ~Lives(w2.cur)
      /\ w.cur.id # i => w2.cur = w.cur
  <2>1. Lives(w.cur) /\ w.cur.id # i => T2[w.cur.id] = T[w.cur.id]
    BY <1>1, <1>4 DEF Guarded
  <2> DEFINE s == w.cur
  <2>2. SnapOK(T, s) /\ (Lives(s) /\ s.id # i => T2[s.id] = T[s.id])
    BY <1>4, <2>1
  <2> HIDE DEF s
  <2>3. /\ SnapOK(T2, OutSnap(s, i)) /\ Weaker(s, OutSnap(s, i)) /\ OutSnap(s, i).id = s.id
        /\ s.id = i => ~Lives(OutSnap(s, i))
    BY <1>1, <2>2, OutSnapIs
  <2>4. s.id # i => OutSnap(s, i) = s
    BY DEF OutSnap
  <2> QED BY <1>2, <2>3, <2>4 DEF s
<1>6. /\ SnapOK(T2, w2.par) /\ Weaker(w.par, w2.par) /\ w2.par.id = w.par.id
      /\ w.par.id = i => ~Lives(w2.par)
      /\ w.par.id # i => w2.par = w.par
  <2>1. Lives(w.par) /\ w.par.id # i => T2[w.par.id] = T[w.par.id]
    BY <1>1, <1>4 DEF Guarded
  <2> DEFINE s == w.par
  <2>2. SnapOK(T, s) /\ (Lives(s) /\ s.id # i => T2[s.id] = T[s.id])
    BY <1>4, <2>1
  <2> HIDE DEF s
  <2>3. /\ SnapOK(T2, OutSnap(s, i)) /\ Weaker(s, OutSnap(s, i)) /\ OutSnap(s, i).id = s.id
        /\ s.id = i => ~Lives(OutSnap(s, i))
    BY <1>1, <2>2, OutSnapIs
  <2>4. s.id # i => OutSnap(s, i) = s
    BY DEF OutSnap
  <2> QED BY <1>2, <2>3, <2>4 DEF s
<1>7. Lives(w.cur) /\ ~Lives(w2.cur) /\ w.pc = "split" => Sepd(T, R, z, l, w.cur.node.next)
  <2> SUFFICES ASSUME Lives(w.cur), ~Lives(w2.cur), w.pc = "split"
               PROVE  Sepd(T, R, z, l, w.cur.node.next)
    OBVIOUS
  <2>1. w.cur.id = i
    BY <1>5
  <2>2. w.cur.node.type = "split" /\ Entry(w.cur.node)
    BY DEF ThreadOK, CurOK, Walks
  <2>3. T[i] = w.cur.node
    <3>1. w.cur.is # "under"
      <4> SUFFICES ASSUME w.cur.is = "under" PROVE FALSE
        OBVIOUS
      <4>1. T[i] = Cover(w.cur.node, "abort")
        BY <1>4, <2>1 DEF SnapOK, Lives
      <4>2. Whole(w.cur.node)
        BY <2>2, PlainTypes, EntryFacts DEF Plain
      <4>3. T[i].type = "abort"
        BY <4>1, <4>2, CoverFields
      <4> QED BY <1>1, <4>3
    <3> QED BY <1>4, <2>1, <3>1 DEF SnapOK, Lives
  <2> QED BY <1>1, <2>2, <2>3
<1>8. \A j \in Ids : \/ z2[j] = z[j] \/ z2[j] = Nil
                     \/ /\ w2.cur.id = z2[j] => ~Lives(w2.cur)
                        /\ w2.par.id = z2[j] => ~Lives(w2.par)
  <2>1. \A j \in Ids : z2[j] = z[j] \/ z2[j] = Nil \/ z2[j] = i
    BY DEF WriteOK
  <2> QED BY <1>5, <1>6, <2>1
<1>9. \A j \in Ids : z[j] # Nil /\ z2[j] = Nil /\ Lives(w2.par) =>
                          \A s \in w.par.node.items : s[2] # j
  <2>1. \A j \in Ids : z[j] # Nil /\ z2[j] = Nil /\ Lives(w.par) /\ w.par.id # i =>
                      \A s \in w.par.node.items : s[2] # j
    BY DEF WriteOK
  <2> QED BY <1>6, <2>1
<1>10. \A r \in R2 : \/ \E q \in R : q.id = r.id
                     \/ w.pc = "split" /\ Lives(w2.par) /\ w.cur.node.smo[1] < w.par.node.high
                                => r.id # w.cur.node.smo[2]
  <2>1. \A r \in R2 :
           \/ \E q \in R : q.id = r.id
           \/ w.pc = "split" /\ Lives(w.par) /\ w.par.id # i
                /\ w.cur.node.smo[1] < w.par.node.high => r.id # w.cur.node.smo[2]
    BY DEF WriteOK
  <2> QED BY <1>6, <2>1
<1>11. \A j \in Ids : T2[j].type = "remove" /\ T[j].type # "remove" /\ w.pc = "innersplit"
                          /\ Lives(w2.cur) => SplitChild(w.cur.node) # j
  <2>1. \A j \in Ids : T2[j].type = "remove" /\ T[j].type # "remove" =>
           (w.pc = "innersplit" /\ Lives(w.cur) /\ w.cur.id # i => SplitChild(w.cur.node) # j)
    BY DEF WriteOK
  <2> QED BY <1>5, <2>1
<1>12. w.pc \in {"postremove", "unblock"} => w2.par.is = "under"
  <2> SUFFICES ASSUME w.pc \in {"postremove", "unblock"} PROVE w2.par.is = "under"
    OBVIOUS
  <2>1. w.par.id # Nil /\ w.par.is = "under" /\ Walks(w)
    BY DEF ThreadOK, Walks, BlockOK
  <2>2. Whole(w.par.node) /\ T[w.par.id] = Cover(w.par.node, "abort")
    BY <1>4, <2>1 DEF ThreadOK, ParOK, SnapOK
  <2>3. T[w.par.id].type = "abort"
    BY <2>2, CoverFields
  <2>4. w2.par = w.par
    BY <1>1, <1>6, <2>3
  <2> QED BY <2>1, <2>4
<1> HIDE DEF WriteOK
<1> QED BY <1>2, <1>5, <1>6, <1>7, <1>8, <1>9, <1>10, <1>11, <1>12, Bystander

(* Steps that write no entry, action by action.                             *)
After(t) == [pc |-> pc'[t], cur |-> cur'[t], par |-> par'[t], removed |-> removed'[t],
             go |-> go'[t], call |-> call'[t]]

(* The view of a thread, before and after a step.                           *)
LEMMA ViewFields ==
  ASSUME NEW t
  PROVE  /\ View(t).pc = pc[t] /\ View(t).cur = cur[t] /\ View(t).par = par[t]
         /\ View(t).removed = removed[t] /\ View(t).go = go[t] /\ View(t).call = call[t]
         /\ After(t).pc = pc'[t] /\ After(t).cur = cur'[t] /\ After(t).par = par'[t]
         /\ After(t).removed = removed'[t] /\ After(t).go = go'[t] /\ After(t).call = call'[t]
         /\ View(t)' = After(t)
BY DEF View, After

OnlyOwn(t) ==
  /\ Shapes'
  /\ \A u \in Threads \ {t} :
       /\ pc'[u] = pc[u] /\ cur'[u] = cur[u] /\ par'[u] = par[u] /\ removed'[u] = removed[u]
       /\ go'[u] = go[u] /\ call'[u] = call[u]

(* A step that only changes where the thread is keeps the invariant if the  *)
(* thread may be there.                                                     *)
LEMMA QuietOwn ==
  ASSUME NEW z, NEW l, InvOf(z, l), NEW t \in Threads,
         UNCHANGED <<table, retired, root, unused>>, OnlyOwn(t),
         ThreadOK(table, retired, z, l, t, After(t)),
         pc[t] \notin {"postremove", "unblock"}, pc'[t] \notin {"out", "postremove", "unblock"}
  PROVE  Inv'
<1>1. Shapes' /\ \A u \in Threads \ {t} : View(u)' = View(u)
  BY DEF OnlyOwn, View
<1>2. View(t)' = After(t)
  BY ViewFields
<1>3. \A id \in Ids : Owns(t, id)' <=> Owns(t, id)
  BY DEF Owns
<1>4. ThreadOK(table, retired, z, l, t, View(t)')
  BY <1>2
<1> QED BY <1>1, <1>3, <1>4, Quiet

(* A thread that starts over relies on nothing.                             *)
LEMMA RetryView ==
  ASSUME NEW z, NEW l, InvOf(z, l), NEW t \in Threads, Retry(t), UNCHANGED call, pc[t] # "out",
         NEW T, NEW R, NEW z2, NEW l2
  PROVE  /\ OnlyOwn(t) /\ pc'[t] = "root"
         /\ ThreadOK(T, R, z2, l2, t, After(t))
<1>1. /\ pc'[t] = "root" /\ cur'[t] = NoSnapshot /\ par'[t] = NoSnapshot /\ removed'[t] = <<>>
      /\ go'[t] = Nil /\ call'[t] = call[t]
  BY DEF InvOf, Shapes, Retry, To
<1>2. OnlyOwn(t)
  BY DEF InvOf, Shapes, Retry, To, OnlyOwn
<1>3. Placed(View(t))
  BY DEF InvOf, ThreadOK
<1>4. call[t].op \in {"insert", "delete", "get"} /\ call[t].key \in Keys
  BY <1>3, ViewFields DEF Placed
<1>5. ThreadOK(T, R, z2, l2, t, After(t))
  BY <1>1, <1>4, ViewFields, Restarted
<1> QED BY <1>1, <1>2, <1>5

(* Starting over keeps the invariant.                                       *)
LEMMA RetryStep ==
  ASSUME NEW z, NEW l, InvOf(z, l), NEW t \in Threads, Retry(t), UNCHANGED call,
         UNCHANGED <<table, retired, root, unused>>,
         pc[t] \notin {"out", "postremove", "unblock"}
  PROVE  Inv'
<1>1. OnlyOwn(t) /\ pc'[t] = "root" /\ ThreadOK(table, retired, z, l, t, After(t))
  BY RetryView
<1> QED BY <1>1, QuietOwn

(* Call keeps the invariant.                                                *)
LEMMA CallStep ==
  ASSUME NEW z, NEW l, InvOf(z, l), NEW t \in Threads, Call(t)
  PROVE  Inv'
<1>1. PICK op \in {"insert", "delete", "get"}, k \in CallKeys :
        call' = [call EXCEPT ![t] = [op |-> op, key |-> k, found |-> FALSE]]
  BY DEF Call
<1>2. /\ pc[t] = "out" /\ pc' = [pc EXCEPT ![t] = "root"] /\ par' = [par EXCEPT ![t] = NoSnapshot]
      /\ UNCHANGED <<table, root, unused, retired, cur, removed, go>>
  BY DEF Call, To, treeVars
<1>3. Placed(View(t))
  BY DEF InvOf, ThreadOK
<1>4. cur[t] = NoSnapshot /\ removed[t] = <<>> /\ go[t] = Nil
  BY <1>2, <1>3, ViewFields DEF Placed, Walks
<1>5. /\ pc'[t] = "root" /\ cur'[t] = NoSnapshot /\ par'[t] = NoSnapshot /\ removed'[t] = <<>>
      /\ go'[t] = Nil /\ call'[t] = [op |-> op, key |-> k, found |-> FALSE]
  BY <1>1, <1>2, <1>4 DEF InvOf, Shapes
<1>6. OnlyOwn(t)
  BY <1>1, <1>2 DEF InvOf, Shapes, OnlyOwn
<1>7. call'[t].op \in {"insert", "delete", "get"} /\ call'[t].key \in Keys
  BY <1>5, KeysAssumption DEF Keys
<1>8. ThreadOK(table, retired, z, l, t, After(t))
  BY <1>5, <1>7, ViewFields, Restarted
<1> QED BY <1>2, <1>5, <1>6, <1>8, QuietOwn

(* ReadRoot keeps the invariant.                                            *)
LEMMA ReadRootStep ==
  ASSUME NEW z, NEW l, InvOf(z, l), NEW t \in Threads, ReadRoot(t)
  PROVE  Inv'
<1>1. /\ pc[t] = "root" /\ pc' = [pc EXCEPT ![t] = "load"] /\ go' = [go EXCEPT ![t] = root]
      /\ UNCHANGED <<table, root, unused, retired, cur, par, removed, call>>
  BY DEF ReadRoot, To, treeVars
<1>2. Placed(View(t)) /\ Struct(table, retired, z, l, root)
  BY DEF InvOf, ThreadOK
<1>3. /\ cur[t] = NoSnapshot /\ par[t] = NoSnapshot /\ removed[t] = <<>>
      /\ call[t].op \in {"none", "insert", "delete", "get"} /\ call[t].op # "none" /\ call[t].key \in Keys
  BY <1>1, <1>2, ViewFields DEF Placed, Walks
<1>4. /\ pc'[t] = "load" /\ cur'[t] = NoSnapshot /\ par'[t] = NoSnapshot /\ removed'[t] = <<>>
      /\ go'[t] = root /\ call'[t] = call[t]
  BY <1>1, <1>3 DEF InvOf, Shapes
<1>5. OnlyOwn(t)
  BY <1>1 DEF InvOf, Shapes, OnlyOwn
<1>6. Guarded(table, retired, t, root) /\ N(table, root).low = 0 /\ root # Nil
  BY <1>2, IdsNotNil DEF Struct, Ends, InC, InT, Guarded
<1> DEFINE w == After(t)
<1>7. /\ w.pc = "load" /\ w.cur = NoSnapshot /\ w.par = NoSnapshot /\ w.removed = <<>>
      /\ w.go = root /\ w.call = call[t]
  BY <1>4, ViewFields
<1> HIDE DEF w
<1>8. SnapOK(table, NoSnapshot) /\ NoSnapshot.id = Nil
  BY DEF SnapOK, NoSnapshot
<1>9. Placed(w) /\ ~Walks(w)
  BY <1>3, <1>7, <1>8 DEF Placed, Stages, Walks, Gets
<1>10. GoOK(table, retired, t, w)
  BY <1>6, <1>7 DEF GoOK
<1>11. ThreadOK(table, retired, z, l, t, w)
  BY <1>7, <1>8, <1>9, <1>10 DEF ThreadOK
<1> QED BY <1>1, <1>4, <1>5, <1>11, QuietOwn DEF w

(* Snapshot, on the current table.                                          *)
LEMMA SnapshotIs ==
  ASSUME NEW i
  PROVE  Snapshot(i) = SnapOf(table, i)
BY DEF Snapshot, SnapOf

(* LoadRoot keeps the invariant.                                            *)
LEMMA LoadRootStep ==
  ASSUME NEW z, NEW l, InvOf(z, l), NEW t \in Threads, LoadRoot(t)
  PROVE  Inv'
<1> DEFINE w == View(t)
           w2 == After(t)
           i == go[t]
<1>1. pc[t] = "load" /\ UNCHANGED <<table, root, unused, retired, call>>
  BY DEF LoadRoot, treeVars
<1>2. /\ Struct(table, retired, z, l, root) /\ Placed(w) /\ GoOK(table, retired, t, w)
  BY DEF InvOf, ThreadOK
<1>3. /\ cur[t] = NoSnapshot /\ par[t] = NoSnapshot /\ removed[t] = <<>>
      /\ call[t].op \in {"insert", "delete", "get"} /\ call[t].key \in Keys
      /\ Guarded(table, retired, t, i) /\ N(table, i).low = 0 /\ i # Nil
  BY <1>1, <1>2, ViewFields DEF Placed, Walks, GoOK
<1>4. call[t].key \in Nat /\ N(table, i).low <= call[t].key
  BY <1>3, SizeAssumption DEF Keys
<1>5. CASE Reads(t) /\ table[i].type = "remove"
  BY <1>1, <1>5, RetryStep DEF LoadRoot, LoadNodeIDReadOptimized
<1>6. CASE Reads(t) /\ table[i].type # "remove"
  <2>1. /\ cur' = [cur EXCEPT ![t] = [Snapshot(i) EXCEPT !.id = Nil]] /\ pc' = [pc EXCEPT ![t] = "ready"]
        /\ UNCHANGED <<par, removed, go>>
    BY <1>6 DEF LoadRoot, LoadNodeIDReadOptimized, To
  <2>2. /\ pc'[t] = "ready" /\ cur'[t] = [SnapOf(table, i) EXCEPT !.id = Nil] /\ par'[t] = NoSnapshot
        /\ removed'[t] = <<>> /\ go'[t] = i /\ call'[t] = call[t]
    BY <1>1, <1>3, <2>1, SnapshotIs DEF InvOf, Shapes
  <2>3. OnlyOwn(t)
    BY <1>1, <2>1 DEF InvOf, Shapes, OnlyOwn
  <2>4. /\ w2.pc = "ready" /\ w2.cur = [SnapOf(table, i) EXCEPT !.id = Nil] /\ w2.par = NoSnapshot
        /\ w2.removed = <<>> /\ w2.go = i /\ w2.call = call[t]
    BY <2>2, ViewFields
  <2> HIDE DEF w2, i
  <2>5. GoOK(table, retired, t, w2) /\ Gets(w2)
    BY <1>3, <1>6, <2>4 DEF GoOK, Gets, Reads
  <2>6. ThreadOK(table, retired, z, l, t, w2)
    BY <1>2, <1>3, <1>4, <1>6, <2>4, <2>5, ReadHere
  <2> QED BY <1>1, <2>2, <2>3, <2>6, QuietOwn DEF w2
<1>7. CASE ~Reads(t)
  <2>1. /\ par' = [par EXCEPT ![t] = cur[t]] /\ cur' = [cur EXCEPT ![t] = Snapshot(i)]
        /\ pc' = [pc EXCEPT ![t] = Stage(Snapshot(i).node)] /\ UNCHANGED <<removed, go>>
    BY <1>7 DEF LoadRoot, TakeNodeSnapshot, To
  <2>2. /\ cur'[t] = SnapOf(table, i) /\ pc'[t] = Stage(cur'[t].node) /\ par'[t] = NoSnapshot
        /\ removed'[t] = <<>> /\ go'[t] = i /\ call'[t] = call[t]
    BY <1>1, <1>3, <2>1, SnapshotIs DEF InvOf, Shapes
  <2>3. OnlyOwn(t)
    BY <1>1, <2>1 DEF InvOf, Shapes, OnlyOwn
  <2>4. /\ w2.cur = SnapOf(table, i) /\ w2.pc = Stage(w2.cur.node) /\ w2.par = NoSnapshot
        /\ w2.removed = <<>> /\ w2.go = i /\ w2.call = call[t]
    BY <2>2, ViewFields
  <2> HIDE DEF w2, i
  <2>5. pc'[t] \in {"split", "merge", "remove", "fit"} /\ w2.pc \in {"split", "merge", "remove", "fit"}
    BY <2>2, <2>4 DEF Stage
  <2>6. GoOK(table, retired, t, w2) /\ RemovedOK(table, retired, t, w2)
    BY <1>3, <2>4, <2>5, EmptySeq DEF GoOK, RemovedOK
  <2>7. w2.par.id = Nil /\ SnapOK(table, w2.par)
    BY <2>4 DEF NoSnapshot, SnapOK
  <2>8. ParOK(table, retired, l, t, w2) /\ ChildOfPar(w2) /\ ~Lives(w2.par)
    BY <2>4, <2>7 DEF ParOK, ChildOfPar, Lives
  <2>9. ThreadOK(table, retired, z, l, t, w2)
    BY <1>2, <1>3, <1>4, <2>4, <2>6, <2>7, <2>8, Arrive
  <2> QED BY <1>1, <2>3, <2>5, <2>9, QuietOwn DEF w2
<1> QED BY <1>5, <1>6, <1>7

(* JumpToNodeID keeps the invariant.                                        *)
LEMMA JumpStep ==
  ASSUME NEW z, NEW l, InvOf(z, l), NEW t \in Threads, JumpToNodeID(t)
  PROVE  Inv'
<1> DEFINE w == View(t)
           w2 == After(t)
           i == go[t]
<1>1. /\ pc[t] = "jump" /\ UNCHANGED <<table, root, unused, retired, call, par, removed, go>>
      /\ cur' = [cur EXCEPT ![t] = Snapshot(i)] /\ pc' = [pc EXCEPT ![t] = Stage(Snapshot(i).node)]
  BY DEF JumpToNodeID, UpdateNodeSnapshot, To, treeVars
<1>2. Struct(table, retired, z, l, root) /\ ThreadOK(table, retired, z, l, t, w)
  BY DEF InvOf
<1>3. /\ w.pc = "jump" /\ w.cur = cur[t] /\ w.par = par[t] /\ w.removed = removed[t]
      /\ w.go = i /\ w.call = call[t] /\ Walks(w)
  BY <1>1, ViewFields DEF Walks
<1>4. /\ cur'[t] = SnapOf(table, i) /\ pc'[t] = Stage(cur'[t].node) /\ par'[t] = par[t]
      /\ removed'[t] = removed[t] /\ go'[t] = i /\ call'[t] = call[t]
  BY <1>1, SnapshotIs DEF InvOf, Shapes
<1>5. OnlyOwn(t)
  BY <1>1 DEF InvOf, Shapes, OnlyOwn
<1>6. /\ w2.cur = SnapOf(table, i) /\ w2.pc = Stage(w2.cur.node) /\ w2.par = w.par
      /\ w2.removed = w.removed /\ w2.go = i /\ w2.call = w.call
  BY <1>3, <1>4, ViewFields
<1> HIDE DEF w, w2, i
<1>7. /\ Placed(w) /\ SnapOK(table, w.par) /\ GoOK(table, retired, t, w) /\ ParOK(table, retired, l, t, w)
      /\ NextSepd(table, retired, z, l, w) /\ NotInto(z, w) /\ HalvesOK(table, w)
      /\ RemovedOK(table, retired, t, w) /\ JumpOK(w)
  BY <1>2, <1>3 DEF ThreadOK
<1>8. PICK s \in w.par.node.items : s[2] = i /\ s[1] <= w.call.key
  BY <1>3, <1>7 DEF JumpOK
<1>9. w.par.id # Nil /\ ~Gets(w) /\ w.call.op \in {"insert", "delete", "get"} /\ w.call.key \in Keys
  BY <1>3, <1>7 DEF JumpOK, Placed
<1>10. /\ Whole(w.par.node) /\ ~w.par.node.leaf /\ NodeRefs(table, retired, l, t, w.par.node, l[w.par.id])
       /\ Ref(table, retired, l, t, w.par.id, w.par.node.low, l[w.par.id])
       /\ w.call.key < w.par.node.high
  BY <1>7, <1>9 DEF ParOK
<1>11. /\ Ref(table, retired, l, t, i, s[1], l[w.par.id] - 1) /\ l[w.par.id] \in Nat
       /\ s = <<s[1], s[2]>>
  BY <1>8, <1>10 DEF NodeRefs, Whole, InnerOK
<1>12. Guarded(table, retired, t, i) /\ N(table, i).low = s[1] /\ l[i] + 1 = l[w.par.id] /\ i # Nil
  BY <1>11, IdsNotNil DEF Ref, Guarded
<1>13. w2.cur.id = i /\ w2.cur.node.low = s[1]
  <2>1. w2.cur.id = i /\ w2.cur.node.low = N(table, i).low
    BY <1>2, <1>6, <1>12, Taken
  <2> QED BY <1>12, <2>1
<1>14. w2.pc \in {"split", "merge", "remove", "fit"}
  BY <1>6 DEF Stage
<1>15. GoOK(table, retired, t, w2) /\ RemovedOK(table, retired, t, w2) /\ ~Gets(w2)
  BY <1>6, <1>7, <1>9, <1>12, <1>14 DEF GoOK, RemovedOK, Gets
<1>16. ParOK(table, retired, l, t, w2) /\ ChildOfPar(w2)
  <2>1. ParOK(table, retired, l, t, w2)
    BY <1>6, <1>9, <1>10, <1>12, <1>13 DEF ParOK
  <2>2. <<s[1], i>> \in w2.par.node.items
    BY <1>6, <1>8, <1>11
  <2> QED BY <1>13, <2>1, <2>2 DEF ChildOfPar
<1>17. /\ Lives(w2.par) => \A j \in Ids : z[j] # w2.par.id
       /\ Lives(w2.par) /\ TooLarge(w2.par.node) => table[SplitChild(w2.par.node)].type = "remove"
       /\ w2.par.id # Nil /\ w2.par.node.next # Nil => Sepd(table, retired, z, l, w2.par.node.next)
  BY <1>6, <1>7 DEF NotInto, HalvesOK, NextSepd
<1>18. N(table, i).low <= w2.call.key /\ SnapOK(table, w2.par) /\ w2.call.op \in {"insert", "delete", "get"}
       /\ w2.call.key \in Keys
  BY <1>6, <1>7, <1>8, <1>9, <1>12
<1>19. ThreadOK(table, retired, z, l, t, w2)
  BY <1>2, <1>6, <1>12, <1>15, <1>16, <1>17, <1>18, Arrive
<1>20. pc'[t] \notin {"out", "postremove", "unblock"} /\ ThreadOK(table, retired, z, l, t, After(t))
  BY <1>14, <1>19, ViewFields DEF w2
<1> QED BY <1>1, <1>5, <1>20, QuietOwn

(* JumpToLeftSibling keeps the invariant.                                   *)
LEMMA JumpToLeftStep ==
  ASSUME NEW z, NEW l, InvOf(z, l), NEW t \in Threads, JumpToLeftSibling(t)
  PROVE  Inv'
<1> DEFINE w == View(t)
           w2 == After(t)
           n == cur[t].node
<1>1. /\ pc[t] = "remove" /\ HasParent(t) /\ UNCHANGED <<table, root, unused, retired, call>>
  BY DEF JumpToLeftSibling, treeVars
<1>2. Struct(table, retired, z, l, root) /\ ThreadOK(table, retired, z, l, t, w)
  BY DEF InvOf
<1>3. CASE LowChild(par[t].node) = cur[t].id \/ ~Matches(par[t])
  BY <1>1, <1>3, RetryStep DEF JumpToLeftSibling
<1>4. CASE ~(LowChild(par[t].node) = cur[t].id \/ ~Matches(par[t]))
  <2>1. /\ removed' = [removed EXCEPT ![t] = Append(@, [id |-> cur[t].id, right |-> n.under[1]])]
        /\ go' = [go EXCEPT ![t] = LeftOf(par[t].node, n.low)]
        /\ pc' = [pc EXCEPT ![t] = "jump"] /\ UNCHANGED <<cur, par>>
    BY <1>4 DEF JumpToLeftSibling, To
  <2> DEFINE new == [id |-> cur[t].id, right |-> n.under[1]]
             g   == LeftOf(par[t].node, n.low)
  <2>2. /\ pc'[t] = "jump" /\ cur'[t] = cur[t] /\ par'[t] = par[t]
        /\ removed'[t] = Append(removed[t], new) /\ go'[t] = g /\ call'[t] = call[t]
    BY <1>1, <2>1 DEF InvOf, Shapes
  <2>3. OnlyOwn(t)
    BY <1>1, <2>1 DEF InvOf, Shapes, OnlyOwn
  <2>4. /\ w.pc = "remove" /\ w.cur = cur[t] /\ w.par = par[t] /\ w.removed = removed[t]
        /\ w.call = call[t] /\ Walks(w)
        /\ w2.pc = "jump" /\ w2.cur = w.cur /\ w2.par = w.par /\ w2.removed = Append(w.removed, new)
        /\ w2.go = g /\ w2.call = w.call /\ Walks(w2)
    BY <1>1, <2>2, ViewFields DEF Walks
  <2>5. w.par.id # Nil /\ Lives(w.par) /\ LowChild(w.par.node) # w.cur.id
    BY <1>1, <1>4, <2>4 DEF HasParent, Matches, Lives
  <2>6. g = LeftOf(w.par.node, w.cur.node.low) /\ new = [id |-> w.cur.id, right |-> w.cur.node.under[1]]
    BY <2>4
  <2> HIDE DEF w, w2, new, g, n
  <2>7. /\ CurOK(table, retired, l, t, w) /\ ParOK(table, retired, l, t, w) /\ Placed(w)
        /\ SnapOK(table, w.par) /\ SnapOK(table, w.cur) /\ ChildOfPar(w) /\ NotInto(z, w)
        /\ NextSepd(table, retired, z, l, w) /\ HalvesOK(table, w) /\ RemovedOK(table, retired, t, w)
    BY <1>2, <2>4 DEF ThreadOK
  <2>8. /\ w.cur.node.type = "remove" /\ w.cur.id \in Ids /\ w.cur.id # Nil
        /\ table[w.cur.id] = w.cur.node /\ Guarded(table, retired, t, w.cur.id)
        /\ w.cur.node.low <= w.call.key
    BY <2>4, <2>7 DEF CurOK, Gets, Ref, Guarded
  <2>9. /\ Whole(w.par.node) /\ ~w.par.node.leaf /\ NodeRefs(table, retired, l, t, w.par.node, l[w.par.id])
        /\ InnerOK(w.par.node) /\ w.par.node.low \in Nat
    BY <2>5, <2>7 DEF ParOK, Whole
  <2> DEFINE s == <<w.cur.node.low, w.cur.id>>
  <2>10. s \in w.par.node.items /\ s[1] = w.cur.node.low /\ s[2] = w.cur.id
    BY <2>5, <2>7 DEF ChildOfPar
  <2> HIDE DEF s
  <2>11. w.par.node.low < s[1] /\ s[1] \in Nat
    <3>1. s[1] # w.par.node.low
      BY <2>5, <2>9, <2>10, LowChildIs
    <3> QED BY <2>9, <2>10, <3>1 DEF InnerOK
  <2>12. PICK x \in w.par.node.items : x[2] = LeftOf(w.par.node, s[1]) /\ x[1] < s[1]
    BY <2>9, <2>10, <2>11, LeftOfIs
  <2>13. x[2] = g /\ x[1] \in Nat /\ x[1] <= w.call.key /\ g \in Ids
    <3>1. w.call.key \in Nat
      BY <2>4, <2>7, SizeAssumption DEF Placed, Keys
    <3>2. x[1] \in Nat /\ x[2] \in Ids
      BY <2>9 DEF InnerOK
    <3> QED BY <2>6, <2>8, <2>10, <2>11, <2>12, <3>1, <3>2
  <2>14. Guarded(table, retired, t, g)
    BY <2>9, <2>13 DEF NodeRefs, Ref
  <2>15. Placed(w2) /\ GoOK(table, retired, t, w2)
    BY <2>4, <2>5, <2>7, <2>14 DEF Placed, Walks, Stages, Gets, GoOK
  <2>16. CurOK(table, retired, l, t, w2) /\ ParOK(table, retired, l, t, w2)
    BY <2>4, <2>7, <2>8 DEF CurOK, ParOK, Gets
  <2>17. /\ ChildOfPar(w2) /\ NextOfPar(w2) /\ NextSepd(table, retired, z, l, w2) /\ NotInto(z, w2)
         /\ MergeOK(z, w2) /\ SplitOK(retired, w2) /\ HalvesOK(table, w2) /\ BlockOK(w2)
    BY <2>4, <2>7, <2>8 DEF ChildOfPar, NextOfPar, NextSepd, NotInto, MergeOK, SplitOK, HalvesOK, BlockOK
  <2>18. JumpOK(w2)
    BY <2>4, <2>5, <2>13 DEF JumpOK
  <2>19. RemovedOK(table, retired, t, w2)
    <3>1. new \in Removal(table) /\ new.id = w.cur.id
      BY <2>6, <2>8 DEF Removal
    <3>2. w.removed \in Seq(Removal(table))
      BY <2>7 DEF RemovedOK
    <3>3. Append(w.removed, new) \in Seq(Removal(table)) /\ Len(Append(w.removed, new)) = Len(w.removed) + 1
      BY <3>1, <3>2
    <3>4. ASSUME NEW j \in 1 .. Len(w2.removed)
          PROVE  Guarded(table, retired, t, w2.removed[j].id) /\ table[w2.removed[j].id].type = "remove"
      <4>1. CASE j = Len(w.removed) + 1
        <5>1. w2.removed[j] = new
          BY <2>4, <3>2, <4>1
        <5> QED BY <2>8, <3>1, <5>1
      <4>2. CASE j # Len(w.removed) + 1
        <5>1. j \in 1 .. Len(w.removed) /\ w2.removed[j] = w.removed[j]
          BY <2>4, <3>2, <3>3, <3>4, <4>2
        <5> QED BY <2>7, <5>1 DEF RemovedOK
      <4> QED BY <4>1, <4>2
    <3> QED BY <2>4, <3>3, <3>4 DEF RemovedOK
  <2>20. ThreadOK(table, retired, z, l, t, w2)
    BY <2>4, <2>7, <2>15, <2>16, <2>17, <2>18, <2>19 DEF ThreadOK
  <2>21. ThreadOK(table, retired, z, l, t, After(t))
    BY <2>20 DEF w2
  <2> QED BY <1>1, <2>2, <2>3, <2>21, QuietOwn
<1> QED BY <1>3, <1>4

(* A thread at a node that is no half-done modification.                    *)
LEMMA At ==
  ASSUME NEW z, NEW l, InvOf(z, l), NEW t \in Threads, AtNode(t),
         NEW w, w = View(t)
  PROVE  /\ w.pc \in {"fit", "ready"} /\ Walks(w)
         /\ w.pc = pc[t] /\ w.cur = cur[t] /\ w.par = par[t] /\ w.removed = removed[t]
         /\ w.go = go[t] /\ w.call = call[t]
         /\ Struct(table, retired, z, l, root) /\ ThreadOK(table, retired, z, l, t, w)
         /\ w.cur.node.type # "remove" /\ Whole(w.cur.node)
         /\ ~Gets(w) => w.cur.id # Nil
         /\ w.cur.node.low <= w.call.key /\ w.call.key \in Keys /\ w.call.key \in Nat
         /\ w.call.op \in {"insert", "delete", "get"}
         /\ ~Gets(w) /\ ~w.cur.node.leaf /\ Lives(w.cur) /\ TooLarge(w.cur.node)
              => table[SplitChild(w.cur.node)].type = "remove"
<1>1. /\ w.pc = pc[t] /\ w.cur = cur[t] /\ w.par = par[t] /\ w.removed = removed[t]
      /\ w.go = go[t] /\ w.call = call[t]
  BY ViewFields
<1>2. w.pc \in {"fit", "ready"} /\ (w.pc = "fit" => ~TooLarge(w.cur.node))
  BY <1>1 DEF AtNode, MustSplit
<1>3. Walks(w)
  BY <1>2 DEF Walks
<1>4. Struct(table, retired, z, l, root) /\ ThreadOK(table, retired, z, l, t, w)
  BY DEF InvOf
<1>5. CurOK(table, retired, l, t, w) /\ Placed(w) /\ HalvesOK(table, w)
  BY <1>3, <1>4 DEF ThreadOK
<1>6. w.cur.node.type # "remove"
  BY <1>2, <1>5 DEF CurOK
<1>7. Whole(w.cur.node)
  BY <1>5, <1>6, EntryFacts, PlainTypes DEF CurOK
<1>8. w.call.key \in Keys /\ w.call.key \in Nat /\ w.call.op \in {"insert", "delete", "get"}
  BY <1>2, <1>5, SizeAssumption DEF Placed, Keys
<1> QED BY <1>1, <1>2, <1>3, <1>4, <1>5, <1>6, <1>7, <1>8 DEF CurOK, HalvesOK

(* GoRight keeps the invariant.                                             *)
LEMMA GoRightStep ==
  ASSUME NEW z, NEW l, InvOf(z, l), NEW t \in Threads, GoRight(t)
  PROVE  Inv'
<1> DEFINE w == View(t)
           w2 == After(t)
           i == cur[t].node.next
<1>1. /\ AtNode(t) /\ removed[t] = <<>> /\ i # Nil /\ call[t].key >= cur[t].node.high
      /\ UNCHANGED <<table, root, unused, retired, call, par, removed, go>>
      /\ cur' = [cur EXCEPT ![t] = Snapshot(i)] /\ pc' = [pc EXCEPT ![t] = Stage(Snapshot(i).node)]
  BY DEF GoRight, Navigating, Beyond, UpdateNodeSnapshot, To, treeVars
<1>2. /\ w.pc \in {"fit", "ready"} /\ Walks(w)
      /\ w.pc = pc[t] /\ w.cur = cur[t] /\ w.par = par[t] /\ w.removed = removed[t]
      /\ w.go = go[t] /\ w.call = call[t]
      /\ Struct(table, retired, z, l, root) /\ ThreadOK(table, retired, z, l, t, w)
      /\ w.cur.node.type # "remove" /\ Whole(w.cur.node)
      /\ w.call.key \in Keys /\ w.call.key \in Nat /\ w.call.op \in {"insert", "delete", "get"}
  BY <1>1, At
<1>3. i = w.cur.node.next /\ w.removed = <<>> /\ w.call.key >= w.cur.node.high
  BY <1>1, <1>2
<1>4. /\ cur'[t] = SnapOf(table, i) /\ pc'[t] = Stage(cur'[t].node) /\ par'[t] = par[t]
      /\ removed'[t] = removed[t] /\ go'[t] = go[t] /\ call'[t] = call[t]
  BY <1>1, SnapshotIs DEF InvOf, Shapes
<1>5. OnlyOwn(t)
  BY <1>1 DEF InvOf, Shapes, OnlyOwn
<1>6. /\ w2.cur = SnapOf(table, i) /\ w2.pc = Stage(w2.cur.node) /\ w2.par = w.par
      /\ w2.removed = w.removed /\ w2.go = w.go /\ w2.call = w.call
  BY <1>2, <1>4, ViewFields
<1> HIDE DEF w, w2, i
<1>7. /\ Placed(w) /\ SnapOK(table, w.par) /\ GoOK(table, retired, t, w) /\ ParOK(table, retired, l, t, w)
      /\ CurOK(table, retired, l, t, w) /\ NextOfPar(w)
      /\ NextSepd(table, retired, z, l, w) /\ NotInto(z, w) /\ HalvesOK(table, w)
      /\ RemovedOK(table, retired, t, w)
  BY <1>2 DEF ThreadOK
<1>8. PICK v \in Nat : NodeRefs(table, retired, l, t, w.cur.node, v) /\ (w.cur.id # Nil => v = l[w.cur.id])
  BY <1>7 DEF CurOK
<1>9. Guarded(table, retired, t, i) /\ N(table, i).low = w.cur.node.high /\ l[i] = v
  BY <1>1, <1>3, <1>8 DEF NodeRefs, Ref
<1>10. w.cur.node.high \in Nat /\ w.cur.node.high <= w.call.key
  BY <1>2, <1>3 DEF Whole
<1>11. w2.cur.id = i /\ w2.cur.node.low = w.cur.node.high
  <2>1. w2.cur.id = i /\ w2.cur.node.low = N(table, i).low
    BY <1>2, <1>6, <1>9, Taken
  <2> QED BY <1>9, <2>1
<1>12. w2.pc \in {"split", "merge", "remove", "fit"}
  BY <1>6 DEF Stage
<1>13. /\ GoOK(table, retired, t, w2) /\ RemovedOK(table, retired, t, w2)
       /\ Gets(w2) => w2.par.id = Nil /\ w2.removed = <<>>
  BY <1>6, <1>7, <1>12 DEF GoOK, RemovedOK, Gets, Placed
<1>14. ParOK(table, retired, l, t, w2)
  BY <1>1, <1>6, <1>7, <1>8, <1>9, <1>11 DEF ParOK
<1>15. ChildOfPar(w2)
  <2>1. ASSUME Lives(w.par) PROVE <<w.cur.node.high, i>> \in w.par.node.items
    <3>1. w.call.key < w.par.node.high /\ Whole(w.par.node)
      BY <1>7, <2>1 DEF ParOK, Lives
    <3>2. w.cur.node.high < w.par.node.high
      BY <1>2, <1>10, <3>1 DEF Whole
    <3> QED BY <1>1, <1>2, <1>3, <1>7, <2>1, <3>2 DEF NextOfPar
  <2> QED BY <1>6, <1>11, <2>1 DEF ChildOfPar
<1>16. /\ Lives(w2.par) => \A j \in Ids : z[j] # w2.par.id
       /\ Lives(w2.par) /\ TooLarge(w2.par.node) => table[SplitChild(w2.par.node)].type = "remove"
       /\ w2.par.id # Nil /\ w2.par.node.next # Nil => Sepd(table, retired, z, l, w2.par.node.next)
  BY <1>6, <1>7 DEF NotInto, HalvesOK, NextSepd
<1>17. N(table, i).low <= w2.call.key /\ SnapOK(table, w2.par) /\ w2.call.op \in {"insert", "delete", "get"}
       /\ w2.call.key \in Keys
  BY <1>2, <1>6, <1>7, <1>9, <1>10
<1>18. ThreadOK(table, retired, z, l, t, w2)
  BY <1>2, <1>6, <1>9, <1>13, <1>14, <1>15, <1>16, <1>17, Arrive
<1>19. /\ pc'[t] \notin {"out", "postremove", "unblock"} /\ ThreadOK(table, retired, z, l, t, After(t))
       /\ pc[t] \notin {"postremove", "unblock"}
  BY <1>2, <1>12, <1>18, ViewFields DEF w2
<1> QED BY <1>1, <1>5, <1>19, QuietOwn

(* GoDown keeps the invariant.                                              *)
LEMMA GoDownStep ==
  ASSUME NEW z, NEW l, InvOf(z, l), NEW t \in Threads, GoDown(t)
  PROVE  Inv'
<1> DEFINE w == View(t)
           w2 == After(t)
           i == ChildFor(cur[t].node, call[t].key)
<1>1. /\ AtNode(t) /\ removed[t] = <<>> /\ ~Beyond(t) /\ ~cur[t].node.leaf
      /\ UNCHANGED <<table, root, unused, retired, call>>
  BY DEF GoDown, Navigating, treeVars
<1>2. /\ w.pc \in {"fit", "ready"} /\ Walks(w)
      /\ w.pc = pc[t] /\ w.cur = cur[t] /\ w.par = par[t] /\ w.removed = removed[t]
      /\ w.go = go[t] /\ w.call = call[t]
      /\ Struct(table, retired, z, l, root) /\ ThreadOK(table, retired, z, l, t, w)
      /\ w.cur.node.type # "remove" /\ Whole(w.cur.node)
      /\ ~Gets(w) => w.cur.id # Nil
      /\ w.cur.node.low <= w.call.key /\ w.call.key \in Keys /\ w.call.key \in Nat
      /\ w.call.op \in {"insert", "delete", "get"}
      /\ ~Gets(w) /\ ~w.cur.node.leaf /\ Lives(w.cur) /\ TooLarge(w.cur.node)
           => table[SplitChild(w.cur.node)].type = "remove"
  BY <1>1, At
<1>3. /\ i = ChildFor(w.cur.node, w.call.key) /\ w.removed = <<>> /\ ~w.cur.node.leaf
      /\ Gets(w) <=> Reads(t)
      /\ w.cur.node.next = Nil \/ ~(w.call.key >= w.cur.node.high)
  BY <1>1, <1>2 DEF Gets, Reads, Beyond
<1> HIDE DEF w, i
<1>4. /\ Placed(w) /\ SnapOK(table, w.par) /\ SnapOK(table, w.cur) /\ GoOK(table, retired, t, w)
      /\ ParOK(table, retired, l, t, w) /\ CurOK(table, retired, l, t, w)
      /\ NextSepd(table, retired, z, l, w) /\ NotInto(z, w) /\ HalvesOK(table, w)
      /\ RemovedOK(table, retired, t, w)
  BY <1>2 DEF ThreadOK
<1>5. PICK v \in Nat : NodeRefs(table, retired, l, t, w.cur.node, v) /\ (w.cur.id # Nil => v = l[w.cur.id])
  BY <1>4 DEF CurOK
<1>6. PICK s \in w.cur.node.items : s[2] = i /\ s[1] <= w.call.key
  BY <1>2, <1>3, ChildForIs
<1>7. s = <<s[1], s[2]>>
  BY <1>2, <1>3 DEF Whole, InnerOK
<1>8. /\ Guarded(table, retired, t, i) /\ N(table, i).low = s[1] /\ l[i] + 1 = v
      /\ <<s[1], i>> \in w.cur.node.items
  <2>1. v # 0 /\ Ref(table, retired, l, t, i, s[1], v - 1)
    BY <1>3, <1>5, <1>6 DEF NodeRefs
  <2> QED BY <1>6, <1>7, <2>1 DEF Ref
<1>9. w.call.key < w.cur.node.high
  <2>1. w.cur.node.high \in Nat /\ (w.cur.node.next = Nil => w.cur.node.high = Inf)
    BY <1>2 DEF Whole
  <2> QED BY <1>2, <1>3, <2>1, SizeAssumption DEF Keys, Inf
<1>10. CASE Reads(t) /\ table[i].type = "remove"
  BY <1>1, <1>2, <1>10, RetryStep DEF GoDown, LoadNodeIDReadOptimized, i
<1>11. CASE Reads(t) /\ table[i].type # "remove"
  <2>1. /\ cur' = [cur EXCEPT ![t] = [Snapshot(i) EXCEPT !.id = Nil]] /\ pc' = [pc EXCEPT ![t] = "ready"]
        /\ UNCHANGED <<par, removed, go>>
    BY <1>11 DEF GoDown, LoadNodeIDReadOptimized, To, i
  <2>2. /\ pc'[t] = "ready" /\ cur'[t] = [SnapOf(table, i) EXCEPT !.id = Nil] /\ par'[t] = par[t]
        /\ removed'[t] = removed[t] /\ go'[t] = go[t] /\ call'[t] = call[t]
    BY <1>1, <2>1, SnapshotIs DEF InvOf, Shapes
  <2>3. OnlyOwn(t)
    BY <1>1, <2>1 DEF InvOf, Shapes, OnlyOwn
  <2>4. /\ w2.pc = "ready" /\ w2.cur = [SnapOf(table, i) EXCEPT !.id = Nil] /\ w2.par = w.par
        /\ w2.removed = <<>> /\ w2.go = w.go /\ w2.call = w.call
    BY <1>2, <1>3, <2>2, ViewFields
  <2> HIDE DEF w2
  <2>5. GoOK(table, retired, t, w2) /\ Gets(w2) /\ w2.par = NoSnapshot
    BY <1>3, <1>4, <1>11, <2>4 DEF GoOK, Gets, Placed, ParOK
  <2>6. N(table, i).low <= w2.call.key /\ w2.call.key \in Keys
    BY <1>2, <1>6, <1>8, <2>4
  <2>7. ThreadOK(table, retired, z, l, t, w2)
    BY <1>2, <1>8, <1>11, <2>4, <2>5, <2>6, ReadHere
  <2> QED BY <1>1, <1>2, <2>2, <2>3, <2>7, QuietOwn DEF w2
<1>12. CASE ~Reads(t)
  <2>1. /\ par' = [par EXCEPT ![t] = cur[t]] /\ cur' = [cur EXCEPT ![t] = Snapshot(i)]
        /\ pc' = [pc EXCEPT ![t] = Stage(Snapshot(i).node)] /\ UNCHANGED <<removed, go>>
    BY <1>12 DEF GoDown, TakeNodeSnapshot, To, i
  <2>2. /\ cur'[t] = SnapOf(table, i) /\ pc'[t] = Stage(cur'[t].node) /\ par'[t] = cur[t]
        /\ removed'[t] = removed[t] /\ go'[t] = go[t] /\ call'[t] = call[t]
    BY <1>1, <2>1, SnapshotIs DEF InvOf, Shapes
  <2>3. OnlyOwn(t)
    BY <1>1, <2>1 DEF InvOf, Shapes, OnlyOwn
  <2>4. /\ w2.cur = SnapOf(table, i) /\ w2.pc = Stage(w2.cur.node) /\ w2.par = w.cur
        /\ w2.removed = w.removed /\ w2.go = w.go /\ w2.call = w.call
    BY <1>2, <2>2, ViewFields
  <2> HIDE DEF w2
  <2>5. w2.pc \in {"split", "merge", "remove", "fit"}
    BY <2>4 DEF Stage
  <2>6. /\ GoOK(table, retired, t, w2) /\ RemovedOK(table, retired, t, w2) /\ ~Gets(w2) /\ ~Gets(w)
    BY <1>3, <1>4, <1>12, <2>4, <2>5 DEF GoOK, RemovedOK, Gets
  <2>7. w2.cur.id = i /\ w2.cur.node.low = s[1] /\ i # Nil
    <3>1. w2.cur.id = i /\ w2.cur.node.low = N(table, i).low /\ i # Nil
      BY <1>2, <1>8, <2>4, Taken
    <3> QED BY <1>8, <3>1
  <2>8. w.cur.id # Nil /\ v = l[w.cur.id]
    BY <1>2, <1>5, <2>6
  <2>9. ParOK(table, retired, l, t, w2)
    <3>1. Ref(table, retired, l, t, w.cur.id, w.cur.node.low, l[w.cur.id])
      BY <1>4, <2>8 DEF CurOK
    <3> QED BY <1>2, <1>3, <1>5, <1>8, <1>9, <2>4, <2>7, <2>8, <3>1 DEF ParOK
  <2>10. ChildOfPar(w2)
    BY <1>8, <2>4, <2>7 DEF ChildOfPar
  <2>11. /\ Lives(w2.par) => \A j \in Ids : z[j] # w2.par.id
         /\ Lives(w2.par) /\ TooLarge(w2.par.node) => table[SplitChild(w2.par.node)].type = "remove"
         /\ w2.par.id # Nil /\ w2.par.node.next # Nil => Sepd(table, retired, z, l, w2.par.node.next)
    BY <1>2, <1>3, <1>4, <2>4, <2>6 DEF NotInto, NextSepd
  <2>12. /\ N(table, i).low <= w2.call.key /\ SnapOK(table, w2.par)
         /\ w2.call.op \in {"insert", "delete", "get"} /\ w2.call.key \in Keys
    BY <1>2, <1>4, <1>6, <1>8, <2>4
  <2>13. ThreadOK(table, retired, z, l, t, w2)
    BY <1>2, <1>8, <2>4, <2>6, <2>9, <2>10, <2>11, <2>12, Arrive
  <2>14. pc'[t] \notin {"out", "postremove", "unblock"} /\ ThreadOK(table, retired, z, l, t, After(t))
         /\ pc[t] \notin {"postremove", "unblock"}
    BY <1>2, <2>5, <2>13, ViewFields DEF w2
  <2> QED BY <1>1, <2>3, <2>14, QuietOwn
<1> QED BY <1>10, <1>11, <1>12

(* A thread in the middle of its work on a node.                            *)
LEMMA AtWork ==
  ASSUME NEW z, NEW l, InvOf(z, l), NEW t \in Threads,
         pc[t] \in {"merge", "split", "consolidate", "fit", "innersplit", "postremove", "unblock"},
         NEW w, w = View(t)
  PROVE  /\ Walks(w)
         /\ w.pc = pc[t] /\ w.cur = cur[t] /\ w.par = par[t] /\ w.removed = removed[t]
         /\ w.go = go[t] /\ w.call = call[t]
         /\ Struct(table, retired, z, l, root) /\ ThreadOK(table, retired, z, l, t, w)
         /\ w.cur.node.type # "remove" /\ Whole(w.cur.node) /\ w.cur.id \in Ids /\ w.cur.id # Nil
         /\ w.cur.node.low <= w.call.key
         /\ CurOK(table, retired, l, t, w) /\ ParOK(table, retired, l, t, w) /\ Placed(w)
         /\ SnapOK(table, w.par) /\ SnapOK(table, w.cur) /\ ChildOfPar(w) /\ NextOfPar(w)
         /\ NextSepd(table, retired, z, l, w) /\ NotInto(z, w) /\ MergeOK(z, w) /\ SplitOK(retired, w)
         /\ HalvesOK(table, w) /\ BlockOK(w) /\ RemovedOK(table, retired, t, w)
<1>1. /\ w.pc = pc[t] /\ w.cur = cur[t] /\ w.par = par[t] /\ w.removed = removed[t]
      /\ w.go = go[t] /\ w.call = call[t]
  BY ViewFields
<1>2. Walks(w)
  BY <1>1 DEF Walks
<1>3. Struct(table, retired, z, l, root) /\ ThreadOK(table, retired, z, l, t, w)
  BY DEF InvOf
<1>4. /\ CurOK(table, retired, l, t, w) /\ ParOK(table, retired, l, t, w) /\ Placed(w)
      /\ SnapOK(table, w.par) /\ SnapOK(table, w.cur) /\ ChildOfPar(w) /\ NextOfPar(w)
      /\ NextSepd(table, retired, z, l, w) /\ NotInto(z, w) /\ MergeOK(z, w) /\ SplitOK(retired, w)
      /\ HalvesOK(table, w) /\ BlockOK(w) /\ RemovedOK(table, retired, t, w)
  BY <1>2, <1>3 DEF ThreadOK
<1>5. w.cur.node.type # "remove" /\ w.cur.id # Nil
  BY <1>1, <1>4 DEF CurOK
<1>6. Whole(w.cur.node)
  BY <1>4, <1>5, EntryFacts, PlainTypes DEF CurOK
<1>7. w.cur.id \in Ids /\ w.cur.node.low <= w.call.key
  BY <1>4, <1>5 DEF CurOK, Ref, Guarded
<1> QED BY <1>1, <1>2, <1>3, <1>4, <1>5, <1>6, <1>7

(* A step to the next thing to do at the same node, nothing else.           *)
LEMMA GoOnStep ==
  ASSUME NEW z, NEW l, InvOf(z, l), NEW t \in Threads,
         pc[t] \in {"merge", "split", "consolidate", "fit", "innersplit", "postremove"},
         NEW stage \in {"fit", "ready", "innersplit", "unblock"}, To(t, stage),
         pc[t] = "postremove" <=> stage = "unblock",
         UNCHANGED <<table, retired, root, unused, cur, par, removed, go, call>>,
         pc[t] = "split" => NextOfPar(After(t)) /\ NextSepd(table, retired, z, l, After(t)),
         pc[t] = "merge" => NotInto(z, After(t)),
         HalvesOK(table, After(t))
  PROVE  Inv'
<1> DEFINE w == View(t)
           w2 == After(t)
<1>1. /\ Walks(w)
      /\ w.pc = pc[t] /\ w.cur = cur[t] /\ w.par = par[t] /\ w.removed = removed[t]
      /\ w.go = go[t] /\ w.call = call[t]
      /\ ThreadOK(table, retired, z, l, t, w)
      /\ w.cur.node.type # "remove" /\ w.cur.id # Nil /\ BlockOK(w)
  BY AtWork
<1>2. pc' = [pc EXCEPT ![t] = stage]
  BY DEF To
<1>3. pc'[t] = stage
  BY <1>2 DEF InvOf, Shapes
<1>4. OnlyOwn(t)
  BY <1>2 DEF InvOf, Shapes, OnlyOwn
<1>5. /\ w2.pc = stage /\ w2.cur = w.cur /\ w2.par = w.par /\ w2.removed = w.removed
      /\ w2.go = w.go /\ w2.call = w.call
  BY <1>1, <1>3, ViewFields
<1>6. /\ w.pc = "split" => NextOfPar(w2) /\ NextSepd(table, retired, z, l, w2)
      /\ w.pc = "merge" => NotInto(z, w2)
      /\ HalvesOK(table, w2)
  BY <1>1
<1>7. stage = "unblock" <=> w.pc = "postremove"
  BY <1>1
<1> HIDE DEF w, w2
<1>8. BlockOK(w2)
  BY <1>1, <1>5, <1>7 DEF BlockOK
<1>9. ThreadOK(table, retired, z, l, t, w2)
  BY <1>1, <1>5, <1>6, <1>8, GoOn
<1>10. ThreadOK(table, retired, z, l, t, After(t))
  BY <1>9 DEF w2
<1>11. CASE stage # "unblock"
  BY <1>3, <1>4, <1>10, <1>11, QuietOwn
<1>12. CASE stage = "unblock"
  <2>1. Shapes' /\ \A u \in Threads \ {t} : View(u)' = View(u)
    BY <1>4 DEF OnlyOwn, View
  <2>2. ThreadOK(table, retired, z, l, t, View(t)')
    BY <1>10, ViewFields
  <2>3. \A id \in Ids : Owns(t, id)' <=> Owns(t, id)
    BY <1>3, <1>12 DEF Owns
  <2>4. pc'[t] # "out"
    BY <1>3
  <2> QED BY <2>1, <2>2, <2>3, <2>4, Quiet
<1> QED BY <1>11, <1>12

(* CheckSplitChild keeps the invariant.                                     *)
LEMMA CheckSplitChildStep ==
  ASSUME NEW z, NEW l, InvOf(z, l), NEW t \in Threads, CheckSplitChild(t)
  PROVE  Inv'
<1> DEFINE n == cur[t].node
           w2 == After(t)
           stage == IF SplitChildRemoved(n) THEN "ready" ELSE "innersplit"
<1>1. /\ pc[t] = "fit" /\ TooLarge(n) /\ ~n.leaf /\ To(t, stage)
      /\ UNCHANGED <<table, retired, root, unused, cur, par, removed, go, call>>
  BY DEF CheckSplitChild, MustSplit, treeVars
<1>2. HalvesOK(table, View(t))
  BY <1>1, AtWork
<1>3. pc'[t] = stage
  BY <1>1 DEF To, InvOf, Shapes
<1>4. SplitChildRemoved(n) <=> table[SplitChild(n)].type = "remove"
  BY DEF SplitChildRemoved, SplitChild
<1>5. w2.pc = stage /\ w2.cur = cur[t] /\ w2.par = par[t] /\ View(t).par = par[t]
  BY <1>1, <1>3, ViewFields
<1>6. HalvesOK(table, w2)
  <2>1. stage = "innersplit" => table[SplitChild(n)].type # "remove"
    BY <1>4
  <2>2. stage = "ready" => table[SplitChild(n)].type = "remove"
    BY <1>4
  <2>3. w2.cur.node = n /\ (Lives(w2.par) /\ TooLarge(w2.par.node) => table[SplitChild(w2.par.node)].type = "remove")
    BY <1>2, <1>5 DEF HalvesOK
  <2> HIDE DEF w2, stage, n
  <2> QED BY <1>1, <1>5, <2>1, <2>2, <2>3 DEF HalvesOK
<1>7. stage \in {"fit", "ready", "innersplit", "unblock"} /\ stage # "unblock"
  OBVIOUS
<1> HIDE DEF stage, w2
<1>8. HalvesOK(table, After(t))
  BY <1>6 DEF w2
<1> QED BY <1>1, <1>7, <1>8, GoOnStep

(* Steps that write an entry *)

Outdates(t, i) ==
  /\ Shapes'
  /\ \A u \in Threads \ {t} :
       /\ pc'[u] = pc[u] /\ removed'[u] = removed[u] /\ go'[u] = go[u] /\ call'[u] = call[u]
       /\ cur'[u] = OutSnap(cur[u], i) /\ par'[u] = OutSnap(par[u], i)

(* A write keeps the invariant if the tree, the other threads and the       *)
(* writer allow it.                                                         *)
LEMMA WriteStep ==
  ASSUME NEW z, NEW l, InvOf(z, l), NEW t \in Threads, NEW i \in Ids,
         NEW z2, NEW l2, Struct(table', retired', z2, l2, root'),
         Outdates(t, i),
         \A u \in Threads \ {t} :
            /\ WriteOK(table, retired, z, l, table', retired', z2, i, View(u))
            /\ pc[u] # "out" => Evolve(table, retired, z, l, table', retired', z2, l2, u),
         \A j \in Ids : table'[j].type = "abort" => table[j].type = "abort",
         ThreadOK(table', retired', z2, l2, t, After(t)),
         \A id \in Ids : Owns(t, id)' <=> Owns(t, id),
         Free'
  PROVE  Inv'
<1>1. ASSUME NEW u \in Threads, u # t
      PROVE  /\ View(u)' = OutView(View(u), i)
             /\ \A id \in Ids : Owns(u, id)' <=> Owns(u, id)
  <2>1. /\ pc'[u] = pc[u] /\ removed'[u] = removed[u] /\ go'[u] = go[u] /\ call'[u] = call[u]
        /\ cur'[u] = OutSnap(cur[u], i) /\ par'[u] = OutSnap(par[u], i)
    BY <1>1 DEF Outdates
  <2>2. View(u)' = OutView(View(u), i)
    BY <2>1 DEF View, OutView
  <2>3. par'[u].id = par[u].id
    <3>1. SnapOK(table, View(u).par)
      BY DEF InvOf, ThreadOK
    <3>2. par[u] = [id |-> par[u].id, node |-> par[u].node, is |-> par[u].is]
      BY <3>1, ViewFields DEF SnapOK
    <3> QED BY <2>1, <3>2 DEF OutSnap
  <2> QED BY <2>1, <2>2, <2>3 DEF Owns
<1>2. ASSUME NEW u \in Threads, u # t
      PROVE  ThreadOK(table', retired', z2, l2, u, View(u)')
  <2> DEFINE w == View(u)
  <2>1. Struct(table, retired, z, l, root) /\ ThreadOK(table, retired, z, l, u, w)
    BY DEF InvOf
  <2>2. WriteOK(table, retired, z, l, table', retired', z2, i, w)
    BY <1>2
  <2>3. w.pc # "out" => Evolve(table, retired, z, l, table', retired', z2, l2, u)
    BY <1>2, ViewFields
  <2> HIDE DEF w
  <2>4. ThreadOK(table', retired', z2, l2, u, OutView(w, i))
    BY <2>1, <2>2, <2>3, Others
  <2> QED BY <1>1, <1>2, <2>4 DEF w
<1>3. ThreadOK(table', retired', z2, l2, t, View(t)')
  BY ViewFields
<1>4. Owners'
  <2>1. \A u \in Threads : \A id \in Ids : Owns(u, id)' <=> Owns(u, id)
    BY <1>1
  <2> QED BY <2>1, OwnersKept DEF InvOf
<1>5. Shapes'
  BY DEF Outdates
<1>6. \A u \in Threads : ThreadOK(table', retired', z2, l2, u, View(u)')
  BY <1>2, <1>3
<1> QED BY <1>4, <1>5, <1>6, Conclude

(* The thread that wrote the node it is at, or its parent, and went on.     *)
LEMMA Outdating ==
  ASSUME NEW z, NEW l, InvOf(z, l), NEW t \in Threads, NEW i,
         \/ /\ cur' = [Outdate(cur, i) EXCEPT ![t] = cur'[t]]
            /\ par' = [Outdate(par, i) EXCEPT ![t] = par'[t]]
         \/ cur' = Outdate(cur, i) /\ par' = [Outdate(par, i) EXCEPT ![t] = par'[t]]
         \/ par' = Outdate(par, i) /\ cur' = [Outdate(cur, i) EXCEPT ![t] = cur'[t]]
         \/ cur' = Outdate(cur, i) /\ par' = Outdate(par, i),
         pc' = [pc EXCEPT ![t] = pc'[t]],
         removed' = [removed EXCEPT ![t] = removed'[t]],
         go' = [go EXCEPT ![t] = go'[t]], call' = [call EXCEPT ![t] = call'[t]]
  PROVE  Outdates(t, i)
<1>1. /\ Outdate(cur, i) = [u \in Threads |-> OutSnap(cur[u], i)]
      /\ Outdate(par, i) = [u \in Threads |-> OutSnap(par[u], i)]
  BY DEF Outdate, OutSnap
<1>2. /\ cur' = [u \in Threads |-> cur'[u]] /\ par' = [u \in Threads |-> par'[u]]
      /\ \A u \in Threads \ {t} : cur'[u] = OutSnap(cur[u], i) /\ par'[u] = OutSnap(par[u], i)
  BY <1>1
<1>3. /\ pc' = [u \in Threads |-> pc'[u]] /\ removed' = [u \in Threads |-> removed'[u]]
      /\ go' = [u \in Threads |-> go'[u]] /\ call' = [u \in Threads |-> call'[u]]
      /\ \A u \in Threads \ {t} : /\ pc'[u] = pc[u] /\ removed'[u] = removed[u] /\ go'[u] = go[u]
                                  /\ call'[u] = call[u]
  BY DEF InvOf, Shapes
<1>4. Shapes'
  BY <1>2, <1>3 DEF Shapes
<1> QED BY <1>2, <1>3, <1>4 DEF Outdates

(* The write conditions where nothing is retired or taken as merged.        *)
LEMMA PlainWrite ==
  ASSUME NEW T, NEW R, NEW z, NEW l, NEW T2, NEW i \in Ids, NEW w,
         T[i].type # "abort",
         \A j \in Ids : j # i /\ T[j].type # "none" => T2[j] = T[j],
         T[i].type = "split" => Sepd(T, R, z, l, T[i].next),
         \A j \in Ids : T2[j].type = "remove" => T[j].type = "remove"
  PROVE  WriteOK(T, R, z, l, T2, R, z, i, w)
BY DEF WriteOK

(* A compare-and-swap through the current snapshot succeeds.                *)
LEMMA CurMatch ==
  ASSUME NEW T, NEW R, NEW z, NEW l, NEW top, Struct(T, R, z, l, top),
         NEW t, NEW w, ThreadOK(T, R, z, l, t, w), Walks(w), w.cur.is = "match", w.cur.id # Nil,
         w.cur.node.type # "remove", NEW i, i = w.cur.id
  PROVE  /\ Lives(w.cur) /\ i \in Ids /\ T[i] = w.cur.node /\ N(T, i) = w.cur.node
         /\ InC(T, R, z, i) /\ InT(T, R, i) /\ Whole(w.cur.node)
         /\ T[i].type \notin {"remove", "abort", "none"}
         /\ w.pc # "merge" => \A j \in Ids : z[j] # i
         /\ w.pc # "split" /\ w.cur.node.next # Nil => Sepd(T, R, z, l, w.cur.node.next)
<1>1. Lives(w.cur)
  BY DEF Lives
<1>2. T[i] = w.cur.node
  BY DEF ThreadOK, SnapOK
<1>3. /\ w.cur.id \in Ids /\ InC(T, R, z, w.cur.id) /\ InT(T, R, w.cur.id)
      /\ N(T, w.cur.id) = w.cur.node /\ Whole(w.cur.node)
  BY <1>1, CurCurrent
<1>4. T[i].type \notin {"remove", "abort", "none"}
  BY <1>2, <1>3, PlainTypes DEF Whole
<1>5. w.pc # "merge" => \A j \in Ids : z[j] # i
  BY <1>1 DEF ThreadOK, NotInto
<1>6. w.pc # "split" /\ w.cur.node.next # Nil => Sepd(T, R, z, l, w.cur.node.next)
  BY DEF ThreadOK, NextSepd
<1> QED BY <1>1, <1>2, <1>3, <1>4, <1>5, <1>6

(* ... through the parent snapshot.                                         *)
LEMMA ParMatch ==
  ASSUME NEW T, NEW R, NEW z, NEW l, NEW top, Struct(T, R, z, l, top),
         NEW t, NEW w, ThreadOK(T, R, z, l, t, w), Walks(w), w.par.is = "match", w.par.id # Nil,
         NEW p, p = w.par.id
  PROVE  /\ Lives(w.par) /\ p \in Ids /\ T[p] = w.par.node /\ N(T, p) = w.par.node
         /\ InC(T, R, z, p) /\ InT(T, R, p) /\ Whole(w.par.node) /\ InnerOK(w.par.node) /\ ~w.par.node.leaf
         /\ T[p].type \notin {"remove", "abort", "none"}
         /\ w.cur.id # Nil /\ l[w.cur.id] + 1 = l[p]
         /\ <<w.cur.node.low, w.cur.id>> \in w.par.node.items
         /\ \A j \in Ids : z[j] # p
         /\ w.par.node.next # Nil => Sepd(T, R, z, l, w.par.node.next)
<1>1. Lives(w.par)
  BY DEF Lives
<1>2. T[p] = w.par.node
  BY DEF ThreadOK, SnapOK
<1>3. /\ w.par.id \in Ids /\ InC(T, R, z, w.par.id) /\ InT(T, R, w.par.id)
      /\ N(T, w.par.id) = w.par.node
      /\ Whole(w.par.node) /\ ~w.par.node.leaf /\ InnerOK(w.par.node)
      /\ w.cur.id # Nil /\ l[w.cur.id] + 1 = l[w.par.id]
      /\ <<w.cur.node.low, w.cur.id>> \in w.par.node.items
  BY <1>1, ParCurrent
<1>4. T[p].type \notin {"remove", "abort", "none"}
  BY <1>2, <1>3, PlainTypes DEF Whole
<1>5. \A j \in Ids : z[j] # p
  BY <1>1 DEF ThreadOK, NotInto
<1>6. w.par.node.next # Nil => Sepd(T, R, z, l, w.par.node.next)
  BY DEF ThreadOK, NextSepd
<1> QED BY <1>1, <1>2, <1>3, <1>4, <1>5, <1>6

(* The unused NodeIDs after a write.                                        *)
LEMMA FreeKept ==
  ASSUME NEW z, NEW l, InvOf(z, l), NEW t \in Threads, NEW i, Outdates(t, i),
         pc[t] # "out", pc'[t] # "out",
         unused' = {j \in Ids : table'[j].type = "none"},
         \A r \in retired' : r \in retired \/ r.until \subseteq Inside
  PROVE  Free'
<1>1. Inside \subseteq Inside'
  BY DEF Outdates, Inside
<1>2. \A r \in retired : r.until \subseteq Inside
  BY DEF InvOf, Free
<1> QED BY <1>1, <1>2 DEF Free

(* ConsolidateNode keeps the invariant.                                     *)
LEMMA ConsolidateStep ==
  ASSUME NEW z, NEW l, InvOf(z, l), NEW t \in Threads, ConsolidateNode(t)
  PROVE  Inv'
<1> DEFINE w == View(t)
           w2 == After(t)
           i == cur[t].id
           m == Consolidated(cur[t].node)
<1>1. /\ pc[t] \in {"consolidate", "fit"} /\ UNCHANGED <<root, unused, retired, removed, go, call>>
      /\ To(t, "fit") /\ (pc[t] = "fit" => Matches(cur[t]))
  BY DEF ConsolidateNode
<1>2. /\ Walks(w)
      /\ w.pc = pc[t] /\ w.cur = cur[t] /\ w.par = par[t] /\ w.removed = removed[t]
      /\ w.go = go[t] /\ w.call = call[t]
      /\ Struct(table, retired, z, l, root) /\ ThreadOK(table, retired, z, l, t, w)
      /\ w.cur.node.type # "remove" /\ Whole(w.cur.node) /\ w.cur.id \in Ids /\ w.cur.id # Nil
      /\ w.cur.node.low <= w.call.key
      /\ HalvesOK(table, w) /\ RemovedOK(table, retired, t, w)
  BY <1>1, AtWork
<1>3. CASE ~Matches(cur[t])
  <2>1. UNCHANGED <<table, cur, par>>
    BY <1>3 DEF ConsolidateNode
  <2>2. pc'[t] = "fit"
    BY <1>1 DEF To, InvOf, Shapes
  <2>3. w2.pc = "fit" /\ w2.cur = w.cur /\ w2.par = w.par
    BY <1>2, <2>1, <2>2, ViewFields
  <2> HIDE DEF w, w2
  <2>4. HalvesOK(table, w2)
    BY <1>2, <2>3 DEF HalvesOK
  <2>5. HalvesOK(table, After(t))
    BY <2>4 DEF w2
  <2>6. "fit" \in {"fit", "ready", "innersplit", "unblock"} /\ ~(pc[t] = "postremove") /\ pc[t] # "split" /\ pc[t] # "merge"
    BY <1>1
  <2> QED BY <1>1, <1>3, <2>1, <2>5, <2>6, GoOnStep
<1>4. CASE Matches(cur[t])
  <2>1. /\ table' = [table EXCEPT ![i] = m]
        /\ cur' = [Outdate(cur, i) EXCEPT ![t] = Written(i, m)]
        /\ par' = Outdate(par, i) /\ pc' = [pc EXCEPT ![t] = "fit"]
    BY <1>4 DEF ConsolidateNode, SetCur, Write, To
  <2>2. /\ pc'[t] = "fit" /\ removed'[t] = removed[t] /\ go'[t] = go[t] /\ call'[t] = call[t]
        /\ cur'[t] = Written(i, m) /\ par'[t] = OutSnap(par[t], i)
    BY <1>1, <2>1 DEF InvOf, Shapes, Outdate, OutSnap
  <2>3. Outdates(t, i)
    <3>1. cur' = [Outdate(cur, i) EXCEPT ![t] = cur'[t]] /\ par' = Outdate(par, i)
      BY <2>1, <2>2
    <3>2. /\ pc' = [pc EXCEPT ![t] = pc'[t]] /\ removed' = [removed EXCEPT ![t] = removed'[t]]
          /\ go' = [go EXCEPT ![t] = go'[t]] /\ call' = [call EXCEPT ![t] = call'[t]]
      BY <1>1, <2>1, <2>2 DEF InvOf, Shapes
    <3> QED BY <3>1, <3>2, Outdating
  <2>4. w.cur.is = "match" /\ i = w.cur.id
    BY <1>2, <1>4 DEF Matches
  <2>5. /\ Lives(w.cur) /\ i \in Ids /\ table[i] = w.cur.node /\ N(table, i) = w.cur.node
        /\ InC(table, retired, z, i) /\ InT(table, retired, i) /\ Whole(w.cur.node)
        /\ table[i].type \notin {"remove", "abort", "none"}
        /\ \A j \in Ids : z[j] # i
        /\ w.cur.node.next # Nil => Sepd(table, retired, z, l, w.cur.node.next)
    BY <1>1, <1>2, <2>4, CurMatch
  <2>6. /\ w2.pc = "fit" /\ w2.cur = Written(i, m) /\ w2.par = OutSnap(w.par, i) /\ w2.removed = w.removed
        /\ w2.go = w.go /\ w2.call = w.call
    BY <1>2, <2>2, ViewFields
  <2>7. m = Consolidated(w.cur.node)
    BY <1>2
  <2> HIDE DEF w, w2, i, m
  <2>8. /\ Whole(m) /\ m.type = "base" /\ m.leaf = w.cur.node.leaf /\ m.low = w.cur.node.low
        /\ m.high = w.cur.node.high /\ m.next = w.cur.node.next /\ m.items = w.cur.node.items
    BY <1>2, <2>7, ConsolidatedFields
  <2>9. Live(m) = m /\ Entry(m)
    BY <2>8, EntryFacts, PlainTypes DEF Entry, Plain
  <2>10. InPlaceWrite(table, retired, z, l, root, i, m, table')
    BY <2>1, <2>5, <2>8, <2>9 DEF InPlaceWrite
  <2>11. Struct(table', retired, z, l, root) /\ \A u : Evolve(table, retired, z, l, table', retired, z, l, u)
    BY <1>2, <2>10, InPlace, InPlaceEvolve
  <2>12. i \in Ids /\ table'[i] = m /\ \A j \in Ids : j # i => table'[j] = table[j]
    BY <1>2, <2>10, InPlaceFrame
  <2>13. /\ \A j \in Ids : table'[j].type = "abort" => table[j].type = "abort"
         /\ \A j \in Ids : table'[j].type = "remove" => table[j].type = "remove"
         /\ \A j \in Ids : table'[j].type = "none" <=> table[j].type = "none"
    BY <2>5, <2>8, <2>12
  <2>14. \A v : WriteOK(table, retired, z, l, table', retired, z, i, v)
    <3>1. table[i].type = "split" => Sepd(table, retired, z, l, table[i].next)
      BY <2>5 DEF Whole
    <3>2. \A j \in Ids : j # i /\ table[j].type # "none" => table'[j] = table[j]
      BY <2>12
    <3> QED BY <2>5, <2>13, <3>1, <3>2, PlainWrite
  <2>15. ThreadOK(table', retired, z, l, t, OutView(w, i))
    BY <1>2, <2>11, <2>14, Others
  <2>16. ThreadOK(table', retired, z, l, t, w2)
    <3> DEFINE v == OutView(w, i)
    <3>1. /\ v.pc = w.pc /\ v.cur = OutSnap(w.cur, i) /\ v.par = OutSnap(w.par, i)
          /\ v.removed = w.removed /\ v.go = w.go /\ v.call = w.call
      BY DEF OutView
    <3>2. v.cur.id = i /\ v.cur.node = w.cur.node
      <4>1. SnapOK(table, w.cur)
        BY <1>2 DEF ThreadOK
      <4>2. w.cur = [id |-> w.cur.id, node |-> w.cur.node, is |-> w.cur.is]
        BY <4>1 DEF SnapOK
      <4> QED BY <2>4, <3>1, <4>2 DEF OutSnap
    <3>3. w2.cur = SnapOf(table', i) /\ w2.pc = Stage(w2.cur.node)
      BY <2>6, <2>8, <2>12 DEF SnapOf, Written, Stage
    <3> HIDE DEF v
    <3>4. Walks(v) /\ v.cur.id # Nil /\ v.cur.node.low <= v.call.key /\ v.cur.id = i
      BY <1>2, <2>4, <3>1, <3>2 DEF Walks
    <3>5. ThreadOK(table', retired, z, l, t, v)
      BY <2>15 DEF v
    <3>6. RemovedOK(table', retired, t, v)
      BY <3>4, <3>5 DEF ThreadOK
    <3>7. RemovedOK(table', retired, t, w2)
      BY <2>6, <3>1, <3>6 DEF RemovedOK
    <3>8. /\ w2.cur = SnapOf(table', v.cur.id) /\ w2.par = v.par /\ w2.go = v.go /\ w2.call = v.call
          /\ (v.removed = <<>> => w2.removed = <<>>)
      BY <2>6, <3>1, <3>3, <3>4
    <3> QED BY <2>11, <3>3, <3>4, <3>5, <3>7, <3>8, Refresh
  <2>17. Free'
    <3>1. unused' = {j \in Ids : table'[j].type = "none"}
      BY <1>1, <2>13 DEF InvOf, Free
    <3> QED BY <1>1, <2>2, <2>3, <3>1, FreeKept
  <2>18. \A id \in Ids : Owns(t, id)' <=> Owns(t, id)
    BY <1>1, <2>2 DEF Owns
  <2>19. Struct(table', retired', z, l, root') /\ ThreadOK(table', retired', z, l, t, After(t))
    BY <1>1, <2>11, <2>16 DEF w2
  <2>20. \A u \in Threads \ {t} :
            /\ WriteOK(table, retired, z, l, table', retired', z, i, View(u))
            /\ pc[u] # "out" => Evolve(table, retired, z, l, table', retired', z, l, u)
    BY <1>1, <2>11, <2>14
  <2> QED BY <2>3, <2>5, <2>13, <2>17, <2>18, <2>19, <2>20, WriteStep
<1> QED BY <1>3, <1>4

(* PostRemoveNode keeps the invariant.                                      *)
LEMMA PostRemoveStep ==
  ASSUME NEW z, NEW l, InvOf(z, l), NEW t \in Threads, PostRemoveNode(t)
  PROVE  Inv'
<1> DEFINE w == View(t)
           w2 == After(t)
           i == cur[t].id
           m == Cover(cur[t].node, "remove")
           p == par[t].id
<1>1. /\ pc[t] = "postremove" /\ UNCHANGED <<root, unused, retired, removed, go, call>>
      /\ To(t, "unblock")
  BY DEF PostRemoveNode
<1>2. /\ Walks(w)
      /\ w.pc = pc[t] /\ w.cur = cur[t] /\ w.par = par[t] /\ w.removed = removed[t]
      /\ w.go = go[t] /\ w.call = call[t]
      /\ Struct(table, retired, z, l, root) /\ ThreadOK(table, retired, z, l, t, w)
      /\ w.cur.node.type # "remove" /\ Whole(w.cur.node) /\ w.cur.id \in Ids /\ w.cur.id # Nil
      /\ w.cur.node.low <= w.call.key
      /\ NotInto(z, w) /\ HalvesOK(table, w) /\ RemovedOK(table, retired, t, w) /\ BlockOK(w)
  BY <1>1, AtWork
<1>3. CASE ~Matches(cur[t])
  <2>1. UNCHANGED <<table, cur, par>>
    BY <1>3 DEF PostRemoveNode
  <2>2. pc'[t] = "unblock"
    BY <1>1 DEF To, InvOf, Shapes
  <2>3. w2.pc = "unblock" /\ w2.cur = w.cur /\ w2.par = w.par
    BY <1>2, <2>1, <2>2, ViewFields
  <2> HIDE DEF w, w2
  <2>4. HalvesOK(table, w2)
    BY <1>2, <2>3 DEF HalvesOK
  <2>5. HalvesOK(table, After(t))
    BY <2>4 DEF w2
  <2>6. "unblock" \in {"fit", "ready", "innersplit", "unblock"} /\ pc[t] # "split" /\ pc[t] # "merge"
    BY <1>1
  <2> QED BY <1>1, <2>1, <2>5, <2>6, GoOnStep
<1>4. CASE Matches(cur[t])
  <2>1. /\ table' = [table EXCEPT ![i] = m]
        /\ cur' = Outdate(cur, i) /\ par' = Outdate(par, i) /\ pc' = [pc EXCEPT ![t] = "unblock"]
    BY <1>4 DEF PostRemoveNode, Write, To
  <2>2. /\ pc'[t] = "unblock" /\ removed'[t] = removed[t] /\ go'[t] = go[t] /\ call'[t] = call[t]
        /\ cur'[t] = OutSnap(cur[t], i) /\ par'[t] = OutSnap(par[t], i)
    BY <1>1, <2>1 DEF InvOf, Shapes, Outdate, OutSnap
  <2>3. Outdates(t, i)
    <3>1. /\ pc' = [pc EXCEPT ![t] = pc'[t]] /\ removed' = [removed EXCEPT ![t] = removed'[t]]
          /\ go' = [go EXCEPT ![t] = go'[t]] /\ call' = [call EXCEPT ![t] = call'[t]]
      BY <1>1, <2>1, <2>2 DEF InvOf, Shapes
    <3> QED BY <2>1, <3>1, Outdating
  <2>4. w.cur.is = "match" /\ i = w.cur.id /\ p = w.par.id /\ w.pc = "postremove"
    BY <1>1, <1>2, <1>4 DEF Matches
  <2>5. /\ Lives(w.cur) /\ i \in Ids /\ table[i] = w.cur.node /\ N(table, i) = w.cur.node
        /\ InC(table, retired, z, i) /\ InT(table, retired, i) /\ Whole(w.cur.node)
        /\ table[i].type \notin {"remove", "abort", "none"}
        /\ \A j \in Ids : z[j] # i
        /\ w.cur.node.next # Nil => Sepd(table, retired, z, l, w.cur.node.next)
    BY <1>1, <1>2, <2>4, CurMatch
  <2>6. /\ w2.pc = "unblock" /\ w2.cur = OutSnap(w.cur, i) /\ w2.par = OutSnap(w.par, i)
        /\ w2.removed = w.removed /\ w2.go = w.go /\ w2.call = w.call
    BY <1>2, <2>2, ViewFields
  <2>7. m = Cover(w.cur.node, "remove")
    BY <1>2
  <2> HIDE DEF w, w2, i, m, p
  <2>8. w.cur.node.type = "base" /\ LowChild(w.par.node) # i /\ w.par.id # Nil /\ w.par.is = "under" /\ Lives(w.par)
    BY <1>2, <2>4 DEF BlockOK, Lives
  <2>9. /\ Entry(m) /\ m.type = "remove" /\ Live(m) = w.cur.node
    BY <1>2, <2>7, <2>8, CoverFields, CoverEntry
  <2>10. /\ p \in Ids /\ InC(table, retired, z, p) /\ InT(table, retired, p)
         /\ N(table, p) = w.par.node /\ Whole(w.par.node) /\ ~w.par.node.leaf /\ InnerOK(w.par.node)
         /\ l[i] + 1 = l[p] /\ <<w.cur.node.low, i>> \in w.par.node.items
    <3>1. /\ w.par.id \in Ids /\ InC(table, retired, z, w.par.id) /\ InT(table, retired, w.par.id)
          /\ N(table, w.par.id) = w.par.node /\ Whole(w.par.node) /\ ~w.par.node.leaf
          /\ InnerOK(w.par.node) /\ l[w.cur.id] + 1 = l[w.par.id]
          /\ <<w.cur.node.low, w.cur.id>> \in w.par.node.items
      BY <1>2, <2>8, ParCurrent
    <3> QED BY <2>4, <3>1
  <2>11. \A j \in Ids : z[j] # p
    BY <1>2, <2>4, <2>8 DEF NotInto
  <2>12. /\ Entries(table) /\ Apart(table, retired, z, l) /\ l \in [Ids -> Nat] /\ root \in Ids
         /\ l[p] <= l[root]
    BY <1>2, <2>10 DEF Struct, Levels, Ends, InC, InT
  <2>13. l[i] < l[root] /\ l[i] \in Nat /\ l[p] \in Nat /\ l[root] \in Nat
    BY <2>5, <2>10, <2>12
  <2>14. /\ w.cur.node.low \in Nat /\ w.par.node.low <= w.cur.node.low /\ w.cur.node.low < w.par.node.high
    <3>1. /\ <<w.cur.node.low, i>>[1] \in Nat /\ w.par.node.low <= <<w.cur.node.low, i>>[1]
          /\ <<w.cur.node.low, i>>[1] < w.par.node.high
      BY <2>10 DEF InnerOK
    <3> QED BY <3>1
  <2>15. ASSUME NEW q, InC(table, retired, z, q), l[q] = l[p], ~N(table, q).leaf,
                <<w.cur.node.low, i>> \in N(table, q).items
         PROVE  q = p
    <3> DEFINE s == <<w.cur.node.low, i>>
    <3>1. s \in N(table, q).items /\ N(table, p).low <= s[1] /\ s[1] < N(table, p).high
      BY <2>10, <2>14, <2>15
    <3> HIDE DEF s
    <3> QED BY <2>10, <2>12, <2>15, <3>1, OneHolder
  <2>16. ASSUME NEW q \in Ids, InT(table, retired, q), ~N(table, q).leaf, LowChild(N(table, q)) = i
         PROVE  FALSE
    <3>1. Whole(N(table, q)) /\ InnerOK(N(table, q)) /\ N(table, q).low \in Nat
      BY <2>12, <2>16, Alloc DEF InT, Whole
    <3> DEFINE s == <<N(table, q).low, i>>
    <3>2. s \in N(table, q).items /\ s[1] = N(table, q).low /\ s[2] = i
      BY <2>16, <3>1, LowChildIs
    <3>3. N(table, s[2]).low = s[1] /\ l[s[2]] + 1 = l[q]
      BY <1>2, <2>16, <3>2 DEF Struct, Targets
    <3>4. N(table, q).low = w.cur.node.low /\ l[q] = l[p] /\ <<w.cur.node.low, i>> \in N(table, q).items
      BY <2>5, <2>10, <3>2, <3>3
    <3>5. CASE z[q] = Nil
      <4>1. InC(table, retired, z, q)
        BY <2>16, <3>5 DEF InC
      <4>2. q = p
        BY <2>15, <2>16, <3>4, <4>1
      <4> QED BY <2>8, <2>10, <2>16, <4>2
    <3>6. CASE z[q] # Nil
      <4>1. Merged(table, retired, z, l, q)
        BY <1>2, <3>6 DEF Struct, Zombies
      <4> DEFINE y == z[q]
      <4>2. InC(table, retired, z, y) /\ l[y] = l[q] /\ N(table, q).items \subseteq N(table, y).items
        BY <4>1 DEF Merged
      <4>3. ~N(table, y).leaf
        <5>1. l[y] # 0 /\ InT(table, retired, y) /\ y \in Ids
          BY <2>5, <2>10, <2>12, <3>4, <4>2 DEF InC, InT
        <5> QED BY <1>2, <5>1 DEF Struct, Levels
      <4> HIDE DEF y
      <4>4. y = p
        BY <2>15, <3>4, <4>2, <4>3
      <4> QED BY <2>11, <4>4 DEF y
    <3> QED BY <3>5, <3>6
  <2>17. InPlaceWrite(table, retired, z, l, root, i, m, table')
    <3>1. \A q \in Ids : InT(table, retired, q) /\ ~N(table, q).leaf => LowChild(N(table, q)) # i
      BY <2>16
    <3> QED BY <2>1, <2>5, <2>9, <2>13, <3>1 DEF InPlaceWrite
  <2>18. Struct(table', retired, z, l, root) /\ \A u : Evolve(table, retired, z, l, table', retired, z, l, u)
    BY <1>2, <2>17, InPlace, InPlaceEvolve
  <2>19. i \in Ids /\ table'[i] = m /\ \A j \in Ids : j # i => table'[j] = table[j]
    BY <1>2, <2>17, InPlaceFrame
  <2>20. /\ \A j \in Ids : table'[j].type = "abort" => table[j].type = "abort"
         /\ \A j \in Ids : table'[j].type = "remove" => table[j].type = "remove" \/ j = i
         /\ \A j \in Ids : table'[j].type = "none" <=> table[j].type = "none"
    BY <2>5, <2>9, <2>19
  <2>21. ASSUME NEW u, NEW v, ThreadOK(table, retired, z, l, u, v)
         PROVE  WriteOK(table, retired, z, l, table', retired, z, i, v)
    <3>1. ASSUME v.pc = "innersplit", Lives(v.cur), SplitChild(v.cur.node) = i PROVE FALSE
      <4>1. Walks(v) /\ HalvesOK(table, v) /\ CurOK(table, retired, l, u, v)
        BY <2>21, <3>1 DEF Walks, ThreadOK
      <4>2. TooLarge(v.cur.node) /\ ~v.cur.node.leaf /\ v.cur.node.type # "remove"
        BY <3>1, <4>1 DEF HalvesOK, CurOK
      <4> DEFINE c == v.cur.id
      <4>3. /\ c \in Ids /\ InC(table, retired, z, c) /\ InT(table, retired, c)
            /\ N(table, c) = v.cur.node /\ Whole(v.cur.node)
        BY <1>2, <2>21, <3>1, <4>1, <4>2, CurCurrent
      <4> DEFINE s == <<SplitKey(v.cur.node), i>>
      <4>4. s \in N(table, c).items /\ s[2] = i
        BY <3>1, <4>2, <4>3, SplitChildIs
      <4> HIDE DEF c
      <4>5. N(table, s[2]).low = s[1] /\ l[s[2]] + 1 = l[c]
        BY <1>2, <4>2, <4>3, <4>4 DEF Struct, Targets
      <4>6. <<w.cur.node.low, i>> \in N(table, c).items /\ l[c] = l[p]
        BY <2>5, <2>10, <4>4, <4>5
      <4>7. c = p
        BY <2>15, <4>2, <4>3, <4>6
      <4>8. w.par.node = v.cur.node
        BY <2>10, <4>3, <4>7
      <4>9. table[i].type = "remove"
        BY <1>2, <2>8, <3>1, <4>2, <4>8 DEF HalvesOK
      <4> QED BY <2>5, <4>9
    <3>2. table[i].type # "split"
      BY <2>5, <2>8
    <3> QED BY <2>5, <2>19, <2>20, <3>1, <3>2 DEF WriteOK
  <2>22. ThreadOK(table', retired, z, l, t, OutView(w, i))
    <3>1. WriteOK(table, retired, z, l, table', retired, z, i, w)
      BY <1>2, <2>21
    <3> QED BY <1>2, <2>18, <3>1, Others
  <2>23. ThreadOK(table', retired, z, l, t, w2)
    <3> DEFINE v == OutView(w, i)
    <3>1. /\ v.pc = w.pc /\ v.cur = OutSnap(w.cur, i) /\ v.par = OutSnap(w.par, i)
          /\ v.removed = w.removed /\ v.go = w.go /\ v.call = w.call
      BY DEF OutView
    <3>2. v.cur.id = i /\ v.cur.node = w.cur.node
      <4>1. SnapOK(table, w.cur)
        BY <1>2 DEF ThreadOK
      <4>2. w.cur = [id |-> w.cur.id, node |-> w.cur.node, is |-> w.cur.is]
        BY <4>1 DEF SnapOK
      <4> QED BY <2>4, <3>1, <4>2 DEF OutSnap
    <3> HIDE DEF v
    <3>3. Walks(v) /\ v.cur.id # Nil /\ v.cur.node.type # "remove"
      BY <1>2, <2>4, <3>1, <3>2 DEF Walks
    <3>4. ThreadOK(table', retired, z, l, t, v)
      BY <2>22 DEF v
    <3>5. /\ w2.cur = v.cur /\ w2.par = v.par /\ w2.removed = v.removed /\ w2.go = v.go /\ w2.call = v.call
          /\ w2.pc = "unblock" /\ v.pc = "postremove"
      BY <2>4, <2>6, <3>1
    <3>6. HalvesOK(table', v) /\ BlockOK(v)
      BY <3>3, <3>4 DEF ThreadOK
    <3>7. HalvesOK(table', w2) /\ BlockOK(w2)
      BY <3>5, <3>6 DEF HalvesOK, BlockOK
    <3> QED BY <3>3, <3>4, <3>5, <3>7, GoOn
  <2>24. Free'
    <3>1. unused' = {j \in Ids : table'[j].type = "none"}
      BY <1>1, <2>20 DEF InvOf, Free
    <3> QED BY <1>1, <2>2, <2>3, <3>1, FreeKept
  <2>25. \A id \in Ids : Owns(t, id)' <=> Owns(t, id)
    <3>1. par'[t].id = par[t].id
      <4>1. SnapOK(table, w.par)
        BY <1>2 DEF ThreadOK
      <4>2. par[t] = [id |-> par[t].id, node |-> par[t].node, is |-> par[t].is]
        BY <1>2, <4>1 DEF SnapOK
      <4> QED BY <2>2, <4>2 DEF OutSnap
    <3> QED BY <1>1, <2>2, <3>1 DEF Owns
  <2>26. Struct(table', retired', z, l, root') /\ ThreadOK(table', retired', z, l, t, After(t))
    BY <1>1, <2>18, <2>23 DEF w2
  <2>27. \A u \in Threads \ {t} :
            /\ WriteOK(table, retired, z, l, table', retired', z, i, View(u))
            /\ pc[u] # "out" => Evolve(table, retired, z, l, table', retired', z, l, u)
    BY <1>1, <2>18, <2>21 DEF InvOf
  <2> QED BY <2>3, <2>5, <2>20, <2>24, <2>25, <2>26, <2>27, WriteStep
<1> QED BY <1>3, <1>4

(* PostMergeNode keeps the invariant.                                       *)
LEMMA PostMergeStep ==
  ASSUME NEW z, NEW l, InvOf(z, l), NEW t \in Threads, PostMergeNode(t)
  PROVE  Inv'
<1> DEFINE w == View(t)
           w2 == After(t)
           i == cur[t].id
           last == removed[t][Len(removed[t])]
           d == last.id
           m == Merge(cur[t].node, last.id, last.right)
           z2 == [z EXCEPT ![d] = i]
<1>1. /\ AtNode(t) /\ removed[t] # <<>> /\ UNCHANGED <<root, unused, retired, call>>
  BY DEF PostMergeNode
<1>2. /\ w.pc \in {"fit", "ready"} /\ Walks(w)
      /\ w.pc = pc[t] /\ w.cur = cur[t] /\ w.par = par[t] /\ w.removed = removed[t]
      /\ w.go = go[t] /\ w.call = call[t]
      /\ Struct(table, retired, z, l, root) /\ ThreadOK(table, retired, z, l, t, w)
      /\ w.cur.node.type # "remove" /\ Whole(w.cur.node)
      /\ ~Gets(w) => w.cur.id # Nil
      /\ w.cur.node.low <= w.call.key
  BY <1>1, At
<1>3. CASE ~(cur[t].node.next = last.id /\ Matches(cur[t]))
  BY <1>1, <1>2, <1>3, RetryStep DEF PostMergeNode
<1>4. CASE cur[t].node.next = last.id /\ Matches(cur[t])
  <2>1. /\ table' = [table EXCEPT ![i] = m]
        /\ cur' = [Outdate(cur, i) EXCEPT ![t] = Written(i, m)] /\ par' = Outdate(par, i)
        /\ removed' = [removed EXCEPT ![t] = SubSeq(@, 1, Len(@) - 1)]
        /\ pc' = [pc EXCEPT ![t] = "merge"] /\ UNCHANGED go
    BY <1>4 DEF PostMergeNode, SetCur, Write, To
  <2>2. /\ pc'[t] = "merge" /\ removed'[t] = SubSeq(removed[t], 1, Len(removed[t]) - 1) /\ go'[t] = go[t]
        /\ call'[t] = call[t]
        /\ cur'[t] = Written(i, m) /\ par'[t] = OutSnap(par[t], i)
    BY <1>1, <2>1 DEF InvOf, Shapes, Outdate, OutSnap
  <2>3. Outdates(t, i)
    <3>1. cur' = [Outdate(cur, i) EXCEPT ![t] = cur'[t]] /\ par' = Outdate(par, i)
      BY <2>1, <2>2
    <3>2. /\ pc' = [pc EXCEPT ![t] = pc'[t]] /\ removed' = [removed EXCEPT ![t] = removed'[t]]
          /\ go' = [go EXCEPT ![t] = go'[t]] /\ call' = [call EXCEPT ![t] = call'[t]]
      BY <1>1, <2>1, <2>2 DEF InvOf, Shapes
    <3> QED BY <3>1, <3>2, Outdating
  <2>4. /\ w2.pc = "merge" /\ w2.cur = Written(i, m) /\ w2.par = OutSnap(w.par, i)
        /\ w2.removed = SubSeq(w.removed, 1, Len(w.removed) - 1)
        /\ w2.go = w.go /\ w2.call = w.call
    BY <1>2, <2>2, ViewFields
  <2>5. /\ w.removed # <<>> /\ last = w.removed[Len(w.removed)] /\ i = w.cur.id
        /\ m = Merge(w.cur.node, d, last.right) /\ w.cur.node.next = d /\ w.cur.is = "match"
    BY <1>1, <1>2, <1>4 DEF Matches
  <2> HIDE DEF w, w2, i, m
  <2>6. /\ RemovedOK(table, retired, t, w) /\ Placed(w) /\ SnapOK(table, w.cur)
    BY <1>2 DEF ThreadOK
  <2>7. ~Gets(w) /\ w.cur.id # Nil
    BY <1>2, <2>5, <2>6 DEF Placed
  <2>8. /\ w.removed \in Seq(Removal(table)) /\ Len(w.removed) \in Nat /\ Len(w.removed) \in 1 .. Len(w.removed)
        /\ last \in Removal(table) /\ Guarded(table, retired, t, d) /\ table[d].type = "remove"
    <3>1. w.removed \in Seq(Removal(table))
      BY <2>6 DEF RemovedOK
    <3>2. Len(w.removed) \in 1 .. Len(w.removed)
      BY <2>5, <3>1, EmptySeq
    <3> QED BY <2>5, <2>6, <3>1, <3>2 DEF RemovedOK
  <2>9. last.right = table[d].under[1] /\ d \in Ids /\ d # Nil
    BY <2>8, IdsNotNil DEF Removal
  <2> HIDE DEF last, d
  <2>10. /\ Lives(w.cur) /\ i \in Ids /\ table[i] = w.cur.node /\ N(table, i) = w.cur.node
         /\ InC(table, retired, z, i) /\ InT(table, retired, i) /\ Whole(w.cur.node)
         /\ table[i].type \notin {"remove", "abort", "none"}
         /\ \A j \in Ids : z[j] # i
         /\ w.cur.node.next # Nil => Sepd(table, retired, z, l, w.cur.node.next)
    BY <1>2, <2>5, <2>7, CurMatch
  <2>11. /\ InC(table, retired, z, d) /\ l[d] = l[i] /\ N(table, d).low = w.cur.node.high
    BY <1>2, <2>5, <2>9, <2>10 DEF Struct, Links
  <2>12. Whole(N(table, d)) /\ last.right = N(table, d) /\ N(table, d).leaf = w.cur.node.leaf
    <3>1. Whole(N(table, d)) /\ table[d].under[1] = N(table, d)
      BY <1>2, <2>8, <2>9, Alloc DEF Struct
    <3>2. (N(table, d).leaf <=> l[d] = 0) /\ (N(table, i).leaf <=> l[i] = 0)
      BY <1>2, <2>10, <2>11 DEF Struct, Levels, InC, InT
    <3>3. N(table, d).leaf \in BOOLEAN /\ w.cur.node.leaf \in BOOLEAN
      BY <2>10, <3>1 DEF Whole
    <3> QED BY <2>9, <2>10, <2>11, <3>1, <3>2, <3>3
  <2>13. /\ Whole(m) /\ m.type = "merge" /\ m.leaf = w.cur.node.leaf /\ m.low = w.cur.node.low
         /\ m.high = N(table, d).high /\ m.next = N(table, d).next
         /\ m.items = w.cur.node.items \cup N(table, d).items /\ m.smo = <<w.cur.node.high, d>>
    <3> DEFINE r == N(table, d)
               n == w.cur.node
    <3>1. Whole(n) /\ Whole(r) /\ r.leaf = n.leaf /\ r.low = n.high /\ m = Merge(n, d, r)
      BY <1>2, <2>5, <2>11, <2>12
    <3> HIDE DEF r, n
    <3>2. /\ Whole(m) /\ m.type = "merge" /\ m.leaf = n.leaf /\ m.low = n.low
          /\ m.high = r.high /\ m.next = r.next /\ m.items = n.items \cup r.items /\ m.smo = <<n.high, d>>
      BY <2>9, <3>1, MergeWhole
    <3> QED BY <3>2 DEF r, n
  <2>14. Live(m) = m
    BY <2>13 DEF Live
  <2>15. MergeWrite(table, retired, z, l, i, d, m, table', z2)
    BY <2>1, <2>5, <2>8, <2>9, <2>10, <2>13, <2>14 DEF MergeWrite
  <2>16. /\ i \in Ids /\ d \in Ids /\ table'[i] = m /\ \A j \in Ids : j # i => table'[j] = table[j]
         /\ z2[d] = i /\ z2 \in [Ids -> Ids \cup {Nil}] /\ \A j \in Ids : j # d => z2[j] = z[j]
    <3> HIDE DEF z2
    <3> QED BY <1>2, <2>15, MergeFrame
  <2>17. Struct(table', retired, z2, l, root) /\ \A u : Evolve(table, retired, z, l, table', retired, z2, l, u)
    <3> HIDE DEF z2
    <3> QED BY <1>2, <2>15, MergeStep, MergeEvolve
  <2> HIDE DEF z2
  <2>18. /\ \A j \in Ids : table'[j].type = "abort" => table[j].type = "abort"
         /\ \A j \in Ids : table'[j].type = "remove" => table[j].type = "remove"
         /\ \A j \in Ids : table'[j].type = "none" <=> table[j].type = "none"
    BY <2>10, <2>13, <2>16
  <2>19. \A v : WriteOK(table, retired, z, l, table', retired, z2, i, v)
    <3>1. table[i].type = "split" => Sepd(table, retired, z, l, table[i].next)
      BY <2>10 DEF Whole
    <3>2. z[d] = Nil /\ \A j \in Ids : z2[j] = Nil => z[j] = Nil
      BY <2>11, <2>16, IdsNotNil DEF InC
    <3> QED BY <2>10, <2>16, <2>18, <3>1, <3>2 DEF WriteOK
  <2>20. ThreadOK(table', retired, z2, l, t, OutView(w, i))
    BY <1>2, <2>17, <2>19, Others
  <2>21. ThreadOK(table', retired, z2, l, t, w2)
    <3> DEFINE v == OutView(w, i)
    <3>1. /\ v.pc = w.pc /\ v.cur = OutSnap(w.cur, i) /\ v.par = OutSnap(w.par, i)
          /\ v.removed = w.removed /\ v.go = w.go /\ v.call = w.call
      BY DEF OutView
    <3>2. v.cur.id = i /\ v.cur.node = w.cur.node
      <4>1. w.cur = [id |-> w.cur.id, node |-> w.cur.node, is |-> w.cur.is]
        BY <2>6 DEF SnapOK
      <4> QED BY <2>5, <3>1, <4>1 DEF OutSnap
    <3>3. w2.cur = SnapOf(table', i) /\ w2.pc = Stage(w2.cur.node)
      BY <2>4, <2>13, <2>16 DEF SnapOf, Written, Stage
    <3> HIDE DEF v
    <3>4. Walks(v) /\ v.cur.id # Nil /\ v.cur.node.low <= v.call.key /\ v.cur.id = i
      BY <1>2, <2>5, <2>7, <3>1, <3>2 DEF Walks
    <3>5. ThreadOK(table', retired, z2, l, t, v)
      BY <2>20 DEF v
    <3>6. RemovedOK(table', retired, t, v)
      BY <3>4, <3>5 DEF ThreadOK
    <3>7. RemovedOK(table', retired, t, w2)
      <4>1. w.removed \in Seq(Removal(table'))
        BY <3>1, <3>6 DEF RemovedOK
      <4>2. /\ w2.removed \in Seq(Removal(table')) /\ Len(w2.removed) = Len(w.removed) - 1
            /\ \A j \in 1 .. Len(w2.removed) : w2.removed[j] = w.removed[j]
        BY <2>4, <2>8, <4>1
      <4>3. \A j \in 1 .. Len(w2.removed) : j \in 1 .. Len(w.removed)
        BY <2>8, <4>2
      <4> QED BY <3>1, <3>6, <4>2, <4>3 DEF RemovedOK
    <3>8. /\ w2.cur = SnapOf(table', v.cur.id) /\ w2.par = v.par /\ w2.go = v.go /\ w2.call = v.call
          /\ (v.removed = <<>> => w2.removed = <<>>)
      BY <2>4, <2>5, <3>1, <3>3, <3>4
    <3> QED BY <2>17, <3>3, <3>4, <3>5, <3>7, <3>8, Refresh
  <2>22. Free'
    <3>1. unused' = {j \in Ids : table'[j].type = "none"}
      BY <1>1, <2>18 DEF InvOf, Free
    <3> QED BY <1>1, <1>2, <2>2, <2>3, <3>1, FreeKept
  <2>23. \A id \in Ids : Owns(t, id)' <=> Owns(t, id)
    BY <1>2, <2>2 DEF Owns
  <2>24. Struct(table', retired', z2, l, root') /\ ThreadOK(table', retired', z2, l, t, After(t))
    BY <1>1, <2>17, <2>21 DEF w2
  <2>25. \A u \in Threads \ {t} :
            /\ WriteOK(table, retired, z, l, table', retired', z2, i, View(u))
            /\ pc[u] # "out" => Evolve(table, retired, z, l, table', retired', z2, l, u)
    BY <1>1, <2>17, <2>19
  <2> QED BY <2>3, <2>10, <2>18, <2>22, <2>23, <2>24, <2>25, WriteStep
<1> QED BY <1>3, <1>4

(* A separator is in no other live parent snapshot than one of its node,    *)
(* and not the one the split record below such a snapshot asks for.         *)
LEMMA Elsewhere ==
  ASSUME NEW T, NEW R, NEW z, NEW l, NEW top, Struct(T, R, z, l, top),
         NEW p, InC(T, R, z, p), ~N(T, p).leaf, NEW s \in N(T, p).items,
         NEW u, NEW v, ThreadOK(T, R, z, l, u, v), Lives(v.par), v.par.id # p
  PROVE  /\ \A x \in v.par.node.items : x[2] # s[2]
         /\ v.pc = "split" /\ v.cur.node.smo[1] < v.par.node.high => s[2] # v.cur.node.smo[2]
<1> DEFINE q == v.par.id
<1>1. Walks(v)
  BY IdsNotNil DEF ThreadOK, Placed, NoSnapshot, Lives
<1>2. /\ q \in Ids /\ InC(T, R, z, q) /\ InT(T, R, q) /\ N(T, q) = v.par.node
      /\ Whole(v.par.node) /\ ~v.par.node.leaf /\ InnerOK(v.par.node)
      /\ v.cur.id # Nil /\ l[v.cur.id] + 1 = l[q]
      /\ <<v.cur.node.low, v.cur.id>> \in v.par.node.items
  BY <1>1, ParCurrent
<1>3. Entries(T) /\ Apart(T, R, z, l) /\ Targets(T, R, l) /\ Levels(T, R, l, top) /\ p \in Ids /\ InT(T, R, p)
  BY DEF Struct, InC, InT
<1>4. Whole(N(T, p)) /\ InnerOK(N(T, p))
  BY <1>3, Alloc DEF InT, Whole
<1>5. /\ InT(T, R, s[2]) /\ N(T, s[2]).low = s[1] /\ l[s[2]] + 1 = l[p]
      /\ s = <<s[1], s[2]>> /\ s[1] \in Nat
  BY <1>3, <1>4 DEF Targets, InnerOK
<1>6. l[s[2]] \in Nat /\ l[p] \in Nat /\ l[q] \in Nat
  BY <1>2, <1>3, <1>5 DEF Levels, InT
<1>7. ASSUME l[q] = l[p], v.par.node.low <= s[1], s[1] < v.par.node.high PROVE FALSE
  <2> HIDE DEF q
  <2>1. p = q
    BY <1>2, <1>3, <1>7, OneHolder
  <2> QED BY <2>1 DEF q
<1>8. ASSUME NEW x \in v.par.node.items, x[2] = s[2] PROVE FALSE
  <2>1. N(T, x[2]).low = x[1] /\ l[x[2]] + 1 = l[q]
    BY <1>2, <1>3 DEF Targets
  <2>2. x[1] = s[1] /\ l[q] = l[p] /\ v.par.node.low <= x[1] /\ x[1] < v.par.node.high
    BY <1>2, <1>5, <1>6, <1>8, <2>1 DEF InnerOK
  <2> QED BY <1>7, <2>2
<1>9. ASSUME v.pc = "split", v.cur.node.smo[1] < v.par.node.high, s[2] = v.cur.node.smo[2] PROVE FALSE
  <2>1. CurOK(T, R, l, u, v)
    BY <1>1 DEF ThreadOK
  <2>2. v.cur.node.type = "split" /\ Whole(v.cur.node)
    BY <1>9, <2>1, EntryFacts, PlainTypes DEF CurOK, Plain
  <2>3. /\ v.cur.node.smo[1] = v.cur.node.high /\ v.cur.node.smo[2] = v.cur.node.next /\ v.cur.node.next # Nil
        /\ v.cur.node.low \in Nat /\ v.cur.node.high \in Nat /\ v.cur.node.low < v.cur.node.high
    BY <2>2 DEF Whole
  <2>4. N(T, s[2]).low = v.cur.node.high /\ l[s[2]] = l[v.cur.id]
    BY <1>2, <1>9, <2>1, <2>3 DEF CurOK, NodeRefs, Ref
  <2>5. v.par.node.low <= <<v.cur.node.low, v.cur.id>>[1] /\ v.par.node.low \in Nat
    BY <1>2 DEF InnerOK, Whole
  <2>6. l[q] = l[p] /\ v.par.node.low <= s[1] /\ s[1] < v.par.node.high
    BY <1>2, <1>5, <1>6, <1>9, <2>3, <2>4, <2>5
  <2> QED BY <1>7, <2>6
<1> QED BY <1>8, <1>9

(* FinishMerge keeps the invariant.                                         *)
LEMMA FinishMergeStep ==
  ASSUME NEW z, NEW l, InvOf(z, l), NEW t \in Threads, FinishMerge(t)
  PROVE  Inv'
<1> DEFINE w == View(t)
           w2 == After(t)
           p == par[t].id
           s == cur[t].node.smo
           found == Separator(par[t].node, s[1])
           m == Data(par[t].node, par[t].node.items \ found)
           z2 == [z EXCEPT ![s[2]] = Nil]
<1>1. pc[t] = "merge" /\ p # Nil /\ UNCHANGED <<root, unused, call>>
  BY DEF FinishMerge, HasParent
<1>2. /\ Walks(w)
      /\ w.pc = pc[t] /\ w.cur = cur[t] /\ w.par = par[t] /\ w.removed = removed[t]
      /\ w.go = go[t] /\ w.call = call[t]
      /\ Struct(table, retired, z, l, root) /\ ThreadOK(table, retired, z, l, t, w)
      /\ w.cur.node.type # "remove" /\ Whole(w.cur.node) /\ w.cur.id \in Ids /\ w.cur.id # Nil
      /\ CurOK(table, retired, l, t, w) /\ SnapOK(table, w.par) /\ SnapOK(table, w.cur)
      /\ NextOfPar(w) /\ MergeOK(z, w) /\ HalvesOK(table, w)
  BY <1>1, AtWork
<1>3. w.cur.node.type = "merge" /\ s = w.cur.node.smo /\ p = w.par.id
  BY <1>1, <1>2 DEF CurOK
<1>4. CASE ~Matches(par[t])
  BY <1>1, <1>4, RetryStep DEF FinishMerge
<1>5. ASSUME Matches(par[t])
      PROVE  /\ Lives(w.par) /\ p \in Ids /\ table[p] = w.par.node /\ N(table, p) = w.par.node
             /\ InC(table, retired, z, p) /\ InT(table, retired, p) /\ Whole(w.par.node)
             /\ InnerOK(w.par.node) /\ ~w.par.node.leaf
             /\ table[p].type \notin {"remove", "abort", "none"}
             /\ l[w.cur.id] + 1 = l[p]
             /\ <<w.cur.node.low, w.cur.id>> \in w.par.node.items
             /\ \A j \in Ids : z[j] # p
             /\ w.par.node.next # Nil => Sepd(table, retired, z, l, w.par.node.next)
  <2>1. w.par.is = "match" /\ w.par.id # Nil
    BY <1>1, <1>2, <1>5 DEF Matches
  <2> HIDE DEF w
  <2> QED BY <1>2, <1>3, <2>1, ParMatch
<1>6. found = {x \in w.par.node.items : x[1] = s[1]}
  BY <1>2 DEF Separator
<1>7. CASE Matches(par[t]) /\ found = {}
  <2>1. To(t, "fit") /\ UNCHANGED <<table, retired, cur, par, removed, go>>
    BY <1>7 DEF FinishMerge
  <2>2. pc'[t] = "fit"
    BY <2>1 DEF To, InvOf, Shapes
  <2>3. w2.pc = "fit" /\ w2.cur = w.cur /\ w2.par = w.par
    BY <1>2, <2>1, <2>2, ViewFields
  <2> HIDE DEF w, w2, p, s, found
  <2>4. HalvesOK(table, w2)
    BY <1>2, <2>3 DEF HalvesOK
  <2>5. ASSUME Lives(w.cur), NEW j \in Ids, z[j] = w.cur.id PROVE FALSE
    <3> DEFINE c == w.cur.id
               n == w.cur.node
               k == w.par.node
    <3>1. InC(table, retired, z, c) /\ n = N(table, c)
      BY <1>2, <2>5, CurCurrent
    <3>2. InC(table, retired, z, p) /\ k = N(table, p) /\ l[c] + 1 = l[p] /\ ~k.leaf /\ <<n.low, c>> \in k.items
      BY <1>5, <1>7
    <3>3. Merged(table, retired, z, l, j)
      BY <1>2, <2>5 DEF Struct, Zombies
    <3>4. n.smo = <<N(table, j).low, j>>
      BY <2>5, <3>1, <3>3 DEF Merged
    <3> HIDE DEF c, n, k
    <3>5. z[j] = c
      BY <2>5 DEF c
    <3>6. <<N(table, j).low, j>> \in k.items
      <4>1. Struct(table, retired, z, l, root)
        BY <1>2
      <4>2. /\ n.type # "split" /\ n.next # Nil /\ n.high < k.high => <<n.high, n.next>> \in k.items
            /\ n.type = "merge" =>
                 \A x \in k.items : x[1] = n.smo[1] => x = n.smo /\ z[x[2]] # Nil
            /\ \A i \in Ids : z[i] = c => <<N(table, i).low, i>> \in k.items
        BY <3>1, <3>2, <4>1, Around
      <4> QED BY <2>5, <3>5, <4>2
    <3>7. s \in found
      BY <1>3, <1>6, <3>4, <3>6 DEF n, k
    <3> QED BY <1>7, <3>7
  <2>6. NotInto(z, w2)
    <3>1. Lives(w.par) => \A j \in Ids : z[j] # w.par.id
      BY <1>3, <1>5, <1>7
    <3> QED BY <2>3, <2>5, <3>1 DEF NotInto
  <2>7. HalvesOK(table, After(t)) /\ NotInto(z, After(t))
    BY <2>4, <2>6 DEF w2
  <2>8. "fit" \in {"fit", "ready", "innersplit", "unblock"} /\ "fit" # "unblock" /\ pc[t] # "postremove" /\ pc[t] # "split"
    BY <1>1
  <2> QED BY <1>1, <2>1, <2>7, <2>8, GoOnStep
<1>8. CASE Matches(par[t]) /\ found # {}
  <2>1. /\ table' = [table EXCEPT ![p] = m]
        /\ par' = [Outdate(par, p) EXCEPT ![t] = Written(p, m)] /\ cur' = Outdate(cur, p)
        /\ retired' = retired \cup {[id |-> s[2], until |-> Inside]}
        /\ pc' = [pc EXCEPT ![t] = "consolidate"] /\ UNCHANGED <<removed, go>>
    BY <1>8 DEF FinishMerge, SetPar, Write, To, Retire
  <2>2. /\ pc'[t] = "consolidate" /\ removed'[t] = removed[t] /\ go'[t] = go[t] /\ call'[t] = call[t]
        /\ par'[t] = Written(p, m) /\ cur'[t] = OutSnap(cur[t], p)
    BY <1>1, <2>1 DEF InvOf, Shapes, Outdate, OutSnap
  <2>3. Outdates(t, p)
    <3>1. par' = [Outdate(par, p) EXCEPT ![t] = par'[t]] /\ cur' = Outdate(cur, p)
      BY <2>1, <2>2
    <3>2. /\ pc' = [pc EXCEPT ![t] = pc'[t]] /\ removed' = [removed EXCEPT ![t] = removed'[t]]
          /\ go' = [go EXCEPT ![t] = go'[t]] /\ call' = [call EXCEPT ![t] = call'[t]]
      BY <1>1, <2>1, <2>2 DEF InvOf, Shapes
    <3> QED BY <3>1, <3>2, Outdating
  <2>4. /\ w2.pc = "consolidate" /\ w2.par = Written(p, m) /\ w2.cur = OutSnap(w.cur, p)
        /\ w2.removed = w.removed /\ w2.go = w.go /\ w2.call = w.call
    BY <1>2, <2>2, ViewFields
  <2>5. m = Data(w.par.node, w.par.node.items \ found)
    BY <1>2
  <2>6. t \in Inside /\ (\A u \in Threads : pc[u] # "out" => u \in Inside)
        /\ \A r \in retired : r.until \subseteq Inside
    BY <1>1 DEF Inside, InvOf, Free
  <2>7. w.pc = "merge"
    BY <1>1, <1>2
  <2> HIDE DEF w, w2, p, s, found, m
  <2>8. /\ Lives(w.par) /\ p \in Ids /\ table[p] = w.par.node /\ N(table, p) = w.par.node
        /\ InC(table, retired, z, p) /\ InT(table, retired, p) /\ Whole(w.par.node)
        /\ InnerOK(w.par.node) /\ ~w.par.node.leaf
        /\ table[p].type \notin {"remove", "abort", "none"}
        /\ l[w.cur.id] + 1 = l[p]
        /\ <<w.cur.node.low, w.cur.id>> \in w.par.node.items
        /\ \A j \in Ids : z[j] # p
        /\ w.par.node.next # Nil => Sepd(table, retired, z, l, w.par.node.next)
    BY <1>5, <1>8
  <2>9. found = {s} /\ s \in w.par.node.items /\ z[s[2]] # Nil
    <3>1. \A x \in found : x \in w.par.node.items /\ x = s /\ z[x[2]] # Nil
      BY <1>3, <1>2, <1>6, <2>7, <2>8 DEF MergeOK
    <3> QED BY <1>8, <3>1
  <2>10. /\ w.par.node.low \in Nat /\ w.cur.node.low \in Nat /\ s[1] \in Nat /\ w.cur.node.high \in Nat
         /\ w.par.node.low <= w.cur.node.low /\ w.cur.node.low < s[1] /\ s[1] < w.cur.node.high
    <3>1. w.par.node.low <= <<w.cur.node.low, w.cur.id>>[1]
      BY <2>8 DEF InnerOK
    <3> QED BY <1>2, <1>3, <2>8, <3>1 DEF Whole
  <2>11. /\ Whole(m) /\ m.type = "delta" /\ m.leaf = w.par.node.leaf /\ m.low = w.par.node.low
         /\ m.high = w.par.node.high /\ m.next = w.par.node.next /\ m.items = w.par.node.items \ {s}
    <3> DEFINE n == w.par.node
               e == w.par.node.items \ found
    <3>1. Whole(n) /\ ~n.leaf /\ InnerOK(n) /\ m = Data(n, e) /\ e = n.items \ {s} /\ s[1] # n.low
      BY <2>5, <2>8, <2>9, <2>10
    <3> HIDE DEF n, e
    <3>2. /\ \A x \in e : /\ x = <<x[1], x[2]>> /\ x[1] \in Nat /\ x[2] \in Ids
                          /\ n.low <= x[1] /\ x[1] < n.high
          /\ \A x, y \in e : x[1] = y[1] => x = y
          /\ \E x \in e : x[1] = n.low
      BY <3>1 DEF InnerOK
    <3>3. /\ Whole(m) /\ m.type = "delta" /\ m.leaf = n.leaf /\ m.low = n.low
          /\ m.high = n.high /\ m.next = n.next /\ m.items = e
      BY <3>1, <3>2, DataFields
    <3> QED BY <3>1, <3>3 DEF n
  <2>12. Live(m) = m
    BY <2>11 DEF Live
  <2>13. DeleteWrite(table, retired, z, l, p, s, m, table', retired', z2, Inside)
    BY <2>1, <2>6, <2>8, <2>9, <2>10, <2>11, <2>12 DEF DeleteWrite
  <2> HIDE DEF z2
  <2>14. /\ s[2] \in Ids /\ s[2] # p /\ table'[p] = m /\ N(table', p) = m
         /\ \A j \in Ids : j # p => table'[j] = table[j]
         /\ \A j \in Ids : j # s[2] => z2[j] = z[j]
         /\ z2[s[2]] = Nil
         /\ \A j \in Ids : table'[j].type = "none" <=> table[j].type = "none"
         /\ InT(table', retired', p)
    <3>1. /\ s[2] \in Ids /\ s[2] # p /\ table'[p] = m /\ N(table', p) = m
          /\ \A j \in Ids : j # p => table'[j] = table[j] /\ N(table', j) = N(table, j)
          /\ \A j \in Ids : j # s[2] => z2[j] = z[j]
          /\ z2[s[2]] = Nil
          /\ \A j \in Ids : table'[j].type = "none" <=> table[j].type = "none"
          /\ \A j : InT(table', retired', j) <=> InT(table, retired, j) /\ j # s[2]
      BY <1>2, <2>13, DeleteFrame
    <3> QED BY <2>8, <3>1
  <2>15. Struct(table', retired', z2, l, root)
         /\ \A u \in Inside : Evolve(table, retired, z, l, table', retired', z2, l, u)
    BY <1>2, <2>13, DeleteSeparator, DeleteEvolve
  <2>16. /\ \A j \in Ids : table'[j].type = "abort" => table[j].type = "abort"
         /\ \A j \in Ids : table'[j].type = "remove" => table[j].type = "remove"
    BY <2>11, <2>14
  <2>17. ASSUME NEW u, NEW v, ThreadOK(table, retired, z, l, u, v)
         PROVE  WriteOK(table, retired, z, l, table', retired', z2, p, v)
    <3>1. table[p].type = "split" => Sepd(table, retired, z, l, table[p].next)
      BY <2>8 DEF Whole
    <3>2. \A j \in Ids : z[j] # Nil /\ z2[j] = Nil => j = s[2]
      BY <2>14
    <3>3. Lives(v.par) /\ v.par.id # p =>
            /\ \A x \in v.par.node.items : x[2] # s[2]
            /\ v.pc = "split" /\ v.cur.node.smo[1] < v.par.node.high => s[2] # v.cur.node.smo[2]
      <4> SUFFICES ASSUME Lives(v.par), v.par.id # p
                   PROVE  /\ \A x \in v.par.node.items : x[2] # s[2]
                          /\ v.pc = "split" /\ v.cur.node.smo[1] < v.par.node.high => s[2] # v.cur.node.smo[2]
        OBVIOUS
      <4>1. ~N(table, p).leaf /\ s \in N(table, p).items
        BY <2>8, <2>9
      <4> QED BY <1>2, <2>8, <2>17, <4>1, Elsewhere
    <3>4. \A r \in retired' : r \in retired \/ r.id = s[2]
      BY <2>1
    <3>5. \A r \in retired' :
            \/ \E q \in retired : q.id = r.id
            \/ v.pc = "split" /\ Lives(v.par) /\ v.par.id # p
                 /\ v.cur.node.smo[1] < v.par.node.high => r.id # v.cur.node.smo[2]
      BY <3>3, <3>4
    <3>6. \A j \in Ids : z2[j] = z[j] \/ z2[j] = Nil
      BY <2>14
    <3>7. \A j \in Ids : z[j] # Nil /\ z2[j] = Nil /\ Lives(v.par) /\ v.par.id # p =>
                           \A x \in v.par.node.items : x[2] # j
      BY <3>2, <3>3
    <3> QED BY <2>8, <2>14, <2>16, <3>1, <3>5, <3>6, <3>7 DEF WriteOK
  <2>18. ThreadOK(table', retired', z2, l, t, OutView(w, p))
    <3>1. WriteOK(table, retired, z, l, table', retired', z2, p, w)
      BY <1>2, <2>17
    <3>2. Evolve(table, retired, z, l, table', retired', z2, l, t)
      BY <2>6, <2>15
    <3> QED BY <1>2, <2>15, <3>1, <3>2, Others
  <2>19. ThreadOK(table', retired', z2, l, t, w2)
    <3> DEFINE v == OutView(w, p)
    <3>1. /\ v.pc = w.pc /\ v.cur = OutSnap(w.cur, p) /\ v.par = OutSnap(w.par, p)
          /\ v.removed = w.removed /\ v.go = w.go /\ v.call = w.call
      BY DEF OutView
    <3>2. v.par.id = p /\ v.par.node = w.par.node
      <4>1. w.par = [id |-> w.par.id, node |-> w.par.node, is |-> w.par.is]
        BY <1>2 DEF SnapOK
      <4> QED BY <1>3, <3>1, <4>1 DEF OutSnap
    <3>3. v.cur = w.cur /\ w.cur.id # p
      <4>1. l[w.cur.id] \in Nat
        BY <1>2 DEF Struct, Levels
      <4>2. w.cur.id # p
        BY <2>8, <4>1
      <4> QED BY <3>1, <4>2 DEF OutSnap
    <3> HIDE DEF v
    <3>4. ThreadOK(table', retired', z2, l, t, v)
      BY <2>18 DEF v
    <3>5. /\ w2.cur = v.cur /\ w2.par = [id |-> v.par.id, node |-> m, is |-> "match"]
          /\ w2.pc = "consolidate" /\ w2.go = v.go /\ w2.call = v.call /\ w2.removed = v.removed
      BY <2>4, <3>1, <3>2 DEF Written
    <3>6. /\ v.pc \in {"merge", "split"} /\ v.par.id # Nil /\ table'[v.par.id] = m /\ ~m.leaf
          /\ m.low = v.par.node.low /\ m.high = v.par.node.high /\ m.next = v.par.node.next
      BY <2>7, <2>8, <2>11, <2>14, <3>1, <3>2, IdsNotNil
    <3>7. NodeRefs(table', retired', l, t, m, l[v.par.id])
      <4>1. NodeRefs(table', retired', l, t, N(table', p), l[p])
        BY <2>14, <2>15, InTRefs
      <4> QED BY <2>14, <3>2, <4>1
    <3>8. <<v.cur.node.low, v.cur.id>> \in m.items
      BY <2>8, <2>10, <2>11, <3>3
    <3>9. v.cur.node.next # Nil /\ v.cur.node.high < m.high
             => <<v.cur.node.high, v.cur.node.next>> \in m.items
      <4> SUFFICES ASSUME w.cur.node.next # Nil, w.cur.node.high < m.high
                   PROVE  <<w.cur.node.high, w.cur.node.next>> \in m.items
        BY <3>3
      <4>1. <<w.cur.node.high, w.cur.node.next>> \in w.par.node.items
        BY <1>2, <2>7, <2>8, <2>11 DEF NextOfPar
      <4> QED BY <2>10, <2>11, <4>1
    <3>10. v.cur.node.next # Nil => Sepd(table', retired', z2, l, v.cur.node.next)
      <4>1. NextSepd(table', retired', z2, l, v) /\ v.pc # "split"
        BY <2>7, <3>1, <3>4 DEF ThreadOK, Walks
      <4> QED BY <1>2, <3>3, <4>1 DEF NextSepd
    <3>11. Lives(v.cur) => \A j \in Ids : z2[j] # v.cur.id
      <4> SUFFICES ASSUME Lives(w.cur), NEW j \in Ids, z2[j] = w.cur.id PROVE FALSE
        BY <3>3
      <4>1. j # s[2] /\ z[j] = w.cur.id
        BY <1>2, <2>14
      <4>2. Merged(table, retired, z, l, j) /\ N(table, w.cur.id) = w.cur.node
        BY <1>2, <4>1, CurCurrent DEF Struct, Zombies
      <4>3. s = <<N(table, j).low, j>>
        BY <1>3, <4>1, <4>2 DEF Merged
      <4> QED BY <4>1, <4>3
    <3>12. \A j \in Ids : z2[j] # v.par.id
      BY <2>8, <2>14, <3>2, IdsNotNil
    <3> QED BY <2>11, <2>15, <3>4, <3>5, <3>6, <3>7, <3>8, <3>9, <3>10, <3>11, <3>12, Reparent
  <2>20. Free'
    <3>1. unused' = {j \in Ids : table'[j].type = "none"}
      BY <1>1, <2>14 DEF InvOf, Free
    <3>2. \A r \in retired' : r \in retired \/ r.until \subseteq Inside
      BY <2>1
    <3> QED BY <1>1, <2>2, <2>3, <3>1, <3>2, FreeKept
  <2>21. \A id \in Ids : Owns(t, id)' <=> Owns(t, id)
    BY <1>1, <2>2 DEF Owns
  <2>22. Struct(table', retired', z2, l, root') /\ ThreadOK(table', retired', z2, l, t, After(t))
    BY <1>1, <2>15, <2>19 DEF w2
  <2>23. \A u \in Threads \ {t} :
            /\ WriteOK(table, retired, z, l, table', retired', z2, p, View(u))
            /\ pc[u] # "out" => Evolve(table, retired, z, l, table', retired', z2, l, u)
    BY <2>6, <2>15, <2>17 DEF InvOf
  <2> QED BY <2>3, <2>8, <2>16, <2>20, <2>21, <2>22, <2>23, WriteStep
<1> QED BY <1>4, <1>7, <1>8 DEF FinishMerge

(* A separator in the tree is in a current node.                            *)
LEMMA SeparatorHeld ==
  ASSUME NEW z, NEW l, Struct(table, retired, z, l, root), NEW s, s \in Separators
  PROVE  /\ InT(table, retired, s[2]) /\ N(table, s[2]).low = s[1]
         /\ HasSep(table, retired, z, l, s[2])
<1>1. PICK i \in Ids : i \notin {r.id : r \in retired} /\ ~table[i].leaf /\ s \in table[i].items
  BY DEF Separators, InTree
<1>2. Entries(table) /\ Targets(table, retired, l) /\ Zombies(table, retired, z, l) /\ Levels(table, retired, l, root)
  BY DEF Struct
<1>3. table[i].type # "none"
  <2>1. Entry(table[i])
    BY <1>2 DEF Entries
  <2>2. table[i].type = "none" => table[i] = None
    BY <2>1, PlainTypes DEF Entry, Whole
  <2>3. None.leaf
    BY DEF None, Node
  <2> QED BY <1>1, <2>2, <2>3
<1>4. InT(table, retired, i)
  BY <1>1, <1>3 DEF InT
<1>5. Whole(N(table, i)) /\ table[i].leaf = N(table, i).leaf /\ table[i].items = N(table, i).items
  <2>1. /\ Whole(N(table, i)) /\ table[i].type \in Plain \cup {"remove", "abort"}
        /\ table[i].type \in Plain => N(table, i) = table[i]
        /\ table[i].type \in {"remove", "abort"} => table[i] = Cover(N(table, i), table[i].type)
    BY <1>2, <1>3, Alloc
  <2> DEFINE n == N(table, i)
             c == table[i].type
             m == table[i]
  <2>2. c \in {"remove", "abort"} => Whole(n) /\ m = Cover(n, c)
    BY <2>1
  <2> HIDE DEF n, c, m
  <2>3. c \in {"remove", "abort"} => m.leaf = n.leaf /\ m.items = n.items
    BY <2>2, CoverFields
  <2> QED BY <2>1, <2>3 DEF n, c, m
<1>6. s \in N(table, i).items /\ ~N(table, i).leaf /\ InnerOK(N(table, i))
  BY <1>1, <1>5 DEF Whole
<1>7. /\ InT(table, retired, s[2]) /\ N(table, s[2]).low = s[1] /\ l[s[2]] + 1 = l[i]
      /\ s = <<s[1], s[2]>>
  BY <1>2, <1>4, <1>6 DEF Targets, InnerOK
<1>8. l[s[2]] \in Nat /\ l[i] \in Nat
  BY <1>2, <1>4, <1>7 DEF Levels, InT
<1>9. CASE z[i] = Nil
  <2>1. i \in Ids /\ InC(table, retired, z, i) /\ l[i] = l[s[2]] + 1 /\ <<N(table, s[2]).low, s[2]>> \in N(table, i).items
    BY <1>4, <1>6, <1>7, <1>8, <1>9 DEF InC
  <2> QED BY <1>7, <2>1 DEF HasSep
<1>10. CASE z[i] # Nil
  <2>1. Merged(table, retired, z, l, i)
    BY <1>2, <1>10 DEF Zombies
  <2> DEFINE q == z[i]
  <2>2. InC(table, retired, z, q) /\ l[q] = l[i] /\ N(table, i).items \subseteq N(table, q).items
    BY <2>1 DEF Merged
  <2> HIDE DEF q
  <2>3. q \in Ids /\ l[q] = l[s[2]] + 1 /\ <<N(table, s[2]).low, s[2]>> \in N(table, q).items
    BY <1>6, <1>7, <1>8, <2>2 DEF InC, InT
  <2> QED BY <1>7, <2>2, <2>3 DEF HasSep
<1> QED BY <1>9, <1>10

(* FinishSplit keeps the invariant if it passes no split record whose       *)
(* separator is not in the tree.                                            *)
LEMMA FinishSplitStep ==
  ASSUME NEW z, NEW l, InvOf(z, l), NEW t \in Threads, FinishSplit(t), SplitInserted
  PROVE  Inv'
<1> DEFINE w == View(t)
           w2 == After(t)
           p == par[t].id
           s == cur[t].node.smo
           parent == par[t].node
           found == Separator(parent, s[1])
           beyond == parent.next # Nil /\ s[1] >= parent.high
           m == Data(parent, parent.items \cup {s})
<1>1. pc[t] = "split" /\ p # Nil /\ UNCHANGED <<root, unused, retired, call>>
  BY DEF FinishSplit, HasParent
<1>2. /\ Walks(w)
      /\ w.pc = pc[t] /\ w.cur = cur[t] /\ w.par = par[t] /\ w.removed = removed[t]
      /\ w.go = go[t] /\ w.call = call[t]
      /\ Struct(table, retired, z, l, root) /\ ThreadOK(table, retired, z, l, t, w)
      /\ w.cur.node.type # "remove" /\ Whole(w.cur.node) /\ w.cur.id \in Ids /\ w.cur.id # Nil
      /\ CurOK(table, retired, l, t, w) /\ SnapOK(table, w.par) /\ SnapOK(table, w.cur)
      /\ NextSepd(table, retired, z, l, w) /\ NotInto(z, w) /\ SplitOK(retired, w) /\ HalvesOK(table, w)
  BY <1>1, AtWork
<1>3. w.cur.node.type = "split" /\ s = w.cur.node.smo /\ p = w.par.id /\ w.pc = "split" /\ parent = w.par.node
  BY <1>1, <1>2 DEF CurOK
<1>4. /\ s = <<w.cur.node.high, w.cur.node.next>> /\ w.cur.node.next # Nil
      /\ s[1] = w.cur.node.high /\ s[2] = w.cur.node.next /\ s[1] \in Nat /\ s[2] \in Ids
      /\ w.cur.node.low \in Nat /\ w.cur.node.low < s[1]
  BY <1>2, <1>3 DEF Whole
<1>5. Ref(table, retired, l, t, s[2], s[1], l[w.cur.id])
  BY <1>2, <1>4 DEF CurOK, NodeRefs
<1>6. found = {x \in w.par.node.items : x[1] = s[1]}
  BY <1>2 DEF Separator
<1>7. CASE (beyond \/ found = {s}) /\ To(t, "fit") /\ UNCHANGED <<table, cur, par, removed, go>>
  <2>1. pc'[t] = "fit"
    BY <1>7 DEF To, InvOf, Shapes
  <2>2. w2.pc = "fit" /\ w2.cur = w.cur /\ w2.par = w.par
    BY <1>2, <1>7, <2>1, ViewFields
  <2>3. w.cur.is # "stale" => s \in Separators
    BY <1>1, <1>2, <1>3, <2>1 DEF SplitInserted
  <2> HIDE DEF w, w2, p, s, parent, found
  <2>4. HalvesOK(table, w2)
    BY <1>2, <2>2 DEF HalvesOK
  <2>5. NextOfPar(w2)
    <3> SUFFICES ASSUME Lives(w.par), w.cur.node.high < w.par.node.high
                 PROVE  s \in w.par.node.items
      BY <1>4, <2>2 DEF NextOfPar
    <3>1. w.par.node.high \in Nat
      BY <1>2, ParCurrent DEF Whole
    <3>2. ~beyond
      BY <1>3, <1>4, <3>1
    <3>3. found = {s}
      BY <1>7, <3>2
    <3> QED BY <1>6, <3>3
  <2>6. Sepd(table, retired, z, l, w.cur.node.next)
    <3>1. CASE w.cur.is = "stale"
      BY <1>2, <1>3, <1>4, <3>1 DEF NextSepd
    <3>2. CASE w.cur.is # "stale"
      <4>1. s \in Separators
        BY <2>3, <3>2
      <4>2. HasSep(table, retired, z, l, s[2])
        BY <1>2, <4>1, SeparatorHeld
      <4> QED BY <1>4, <4>2 DEF Sepd
    <3> QED BY <3>1, <3>2
  <2>7. NextSepd(table, retired, z, l, w2)
    BY <1>2, <2>2, <2>6 DEF NextSepd
  <2>8. HalvesOK(table, After(t)) /\ NextOfPar(After(t)) /\ NextSepd(table, retired, z, l, After(t))
    BY <2>4, <2>5, <2>7 DEF w2
  <2>9. "fit" \in {"fit", "ready", "innersplit", "unblock"} /\ "fit" # "unblock" /\ pc[t] # "postremove" /\ pc[t] # "merge"
    BY <1>1
  <2> QED BY <1>1, <1>7, <2>8, <2>9, GoOnStep
<1>8. CASE Retry(t) /\ UNCHANGED table
  BY <1>1, <1>8, RetryStep
<1>9. CASE /\ ~beyond /\ found = {} /\ Matches(par[t])
           /\ SetPar(t, p, m) /\ To(t, "consolidate") /\ UNCHANGED <<removed, go>>
  <2>1. /\ table' = [table EXCEPT ![p] = m]
        /\ par' = [Outdate(par, p) EXCEPT ![t] = Written(p, m)] /\ cur' = Outdate(cur, p)
        /\ pc' = [pc EXCEPT ![t] = "consolidate"] /\ UNCHANGED <<removed, go>>
    BY <1>9 DEF SetPar, Write, To
  <2>2. /\ pc'[t] = "consolidate" /\ removed'[t] = removed[t] /\ go'[t] = go[t] /\ call'[t] = call[t]
        /\ par'[t] = Written(p, m) /\ cur'[t] = OutSnap(cur[t], p)
    BY <1>1, <2>1 DEF InvOf, Shapes, Outdate, OutSnap
  <2>3. Outdates(t, p)
    <3>1. par' = [Outdate(par, p) EXCEPT ![t] = par'[t]] /\ cur' = Outdate(cur, p)
      BY <2>1, <2>2
    <3>2. /\ pc' = [pc EXCEPT ![t] = pc'[t]] /\ removed' = [removed EXCEPT ![t] = removed'[t]]
          /\ go' = [go EXCEPT ![t] = go'[t]] /\ call' = [call EXCEPT ![t] = call'[t]]
      BY <1>1, <2>1, <2>2 DEF InvOf, Shapes
    <3> QED BY <3>1, <3>2, Outdating
  <2>4. /\ w2.pc = "consolidate" /\ w2.par = Written(p, m) /\ w2.cur = OutSnap(w.cur, p)
        /\ w2.removed = w.removed /\ w2.go = w.go /\ w2.call = w.call
    BY <1>2, <2>2, ViewFields
  <2>5. w.par.is = "match" /\ w.par.id # Nil /\ m = Data(w.par.node, w.par.node.items \cup {s})
        /\ (w.par.node.next # Nil => ~(s[1] >= w.par.node.high)) /\ \A x \in w.par.node.items : x[1] # s[1]
    BY <1>1, <1>2, <1>6, <1>9 DEF Matches
  <2> HIDE DEF w, w2, p, s, found, m, parent, beyond
  <2>6. /\ Lives(w.par) /\ p \in Ids /\ table[p] = w.par.node /\ N(table, p) = w.par.node
        /\ InC(table, retired, z, p) /\ InT(table, retired, p) /\ Whole(w.par.node)
        /\ InnerOK(w.par.node) /\ ~w.par.node.leaf
        /\ table[p].type \notin {"remove", "abort", "none"}
        /\ l[w.cur.id] + 1 = l[p]
        /\ <<w.cur.node.low, w.cur.id>> \in w.par.node.items
        /\ \A j \in Ids : z[j] # p
        /\ w.par.node.next # Nil => Sepd(table, retired, z, l, w.par.node.next)
    BY <1>2, <1>3, <2>5, ParMatch
  <2>7. Entries(table) /\ Apart(table, retired, z, l) /\ Levels(table, retired, l, root)
    BY <1>2 DEF Struct
  <2>8. /\ w.par.node.low \in Nat /\ w.par.node.high \in Nat
        /\ w.par.node.low <= s[1] /\ s[1] < w.par.node.high
    <3>1. w.par.node.low <= <<w.cur.node.low, w.cur.id>>[1] /\ w.par.node.low \in Nat /\ w.par.node.high \in Nat
          /\ (w.par.node.next = Nil => w.par.node.high = Inf)
      BY <2>6 DEF InnerOK, Whole
    <3>2. s[1] < Inf /\ Inf \in Nat
      <4>1. Whole(N(table, s[2])) /\ N(table, s[2]).low = s[1]
        BY <1>5, <2>7, Alloc DEF Ref, Guarded
      <4> QED BY <4>1, SizeAssumption DEF Whole, Inf
    <3> QED BY <1>4, <2>5, <3>1, <3>2
  <2>9. InC(table, retired, z, s[2]) /\ N(table, s[2]).low = s[1] /\ l[s[2]] + 1 = l[p]
    <3>1. N(table, s[2]).low = s[1] /\ l[s[2]] = l[w.cur.id] /\ Guarded(table, retired, t, s[2])
      BY <1>5 DEF Ref
    <3>2. InT(table, retired, s[2])
      BY <1>2, <1>3, <2>6, <2>8, <3>1 DEF SplitOK, Guarded, InT
    <3>3. z[s[2]] = Nil
      <4> SUFFICES ASSUME z[s[2]] # Nil PROVE FALSE
        OBVIOUS
      <4>1. HasSep(table, retired, z, l, s[2])
        BY <1>2, <1>4 DEF Struct, Zombies, Merged
      <4>2. PICK q \in Ids : InC(table, retired, z, q) /\ l[q] = l[s[2]] + 1 /\ s \in N(table, q).items
        BY <1>4, <3>1, <4>1 DEF HasSep
      <4>3. l[q] # 0 /\ l[q] = l[p]
        BY <1>4, <2>6, <2>7, <3>1, <4>2 DEF Levels
      <4>4. ~N(table, q).leaf
        BY <2>7, <4>2, <4>3 DEF Levels, InC
      <4>5. q = p
        BY <2>6, <2>7, <2>8, <4>2, <4>3, <4>4, OneHolder
      <4> QED BY <2>5, <2>6, <4>2, <4>5
    <3> QED BY <2>6, <3>1, <3>2, <3>3 DEF InC
  <2>10. /\ Whole(m) /\ m.type = "delta" /\ m.leaf = w.par.node.leaf /\ m.low = w.par.node.low
         /\ m.high = w.par.node.high /\ m.next = w.par.node.next /\ m.items = w.par.node.items \cup {s}
    <3> DEFINE n == w.par.node
               e == w.par.node.items \cup {s}
    <3>1. Whole(n) /\ ~n.leaf /\ InnerOK(n) /\ m = Data(n, e) /\ e = n.items \cup {s}
          /\ s = <<s[1], s[2]>> /\ s[1] \in Nat /\ s[2] \in Ids /\ n.low <= s[1] /\ s[1] < n.high
          /\ \A x \in n.items : x[1] # s[1]
      BY <1>4, <2>5, <2>6, <2>8
    <3> HIDE DEF n, e
    <3>2. /\ \A x \in e : /\ x = <<x[1], x[2]>> /\ x[1] \in Nat /\ x[2] \in Ids
                          /\ n.low <= x[1] /\ x[1] < n.high
          /\ \A x, y \in e : x[1] = y[1] => x = y
          /\ \E x \in e : x[1] = n.low
      BY <3>1 DEF InnerOK
    <3>3. /\ Whole(m) /\ m.type = "delta" /\ m.leaf = n.leaf /\ m.low = n.low
          /\ m.high = n.high /\ m.next = n.next /\ m.items = e
      BY <3>1, <3>2, DataFields
    <3> QED BY <3>3 DEF n, e
  <2>11. Live(m) = m /\ Entry(m)
    BY <2>10 DEF Live, Entry
  <2>12. InPlaceWrite(table, retired, z, l, root, p, m, table')
    <3>1. \A x \in Live(m).items \ N(table, p).items :
             InC(table, retired, z, x[2]) /\ N(table, x[2]).low = x[1] /\ l[x[2]] + 1 = l[p]
      BY <2>6, <2>9, <2>10, <2>11
    <3> QED BY <2>1, <2>6, <2>10, <2>11, <3>1 DEF InPlaceWrite
  <2>13. Struct(table', retired, z, l, root) /\ \A u : Evolve(table, retired, z, l, table', retired, z, l, u)
    BY <1>2, <2>12, InPlace, InPlaceEvolve
  <2>14. /\ table'[p] = m /\ N(table', p) = m
         /\ \A j \in Ids : j # p => table'[j] = table[j]
         /\ \A j \in Ids : N(table', j).low = N(table, j).low
         /\ \A j : InT(table', retired, j) <=> InT(table, retired, j)
         /\ \A j : InC(table', retired, z, j) <=> InC(table, retired, z, j)
    <3>1. /\ table'[p] = m /\ N(table', p) = Live(m)
          /\ \A j \in Ids : j # p => table'[j] = table[j] /\ N(table', j) = N(table, j)
          /\ \A j : InT(table', retired, j) <=> InT(table, retired, j)
          /\ \A j : InC(table', retired, z, j) <=> InC(table, retired, z, j)
          /\ \A j \in Ids : N(table', j).low = N(table, j).low
      BY <1>2, <2>12, InPlaceFrame
    <3> QED BY <2>11, <3>1
  <2>15. /\ \A j \in Ids : table'[j].type = "abort" => table[j].type = "abort"
         /\ \A j \in Ids : table'[j].type = "remove" => table[j].type = "remove"
         /\ \A j \in Ids : table'[j].type = "none" <=> table[j].type = "none"
    BY <2>6, <2>10, <2>14
  <2>16. \A v : WriteOK(table, retired, z, l, table', retired, z, p, v)
    <3>1. table[p].type = "split" => Sepd(table, retired, z, l, table[p].next)
      BY <2>6 DEF Whole
    <3>2. \A j \in Ids : j # p /\ table[j].type # "none" => table'[j] = table[j]
      BY <2>14
    <3> QED BY <2>6, <2>15, <3>1, <3>2, PlainWrite
  <2>17. ThreadOK(table', retired, z, l, t, OutView(w, p))
    BY <1>2, <2>13, <2>16, Others
  <2>18. ThreadOK(table', retired, z, l, t, w2)
    <3> DEFINE v == OutView(w, p)
    <3>1. /\ v.pc = w.pc /\ v.cur = OutSnap(w.cur, p) /\ v.par = OutSnap(w.par, p)
          /\ v.removed = w.removed /\ v.go = w.go /\ v.call = w.call
      BY DEF OutView
    <3>2. v.par.id = p /\ v.par.node = w.par.node
      <4>1. w.par = [id |-> w.par.id, node |-> w.par.node, is |-> w.par.is]
        BY <1>2 DEF SnapOK
      <4> QED BY <1>3, <3>1, <4>1 DEF OutSnap
    <3>3. v.cur = w.cur /\ w.cur.id # p
      <4>1. l[w.cur.id] \in Nat
        BY <1>2 DEF Struct, Levels
      <4>2. w.cur.id # p
        BY <2>6, <4>1
      <4> QED BY <3>1, <4>2 DEF OutSnap
    <3> HIDE DEF v
    <3>4. ThreadOK(table', retired, z, l, t, v)
      BY <2>17 DEF v
    <3>5. /\ w2.cur = v.cur /\ w2.par = [id |-> v.par.id, node |-> m, is |-> "match"]
          /\ w2.pc = "consolidate" /\ w2.go = v.go /\ w2.call = v.call /\ w2.removed = v.removed
      BY <2>4, <3>1, <3>2 DEF Written
    <3>6. /\ v.pc \in {"merge", "split"} /\ v.par.id # Nil /\ table'[v.par.id] = m /\ ~m.leaf
          /\ m.low = v.par.node.low /\ m.high = v.par.node.high /\ m.next = v.par.node.next
      BY <1>3, <2>6, <2>10, <2>14, <3>1, <3>2, IdsNotNil
    <3>7. NodeRefs(table', retired, l, t, m, l[v.par.id])
      <4>1. NodeRefs(table', retired, l, t, N(table', p), l[p])
        BY <2>6, <2>13, <2>14, InTRefs
      <4> QED BY <2>14, <3>2, <4>1
    <3>8. <<v.cur.node.low, v.cur.id>> \in m.items
      BY <2>6, <2>10, <3>3
    <3>9. v.cur.node.next # Nil /\ v.cur.node.high < m.high
             => <<v.cur.node.high, v.cur.node.next>> \in m.items
      BY <1>4, <2>10, <3>3
    <3>10. v.cur.node.next # Nil => Sepd(table', retired, z, l, v.cur.node.next)
      <4>1. InC(table', retired, z, p) /\ l[p] = l[s[2]] + 1 /\ <<N(table', s[2]).low, s[2]>> \in N(table', p).items
        <5>1. N(table', s[2]).low = s[1]
          BY <1>4, <2>9, <2>14
        <5> QED BY <1>4, <2>6, <2>9, <2>10, <2>14, <5>1
      <4> QED BY <1>4, <2>6, <3>3, <4>1 DEF Sepd, HasSep
    <3>11. Lives(v.cur) => \A j \in Ids : z[j] # v.cur.id
      BY <1>2, <1>3, <3>3 DEF NotInto
    <3>12. \A j \in Ids : z[j] # v.par.id
      BY <2>6, <3>2
    <3> QED BY <2>10, <2>13, <3>4, <3>5, <3>6, <3>7, <3>8, <3>9, <3>10, <3>11, <3>12, Reparent
  <2>19. Free'
    <3>1. unused' = {j \in Ids : table'[j].type = "none"}
      BY <1>1, <2>15 DEF InvOf, Free
    <3> QED BY <1>1, <2>2, <2>3, <3>1, FreeKept
  <2>20. \A id \in Ids : Owns(t, id)' <=> Owns(t, id)
    BY <1>1, <2>2 DEF Owns
  <2>21. Struct(table', retired', z, l, root') /\ ThreadOK(table', retired', z, l, t, After(t))
    BY <1>1, <2>13, <2>18 DEF w2
  <2>22. \A u \in Threads \ {t} :
            /\ WriteOK(table, retired, z, l, table', retired', z, p, View(u))
            /\ pc[u] # "out" => Evolve(table, retired, z, l, table', retired', z, l, u)
    BY <1>1, <2>13, <2>16
  <2> QED BY <2>3, <2>6, <2>15, <2>19, <2>20, <2>21, <2>22, WriteStep
<1> QED BY <1>7, <1>8, <1>9 DEF FinishSplit

(* A write of an unused entry.                                              *)
LEMMA FreshWriteOK ==
  ASSUME NEW T, NEW R, NEW z, NEW l, NEW top, Struct(T, R, z, l, top),
         NEW new, NEW m, NEW U, NEW T2, NEW R2, NEW l2, NEW top2,
         FreshWrite(T, R, z, l, top, new, m, U, T2, R2, l2, top2),
         NEW u, NEW v, ThreadOK(T, R, z, l, u, v)
  PROVE  /\ WriteOK(T, R, z, l, T2, R2, z, new, v)
         /\ v.cur.id # new /\ v.par.id # new
<1>1. /\ new \in Ids /\ T[new].type = "none"
      /\ T2[new] = m /\ m.type = "base"
      /\ \A j \in Ids : j # new => T2[j] = T[j]
      /\ \A r \in R2 : r \in R \/ r.id = new
  <2>1. /\ new \in Ids /\ T[new].type = "none"
        /\ T2[new] = m /\ m.type = "base"
        /\ \A j \in Ids : j # new => T2[j] = T[j] /\ N(T2, j) = N(T, j)
        /\ \A r \in R2 : r \in R \/ r.id = new
    BY FreshFrame
  <2> QED BY <2>1
<1>2. v.cur.id # new /\ v.par.id # new
  BY <1>1, InUse DEF Guarded
<1>3. ASSUME v.pc = "split" PROVE v.cur.node.smo[2] # new
  <2>1. CurOK(T, R, l, u, v)
    BY <1>3 DEF ThreadOK, Walks
  <2>2. v.cur.node.type = "split" /\ Whole(v.cur.node)
    BY <1>3, <2>1, EntryFacts, PlainTypes DEF CurOK, Plain
  <2>3. v.cur.node.smo[2] = v.cur.node.next /\ v.cur.node.next # Nil
    BY <2>2 DEF Whole
  <2>4. T[v.cur.node.next].type # "none"
    BY <2>1, <2>3 DEF CurOK, NodeRefs, Ref, Guarded
  <2> QED BY <1>1, <2>3, <2>4
<1>4. \A r \in R2 :
        \/ \E q \in R : q.id = r.id
        \/ v.pc = "split" /\ Lives(v.par) /\ v.par.id # new
             /\ v.cur.node.smo[1] < v.par.node.high => r.id # v.cur.node.smo[2]
  BY <1>1, <1>3
<1>5. \A j \in Ids : T2[j].type = "remove" => T[j].type = "remove"
  BY <1>1
<1> QED BY <1>1, <1>2, <1>4, <1>5 DEF WriteOK

(* The new root, or what would have been.                                   *)
TopOf(i, s) == Node(FALSE, "base", 0, Inf, Nil, {<<0, i>>, s})

(* A new root is a whole node.                                              *)
LEMMA TopWhole ==
  ASSUME NEW i \in Ids, NEW s, s = <<s[1], s[2]>>, s[1] \in Nat, s[2] \in Ids, 0 < s[1], s[1] < Inf,
         NEW m, m = TopOf(i, s)
  PROVE  /\ Whole(m) /\ m.type = "base" /\ ~m.leaf /\ m.low = 0 /\ m.next = Nil
         /\ m.items = {<<0, i>>, s}
<1>1. /\ m.leaf = FALSE /\ m.type = "base" /\ m.low = 0 /\ m.high = Inf /\ m.next = Nil
      /\ m.items = {<<0, i>>, s}
  BY DEF TopOf, Node
<1>2. IsNode(m)
  BY DEF TopOf, Node, IsNode
<1>3. Inf \in Nat /\ 0 < Inf
  BY SizeAssumption DEF Inf
<1> DEFINE e == <<0, i>>
<1>4. e = <<e[1], e[2]>> /\ e[1] = 0 /\ e[2] \in Ids /\ m.items = {e, s}
  BY <1>1
<1> HIDE DEF e
<1>5. InnerOK(m)
  <2>1. ASSUME NEW x \in m.items
        PROVE  x = <<x[1], x[2]>> /\ x[1] \in Nat /\ x[2] \in Ids /\ m.low <= x[1] /\ x[1] < m.high
    <3>1. x = e \/ x = s
      BY <1>4
    <3>2. CASE x = e
      BY <1>1, <1>3, <1>4, <3>2
    <3>3. CASE x = s
      BY <1>1, <3>3
    <3> QED BY <3>1, <3>2, <3>3
  <2>2. ASSUME NEW x \in m.items, NEW y \in m.items, x[1] = y[1] PROVE x = y
    <3>1. (x = e \/ x = s) /\ (y = e \/ y = s)
      BY <1>4
    <3> QED BY <1>4, <2>2, <3>1
  <2>3. e \in m.items /\ e[1] = m.low
    BY <1>1, <1>4
  <2> QED BY <2>1, <2>2, <2>3 DEF InnerOK
<1>7. m.leaf \in BOOLEAN /\ ~m.leaf
  BY Zenon DEF TopOf, Node
<1>6. m.next \in Ids \cup {Nil} /\ m.type \in Plain
      /\ m.type # "split" /\ m.type # "merge" /\ m.low \in Nat /\ m.high \in Nat
      /\ m.low < m.high /\ m.high <= Inf /\ (m.next = Nil => m.high = Inf)
  BY <1>1, <1>3 DEF Plain
<1> QED BY <1>1, <1>2, <1>5, <1>6, <1>7 DEF Whole

(* SplitRoot keeps the invariant.                                           *)
LEMMA SplitRootStep ==
  ASSUME NEW z, NEW l, InvOf(z, l), NEW t \in Threads, SplitRoot(t)
  PROVE  Inv'
<1> DEFINE w == View(t)
           c == cur[t].id
           s == cur[t].node.smo
           new == NewId
           m == TopOf(c, s)
           l2 == IF root = c THEN [l EXCEPT ![new] = l[root] + 1] ELSE l
<1>1. /\ pc[t] = "split" /\ unused # {} /\ unused' = unused \ {new} /\ table' = [table EXCEPT ![new] = m]
      /\ \/ root = c /\ root' = new /\ retired' = retired
         \/ root # c /\ root' = root /\ retired' = retired \cup {[id |-> new, until |-> Inside]}
      /\ Retry(t) /\ UNCHANGED call
  BY DEF SplitRoot, Retire, TopOf
<1>2. /\ Walks(w) /\ w.pc = pc[t] /\ w.cur = cur[t]
      /\ Struct(table, retired, z, l, root) /\ ThreadOK(table, retired, z, l, t, w)
      /\ Whole(w.cur.node) /\ w.cur.id \in Ids /\ w.cur.id # Nil
      /\ CurOK(table, retired, l, t, w)
  BY <1>1, AtWork
<1>3. w.cur.node.type = "split" /\ s = w.cur.node.smo /\ c = w.cur.id
  BY <1>1, <1>2 DEF CurOK
<1>4. /\ s = <<w.cur.node.high, w.cur.node.next>> /\ w.cur.node.next # Nil
      /\ s[1] = w.cur.node.high /\ s[2] = w.cur.node.next /\ s[1] \in Nat /\ s[2] \in Ids
      /\ w.cur.node.low \in Nat /\ w.cur.node.low < s[1]
  BY <1>2, <1>3 DEF Whole
<1>5. Ref(table, retired, l, t, s[2], s[1], l[c]) /\ Ref(table, retired, l, t, c, w.cur.node.low, l[c])
  BY <1>2, <1>3, <1>4 DEF CurOK, NodeRefs
<1>6. Entries(table) /\ Levels(table, retired, l, root) /\ InC(table, retired, z, root) /\ N(table, root).low = 0
  BY <1>2 DEF Struct, Ends
<1>7. 0 < s[1] /\ s[1] < Inf
  <2>1. Whole(N(table, s[2])) /\ N(table, s[2]).low = s[1]
    BY <1>5, <1>6, Alloc DEF Ref, Guarded
  <2> QED BY <1>4, <2>1, SizeAssumption DEF Whole, Inf
<1>8. unused \subseteq Ids /\ unused = {j \in Ids : table[j].type = "none"}
  BY DEF InvOf, Free
<1>9. new \in Ids /\ table[new].type = "none" /\ new \in unused
  <2>1. new \in unused
    BY <1>1, <1>8, NewIdFree
  <2> QED BY <1>8, <2>1
<1> HIDE DEF w, c, s, new, m
<1>10. /\ Whole(m) /\ m.type = "base" /\ ~m.leaf /\ m.low = 0 /\ m.next = Nil
       /\ m.items = {<<0, c>>, s}
  <2>1. c \in Ids /\ s = <<s[1], s[2]>> /\ m = TopOf(c, s)
    BY <1>2, <1>3, <1>4 DEF m
  <2> QED BY <1>4, <1>7, <2>1, TopWhole
<1>11. FreshWrite(table, retired, z, l, root, new, m, Inside, table', retired', l2, root')
  <2>1. CASE root # c
    BY <1>1, <1>9, <1>10, <2>1 DEF FreshWrite
  <2>2. CASE root = c
    <3>1. N(table, c).low = 0 /\ InC(table, retired, z, c) /\ l[c] = l[root]
      BY <1>6, <2>2
    <3>2. InC(table, retired, z, s[2]) /\ N(table, s[2]).low = s[1] /\ l[s[2]] = l[root]
      <4>1. Guarded(table, retired, t, s[2]) /\ N(table, s[2]).low = s[1] /\ l[s[2]] = l[root]
        BY <1>5, <2>2 DEF Ref
      <4>2. table[s[2]].type # "remove"
        <5>1. l[root] \in Nat
          BY <1>6 DEF Levels, InC, InT
        <5> QED BY <1>4, <1>6, <4>1, <5>1 DEF Levels
      <4> QED BY <1>2, <4>1, <4>2, GuardedInC
    <3> DEFINE e == <<0, c>>
    <3>3. e[1] = 0 /\ e[2] = c /\ m.items = {e, s}
      BY <1>10
    <3> HIDE DEF e
    <3>4. \A x \in m.items : InC(table, retired, z, x[2]) /\ N(table, x[2]).low = x[1] /\ l[x[2]] = l[root]
      BY <3>1, <3>2, <3>3
    <3> QED BY <1>1, <1>9, <1>10, <2>2, <3>4 DEF FreshWrite
  <2> QED BY <2>1, <2>2
<1> HIDE DEF l2
<1>12. Struct(table', retired', z, l2, root') /\ \A u : Evolve(table, retired, z, l, table', retired', z, l2, u)
  BY <1>2, <1>11, FreshStep, FreshEvolve
<1>13. /\ table'[new] = m /\ \A j \in Ids : j # new => table'[j] = table[j]
  BY <1>1, <1>6, <1>9 DEF Entries
<1>14. \A u \in Threads : /\ WriteOK(table, retired, z, l, table', retired', z, new, View(u))
                          /\ cur[u].id # new /\ par[u].id # new
  <2> TAKE u \in Threads
  <2> DEFINE v == View(u)
  <2>1. ThreadOK(table, retired, z, l, u, v) /\ v.cur = cur[u] /\ v.par = par[u]
    BY ViewFields DEF InvOf
  <2> HIDE DEF v
  <2>2. WriteOK(table, retired, z, l, table', retired', z, new, v) /\ v.cur.id # new /\ v.par.id # new
    BY <1>2, <1>11, <2>1, FreshWriteOK
  <2> QED BY <2>1, <2>2 DEF v
<1>15. OnlyOwn(t) /\ pc'[t] = "root" /\ ThreadOK(table', retired', z, l2, t, After(t))
  BY <1>1, RetryView
<1>16. Outdates(t, new)
  <2>1. \A u \in Threads : OutSnap(cur[u], new) = cur[u] /\ OutSnap(par[u], new) = par[u]
    BY <1>14 DEF OutSnap
  <2> QED BY <1>15, <2>1 DEF OnlyOwn, Outdates
<1>17. /\ \A j \in Ids : table'[j].type = "abort" => table[j].type = "abort"
       /\ unused' = {j \in Ids : table'[j].type = "none"}
  BY <1>1, <1>8, <1>9, <1>10, <1>13
<1>18. \A r \in retired' : r \in retired \/ r.until \subseteq Inside
  BY <1>1
<1>19. Free'
  BY <1>1, <1>15, <1>16, <1>17, <1>18, FreeKept
<1>20. \A id \in Ids : Owns(t, id)' <=> Owns(t, id)
  BY <1>1, <1>15 DEF Owns
<1> QED BY <1>9, <1>12, <1>14, <1>15, <1>16, <1>17, <1>19, <1>20, WriteStep

(* The node under an abort record is what its owner's parent snapshot says. *)
LEMMA Blocked ==
  ASSUME NEW z, NEW l, InvOf(z, l), NEW i \in Ids, table[i].type = "abort"
  PROVE  /\ Whole(N(table, i)) /\ table[i] = Cover(N(table, i), "abort")
         /\ \E u \in Threads : /\ Owns(u, i) /\ Walks(View(u)) /\ Lives(par[u]) /\ par[u].is = "under"
                               /\ par[u].node = N(table, i)
<1>1. PICK u \in Threads : Owns(u, i)
  BY DEF InvOf, Owners
<1> DEFINE v == View(u)
<1>2. /\ v.pc \in {"postremove", "unblock"} /\ v.par.id = i /\ v.par = par[u]
  BY <1>1, ViewFields DEF Owns
<1>3. Struct(table, retired, z, l, root) /\ ThreadOK(table, retired, z, l, u, v)
  BY DEF InvOf
<1> HIDE DEF v
<1>4. Walks(v)
  BY <1>2 DEF Walks
<1>5. v.par.is = "under" /\ v.par.id # Nil
  BY <1>2, <1>3, <1>4 DEF ThreadOK, BlockOK
<1>6. Lives(v.par)
  BY <1>5 DEF Lives
<1>7. N(table, i) = v.par.node
  <2>1. Struct(table, retired, z, l, root)
    BY <1>3
  <2>2. ThreadOK(table, retired, z, l, u, v)
    BY <1>3
  <2>3. /\ v.par.id \in Ids /\ InC(table, retired, z, v.par.id) /\ InT(table, retired, v.par.id)
        /\ N(table, v.par.id) = v.par.node /\ table[v.par.id].type # "remove"
        /\ Whole(v.par.node) /\ ~v.par.node.leaf /\ InnerOK(v.par.node)
        /\ v.cur.id # Nil /\ l[v.cur.id] + 1 = l[v.par.id]
        /\ <<v.cur.node.low, v.cur.id>> \in v.par.node.items
    BY <1>4, <1>6, <2>1, <2>2, ParCurrent
  <2>4. N(table, v.par.id) = v.par.node
    BY <2>3
  <2> QED BY <1>2, <2>4
<1>8. Entries(table)
  BY <1>3 DEF Struct
<1>9. Whole(N(table, i)) /\ table[i] = Cover(N(table, i), "abort")
  BY <1>8, Alloc
<1> QED BY <1>1, <1>2, <1>4, <1>5, <1>6, <1>7, <1>9 DEF v

(* A node that is about to be split is no parent that is blocked.           *)
LEMMA SplitsUnblocked ==
  ASSUME NEW z, NEW l, InvOf(z, l), NEW t \in Threads, pc[t] = "innersplit"
  PROVE  cur[t].is # "under"
<1> SUFFICES ASSUME cur[t].is = "under" PROVE FALSE
  OBVIOUS
<1> DEFINE w == View(t)
<1>1. /\ Walks(w) /\ w.pc = pc[t] /\ w.cur = cur[t]
      /\ Struct(table, retired, z, l, root) /\ ThreadOK(table, retired, z, l, t, w)
      /\ w.cur.node.type # "remove" /\ Whole(w.cur.node) /\ w.cur.id \in Ids /\ w.cur.id # Nil
      /\ HalvesOK(table, w) /\ SnapOK(table, w.cur)
  BY AtWork
<1> HIDE DEF w
<1>2. Lives(w.cur) /\ TooLarge(w.cur.node) /\ table[SplitChild(w.cur.node)].type # "remove"
  BY <1>1 DEF HalvesOK, Lives
<1>3. /\ w.cur.id \in Ids /\ table[w.cur.id].type # "none" /\ N(table, w.cur.id) = Live(w.cur.node)
      /\ w.cur.node.type # "remove" =>
           /\ InC(table, retired, z, w.cur.id) /\ InT(table, retired, w.cur.id)
           /\ N(table, w.cur.id) = w.cur.node
           /\ Whole(w.cur.node) /\ table[w.cur.id].type # "remove"
  BY <1>1, <1>2, CurCurrent
<1>4. table[w.cur.id].type = "abort"
  <2>1. table[w.cur.id] = Cover(w.cur.node, "abort")
    BY <1>1 DEF SnapOK
  <2> QED BY <1>1, <2>1, CoverFields
<1>5. PICK u \in Threads : /\ Owns(u, w.cur.id) /\ Walks(View(u)) /\ Lives(par[u])
                           /\ par[u].is = "under" /\ par[u].node = N(table, w.cur.id)
  BY <1>3, <1>4, Blocked
<1>6. ThreadOK(table, retired, z, l, u, View(u)) /\ View(u).par = par[u]
  BY ViewFields DEF InvOf
<1>7. HalvesOK(table, View(u))
  BY <1>5, <1>6 DEF ThreadOK
<1>8. par[u].node = w.cur.node
  BY <1>1, <1>3, <1>5
<1> QED BY <1>2, <1>5, <1>6, <1>7, <1>8 DEF HalvesOK

(* SplitNode keeps the invariant.                                           *)
LEMMA SplitNodeStep ==
  ASSUME NEW z, NEW l, InvOf(z, l), NEW t \in Threads, SplitNode(t)
  PROVE  Inv'
<1> DEFINE w == View(t)
           w2 == After(t)
           i == cur[t].id
           n == cur[t].node
           new == NewId
           sib == Sibling(cur[t].node, SplitKey(cur[t].node), Moved(cur[t].node))
           kept == cur[t].node.items \ Moved(cur[t].node)
           m == Split(cur[t].node, SplitKey(cur[t].node), NewId, kept)
<1>1. /\ (pc[t] = "fit" /\ TooLarge(n) /\ n.leaf) \/ pc[t] = "innersplit"
      /\ unused # {} /\ unused' = unused \ {new} /\ UNCHANGED <<root, call>>
      /\ pc[t] # "out"
  BY DEF SplitNode, MustSplit
<1>2. /\ Walks(w)
      /\ w.pc = pc[t] /\ w.cur = cur[t] /\ w.par = par[t] /\ w.removed = removed[t]
      /\ w.go = go[t] /\ w.call = call[t]
      /\ Struct(table, retired, z, l, root) /\ ThreadOK(table, retired, z, l, t, w)
      /\ w.cur.node.type # "remove" /\ Whole(w.cur.node) /\ w.cur.id \in Ids /\ w.cur.id # Nil
      /\ HalvesOK(table, w) /\ SnapOK(table, w.cur) /\ Placed(w)
  BY <1>1, AtWork
<1>3. TooLarge(n) /\ Whole(n) /\ i \in Ids /\ i # Nil /\ w.cur.node = n /\ w.cur.id = i
  BY <1>1, <1>2 DEF HalvesOK
<1>4. unused \subseteq Ids /\ unused = {j \in Ids : table[j].type = "none"}
  BY DEF InvOf, Free
<1>5. new \in Ids /\ table[new].type = "none" /\ new \in unused
  <2>1. new \in unused
    BY <1>1, <1>4, NewIdFree
  <2> QED BY <1>4, <2>1
<1>6. /\ sib = Sibling(n, SplitKey(n), Moved(n))
      /\ m = Split(n, SplitKey(n), new, kept) /\ kept = n.items \ Moved(n)
  OBVIOUS
<1>7. Entries(table)
  BY <1>2 DEF Struct
<1>8. CASE ~Matches(cur[t])
  <2>1. /\ table' = [table EXCEPT ![new] = sib]
        /\ retired' = retired \cup {[id |-> new, until |-> Inside]}
        /\ pc' = [pc EXCEPT ![t] = "ready"] /\ UNCHANGED <<cur, par, removed, go>>
    BY <1>8 DEF SplitNode, Retire, To
  <2>2. pc'[t] = "ready" /\ OnlyOwn(t)
    BY <1>1, <2>1 DEF InvOf, Shapes, OnlyOwn
  <2>3. /\ w2.pc = "ready" /\ w2.cur = w.cur /\ w2.par = w.par /\ w2.removed = w.removed
        /\ w2.go = w.go /\ w2.call = w.call
    BY <1>1, <1>2, <2>1, <2>2, ViewFields
  <2> HIDE DEF w, w2, i, n, new, sib, m, kept
  <2>4. Whole(sib) /\ sib.type = "base"
    BY <1>3, <1>6, SiblingWhole
  <2>5. FreshWrite(table, retired, z, l, root, new, sib, Inside, table', retired', l, root)
    BY <1>5, <2>1, <2>4 DEF FreshWrite
  <2>6. Struct(table', retired', z, l, root) /\ \A u : Evolve(table, retired, z, l, table', retired', z, l, u)
    BY <1>2, <2>5, FreshStep, FreshEvolve
  <2>7. table'[new] = sib /\ \A j \in Ids : j # new => table'[j] = table[j]
    BY <1>5, <1>7, <2>1 DEF Entries
  <2>8. \A u \in Threads : /\ WriteOK(table, retired, z, l, table', retired', z, new, View(u))
                           /\ cur[u].id # new /\ par[u].id # new
    <3> TAKE u \in Threads
    <3> DEFINE v == View(u)
    <3>1. ThreadOK(table, retired, z, l, u, v) /\ v.cur = cur[u] /\ v.par = par[u]
      BY ViewFields DEF InvOf
    <3> HIDE DEF v
    <3>2. WriteOK(table, retired, z, l, table', retired', z, new, v) /\ v.cur.id # new /\ v.par.id # new
      BY <1>2, <2>5, <3>1, FreshWriteOK
    <3> QED BY <3>1, <3>2 DEF v
  <2>9. Outdates(t, new)
    <3>1. \A u \in Threads : OutSnap(cur[u], new) = cur[u] /\ OutSnap(par[u], new) = par[u]
      BY <2>8 DEF OutSnap
    <3> QED BY <2>2, <3>1 DEF OnlyOwn, Outdates
  <2>10. ThreadOK(table', retired', z, l, t, OutView(w, new))
    <3>1. WriteOK(table, retired, z, l, table', retired', z, new, w)
      BY <2>8 DEF w
    <3> QED BY <1>2, <2>6, <3>1, Others
  <2>11. ThreadOK(table', retired', z, l, t, w2)
    <3> DEFINE v == OutView(w, new)
    <3>1. OutSnap(w.cur, new) = w.cur /\ OutSnap(w.par, new) = w.par
      BY <1>2, <2>8 DEF OutSnap
    <3>2. /\ v.pc = w.pc /\ v.cur = w.cur /\ v.par = w.par
          /\ v.removed = w.removed /\ v.go = w.go /\ v.call = w.call
      BY <3>1 DEF OutView
    <3>3. ThreadOK(table', retired', z, l, t, v)
      BY <2>10
    <3> HIDE DEF v
    <3>4. Walks(v) /\ v.cur.id # Nil /\ v.cur.node.type # "remove" /\ v.pc # "split" /\ v.pc # "merge"
      BY <1>1, <1>2, <3>2 DEF Walks
    <3>5. /\ w2.cur = v.cur /\ w2.par = v.par /\ w2.removed = v.removed /\ w2.go = v.go
          /\ w2.call = v.call
      BY <2>3, <3>2
    <3>6. w2.pc \in {"fit", "ready", "innersplit", "postremove", "unblock"} /\ BlockOK(w2)
      BY <2>3 DEF BlockOK
    <3>7. w.cur.node.leaf \/ ~Lives(w.cur)
      <4>1. w.cur.is # "match"
        BY <1>2, <1>8 DEF Matches
      <4>2. w.pc = "innersplit" => w.cur.is # "under"
        BY <1>2, SplitsUnblocked
      <4> QED BY <1>1, <1>2, <1>3, <4>1, <4>2 DEF SnapOK, Lives
    <3>8. HalvesOK(table', w2)
      <4>1. HalvesOK(table', v)
        BY <3>3, <3>4 DEF ThreadOK
      <4>2. Lives(w2.par) /\ TooLarge(w2.par.node) => table'[SplitChild(w2.par.node)].type = "remove"
        BY <3>5, <4>1 DEF HalvesOK
      <4> QED BY <2>3, <3>7, <4>2 DEF HalvesOK
    <3> QED BY <3>3, <3>4, <3>5, <3>6, <3>8, GoOn
  <2>12. ThreadOK(table', retired', z, l, t, After(t))
    BY <2>11 DEF w2
  <2>13. /\ \A j \in Ids : table'[j].type = "abort" => table[j].type = "abort"
         /\ unused' = {j \in Ids : table'[j].type = "none"}
    BY <1>1, <1>4, <1>5, <2>4, <2>7
  <2>14. Free'
    <3>1. \A r \in retired' : r \in retired \/ r.until \subseteq Inside
      BY <2>1
    <3> QED BY <1>1, <2>2, <2>9, <2>13, <3>1, FreeKept
  <2>15. \A id \in Ids : Owns(t, id)' <=> Owns(t, id)
    BY <1>1, <2>2 DEF Owns
  <2>16. Struct(table', retired', z, l, root')
    BY <1>1, <2>6
  <2> QED BY <1>5, <2>6, <2>8, <2>9, <2>12, <2>13, <2>14, <2>15, <2>16, WriteStep
<1>9. CASE Matches(cur[t])
  <2>1. /\ table' = [table EXCEPT ![new] = sib, ![i] = m]
        /\ cur' = [Outdate(cur, i) EXCEPT ![t] = NoSnapshot]
        /\ par' = [Outdate(par, i) EXCEPT ![t] = NoSnapshot]
        /\ pc' = [pc EXCEPT ![t] = "root"] /\ removed' = [removed EXCEPT ![t] = <<>>]
        /\ go' = [go EXCEPT ![t] = Nil] /\ UNCHANGED retired
    BY <1>9 DEF SplitNode, To
  <2>2. /\ pc'[t] = "root" /\ cur'[t] = NoSnapshot /\ par'[t] = NoSnapshot /\ removed'[t] = <<>>
        /\ go'[t] = Nil /\ call'[t] = call[t]
    BY <1>1, <2>1 DEF InvOf, Shapes, Outdate
  <2>3. Outdates(t, i)
    <3>1. /\ cur' = [Outdate(cur, i) EXCEPT ![t] = cur'[t]]
          /\ par' = [Outdate(par, i) EXCEPT ![t] = par'[t]]
      BY <2>1, <2>2
    <3>2. /\ pc' = [pc EXCEPT ![t] = pc'[t]] /\ removed' = [removed EXCEPT ![t] = removed'[t]]
          /\ go' = [go EXCEPT ![t] = go'[t]] /\ call' = [call EXCEPT ![t] = call'[t]]
      BY <1>1, <2>1, <2>2 DEF InvOf, Shapes
    <3> QED BY <3>1, <3>2, Outdating
  <2>4. w.cur.is = "match" /\ i = w.cur.id
    BY <1>2, <1>9 DEF Matches
  <2>5. /\ Lives(w.cur) /\ i \in Ids /\ table[i] = w.cur.node /\ N(table, i) = w.cur.node
        /\ InC(table, retired, z, i) /\ InT(table, retired, i) /\ Whole(w.cur.node)
        /\ table[i].type \notin {"remove", "abort", "none"}
        /\ (w.pc # "merge" => \A j \in Ids : z[j] # i)
        /\ (w.pc # "split" /\ w.cur.node.next # Nil => Sepd(table, retired, z, l, w.cur.node.next))
    BY <1>2, <2>4, CurMatch
  <2>6. w.pc # "merge" /\ w.pc # "split"
    BY <1>1, <1>2
  <2>7. call[t].op \in {"insert", "delete", "get"} /\ call[t].key \in Keys
    BY <1>1, <1>2 DEF Placed
  <2>8. ThreadOK(table', retired', z, [l EXCEPT ![new] = l[i]], t, After(t))
    BY <2>2, <2>7, ViewFields, Restarted
  <2> DEFINE l2 == [l EXCEPT ![new] = l[i]]
             k == SplitKey(n)
  <2>9. ThreadOK(table', retired', z, l2, t, After(t)) /\ l2 = [l EXCEPT ![new] = l[i]] /\ k = SplitKey(n)
    BY <2>8
  <2> HIDE DEF w, w2, i, n, new, sib, m, kept, l2, k
  <2>10. /\ Whole(sib) /\ sib.type = "base" /\ sib.leaf = n.leaf /\ sib.low = k
         /\ sib.high = n.high /\ sib.next = n.next /\ sib.items = Moved(n)
    BY <1>3, <1>6, <2>9, SiblingWhole
  <2>11. /\ Whole(m) /\ m.type = "split" /\ m.leaf = n.leaf /\ m.low = n.low
         /\ m.high = k /\ m.next = new /\ m.items = kept
    <3>1. Whole(n) /\ TooLarge(n) /\ new \in Ids /\ m = Split(n, SplitKey(n), new, kept) /\ kept = n.items \ Moved(n)
      BY <1>3, <1>5, <1>6
    <3>2. /\ Whole(m) /\ m.type = "split" /\ m.leaf = n.leaf /\ m.low = n.low
          /\ m.high = SplitKey(n) /\ m.next = new /\ m.items = kept
          /\ m.smo = <<SplitKey(n), new>>
      BY <3>1, SplitWhole
    <3> QED BY <2>9, <3>2
  <2>12. /\ k \in Nat /\ n.low < k /\ k < n.high /\ Moved(n) \subseteq n.items
    BY <1>3, <2>9, Halves
  <2>13. ~n.leaf => LowChild(sib) = SplitChild(n)
    BY <1>3, <1>6, SplitChildIs
  <2>14. ~n.leaf => table[LowChild(sib)].type # "remove"
    BY <1>1, <1>2, <1>3, <2>5, <2>13 DEF HalvesOK
  <2>15. Live(sib) = sib /\ Live(m) = m
    BY <2>10, <2>11 DEF Live
  <2>16. N(table, i) = n /\ m.items \cup sib.items = n.items
    BY <1>3, <1>6, <2>5, <2>10, <2>11, <2>12
  <2>17. SplitWrite(table, retired, z, l, i, new, k, m, sib, table', l2)
    BY <1>3, <1>5, <2>1, <2>5, <2>6, <2>9, <2>10, <2>11, <2>12, <2>14, <2>15, <2>16 DEF SplitWrite
  <2>18. Struct(table', retired, z, l2, root) /\ \A u : Evolve(table, retired, z, l, table', retired, z, l2, u)
    BY <1>2, <2>17, SplitStep, SplitEvolve
  <2>19. /\ i # new /\ table'[i] = m /\ table'[new] = sib
         /\ \A j \in Ids : j # i /\ j # new => table'[j] = table[j]
    <3>1. /\ i \in Ids /\ new \in Ids /\ i # new
          /\ table'[i] = m /\ N(table', i) = m /\ table'[new] = sib /\ N(table', new) = sib
          /\ \A j \in Ids : j # i /\ j # new => table'[j] = table[j] /\ N(table', j) = N(table, j)
      BY <1>2, <2>17, SplitFrame
    <3> QED BY <3>1
  <2>20. /\ \A j \in Ids : table'[j].type = "abort" => table[j].type = "abort"
         /\ \A j \in Ids : table'[j].type = "remove" => table[j].type = "remove"
         /\ unused' = {j \in Ids : table'[j].type = "none"}
    BY <1>1, <1>4, <1>5, <2>5, <2>10, <2>11, <2>19
  <2>21. \A v : WriteOK(table, retired, z, l, table', retired, z, i, v)
    <3>1. table[i].type = "split" => Sepd(table, retired, z, l, table[i].next)
      BY <2>5, <2>6 DEF Whole
    <3>2. \A j \in Ids : j # i /\ table[j].type # "none" => table'[j] = table[j]
      BY <1>5, <2>19
    <3> QED BY <2>5, <2>20, <3>1, <3>2, PlainWrite
  <2>22. Free'
    BY <1>1, <2>1, <2>2, <2>3, <2>20, FreeKept
  <2>23. \A id \in Ids : Owns(t, id)' <=> Owns(t, id)
    BY <1>1, <2>2 DEF Owns
  <2>24. Struct(table', retired', z, l2, root') /\ ThreadOK(table', retired', z, l2, t, After(t))
    BY <1>1, <2>1, <2>9, <2>18
  <2>25. \A u \in Threads \ {t} :
            /\ WriteOK(table, retired, z, l, table', retired', z, i, View(u))
            /\ pc[u] # "out" => Evolve(table, retired, z, l, table', retired', z, l2, u)
    BY <2>1, <2>18, <2>21
  <2> QED BY <2>3, <2>5, <2>20, <2>22, <2>23, <2>24, <2>25, WriteStep
<1> QED BY <1>8, <1>9

(* An abort record over a parent, and its removal: what the table says of   *)
(* the node does not change, only what a snapshot of it matches.            *)
Respell(s, p, from, to) ==
  IF s.id = p /\ s.is = from THEN [s EXCEPT !.is = to] ELSE s
RespellView(w, p, from, to) ==
  [pc |-> w.pc, cur |-> Respell(w.cur, p, from, to), par |-> Respell(w.par, p, from, to),
   removed |-> w.removed, go |-> w.go, call |-> w.call]

Covering(T, p, m, from, to) ==
  \/ from = "match" /\ to = "under" /\ T[p].type # "abort" /\ m = Cover(N(T, p), "abort")
  \/ from = "under" /\ to = "match" /\ T[p].type = "abort" /\ m = N(T, p)

(* The snapshots of one node that are not stale agree.                      *)
LEMMA LiveSnap ==
  ASSUME NEW T, NEW R, NEW z, NEW l, NEW top, Struct(T, R, z, l, top),
         NEW u, NEW v, ThreadOK(T, R, z, l, u, v), NEW p \in Ids, T[p].type \notin {"remove", "none"}
  PROVE  /\ v.cur.id = p /\ Lives(v.cur) =>
              v.cur.node = N(T, p) /\ (v.cur.is = "under" <=> T[p].type = "abort")
         /\ v.par.id = p /\ Lives(v.par) =>
              v.par.node = N(T, p) /\ (v.par.is = "under" <=> T[p].type = "abort")
<1>1. SnapOK(T, v.cur) /\ SnapOK(T, v.par)
  BY DEF ThreadOK
<1>2. CASE ~Walks(v)
  BY <1>2, IdsNotNil DEF ThreadOK, Placed, NoSnapshot, Lives
<1>3. CASE Walks(v)
  <2>1. ASSUME NEW s, SnapOK(T, s), Lives(s), s.id = p, N(T, p) = s.node, Whole(s.node)
        PROVE  s.is = "under" <=> T[p].type = "abort"
    <3>1. s.node.type # "abort"
      BY <2>1, PlainTypes DEF Whole
    <3>2. s.is = "match" => T[p] = s.node
      BY <2>1 DEF SnapOK, Lives
    <3>3. s.is = "under" => T[p] = Cover(s.node, "abort")
      BY <2>1 DEF SnapOK, Lives
    <3>4. Cover(s.node, "abort").type = "abort"
      BY <2>1, CoverFields
    <3> QED BY <2>1, <3>1, <3>2, <3>3, <3>4 DEF SnapOK, Lives
  <2>2. ASSUME v.cur.id = p, Lives(v.cur)
        PROVE  v.cur.node = N(T, p) /\ (v.cur.is = "under" <=> T[p].type = "abort")
    <3>1. /\ v.cur.id \in Ids /\ T[v.cur.id].type # "none" /\ N(T, v.cur.id) = Live(v.cur.node)
          /\ v.cur.node.type # "remove" =>
               /\ InC(T, R, z, v.cur.id) /\ InT(T, R, v.cur.id) /\ N(T, v.cur.id) = v.cur.node
               /\ Whole(v.cur.node) /\ T[v.cur.id].type # "remove"
      BY <1>3, <2>2, CurCurrent
    <3>2. v.cur.node.type # "remove"
      BY <1>3, <2>2 DEF ThreadOK, CurOK
    <3>3. N(T, p) = v.cur.node /\ Whole(v.cur.node)
      BY <2>2, <3>1, <3>2
    <3> QED BY <1>1, <2>1, <2>2, <3>3
  <2>3. ASSUME v.par.id = p, Lives(v.par)
        PROVE  v.par.node = N(T, p) /\ (v.par.is = "under" <=> T[p].type = "abort")
    <3>1. /\ v.par.id \in Ids /\ InC(T, R, z, v.par.id) /\ InT(T, R, v.par.id)
          /\ N(T, v.par.id) = v.par.node /\ T[v.par.id].type # "remove"
          /\ Whole(v.par.node) /\ ~v.par.node.leaf /\ InnerOK(v.par.node)
          /\ v.cur.id # Nil /\ l[v.cur.id] + 1 = l[v.par.id]
          /\ <<v.cur.node.low, v.cur.id>> \in v.par.node.items
      BY <1>3, <2>3, ParCurrent
    <3>2. N(T, p) = v.par.node /\ Whole(v.par.node)
      BY <2>3, <3>1
    <3> QED BY <1>1, <2>1, <2>3, <3>2
  <2> QED BY <2>2, <2>3
<1> QED BY <1>2, <1>3

(* A snapshot of a node below an abort record is one of the node, and the   *)
(* other way round.                                                         *)
LEMMA RespelledSnap ==
  ASSUME NEW T, NEW T2, NEW p \in Ids, NEW m, NEW from, NEW to, Covering(T, p, m, from, to),
         T2[p] = m, \A j \in Ids : j # p => T2[j] = T[j],
         NEW s, SnapOK(T, s),
         s.id = p /\ Lives(s) => s.node = N(T, p) /\ (s.is = "under" <=> T[p].type = "abort"),
         NEW s2, s2 = Respell(s, p, from, to)
  PROVE  /\ SnapOK(T2, s2) /\ Weaker(s, s2) /\ (Lives(s) => Lives(s2))
         /\ s2.id = s.id
         /\ s.id # p \/ s.is # from => s2 = s
         /\ s.id = p /\ s.is = from => s2.is = to
<1>1. p # Nil
  BY IdsNotNil
<1>2. CASE s.id = p /\ s.is = from
  <2>1. s2 = [id |-> s.id, node |-> s.node, is |-> to]
    BY <1>2 DEF SnapOK, Respell
  <2>2. Lives(s) /\ s.node = N(T, p)
    BY <1>1, <1>2 DEF Covering, Lives
  <2>3. to = "under" => T2[p] = Cover(s.node, "abort")
    BY <2>2 DEF Covering
  <2>4. to = "match" => T2[p] = s.node
    BY <2>2 DEF Covering
  <2>5. to \in {"under", "match"}
    BY DEF Covering
  <2>6. SnapOK(T2, s2)
    BY <1>2, <2>1, <2>3, <2>4, <2>5 DEF SnapOK
  <2>7. Weaker(s, s2) /\ Lives(s2) /\ s2.id = s.id /\ s2.is = to
    BY <1>1, <1>2, <2>1, <2>2, <2>5 DEF Weaker, Lives
  <2> QED BY <1>2, <2>6, <2>7
<1>3. CASE s.id # p \/ s.is # from
  <2>1. s2 = s
    BY <1>3 DEF Respell
  <2>2. s.id = p => s.is = "stale"
    BY <1>1, <1>3 DEF Covering, Lives, SnapOK
  <2>3. Lives(s) => T2[s.id] = T[s.id]
    BY <2>2 DEF Lives, SnapOK
  <2> QED BY <1>3, <2>1, <2>3, Kept
<1> QED BY <1>2, <1>3

(* What a thread relies on survives an abort record that another puts on a  *)
(* node or takes off.                                                       *)
LEMMA Respelling ==
  ASSUME NEW T, NEW R, NEW z, NEW l, NEW top, Struct(T, R, z, l, top),
         NEW u, NEW v, ThreadOK(T, R, z, l, u, v),
         NEW p, NEW m, NEW T2, InPlaceWrite(T, R, z, l, top, p, m, T2),
         NEW from, NEW to, Covering(T, p, m, from, to),
         v.pc \in {"postremove", "unblock"} /\ from = "under" => v.par.id # p,
         NEW v2, v2 = RespellView(v, p, from, to)
  PROVE  /\ ThreadOK(T2, R, z, l, u, v2)
         /\ v2.par.id = v.par.id
         /\ v.par.id = p /\ v.par.is = from => v2.par.is = to /\ v2.par.node = v.par.node
<1>1. /\ p \in Ids /\ T2[p] = m /\ T[p].type # "remove" /\ T[p].type # "none"
      /\ \A j \in Ids : j # p => T2[j] = T[j]
  <2>1. p \in Ids /\ T2[p] = m /\ \A j \in Ids : j # p => T2[j] = T[j] /\ N(T2, j) = N(T, j)
    BY InPlaceFrame
  <2> QED BY <2>1 DEF InPlaceWrite, InC, InT
<1>2. Struct(T2, R, z, l, top) /\ Evolve(T, R, z, l, T2, R, z, l, u)
  BY InPlace, InPlaceEvolve
<1>3. /\ v2.pc = v.pc /\ v2.removed = v.removed /\ v2.go = v.go /\ v2.call = v.call
      /\ v2.cur = Respell(v.cur, p, from, to) /\ v2.par = Respell(v.par, p, from, to)
  BY DEF RespellView
<1>4. /\ SnapOK(T, v.cur) /\ SnapOK(T, v.par)
      /\ v.cur.id = p /\ Lives(v.cur) =>
              v.cur.node = N(T, p) /\ (v.cur.is = "under" <=> T[p].type = "abort")
      /\ v.par.id = p /\ Lives(v.par) =>
              v.par.node = N(T, p) /\ (v.par.is = "under" <=> T[p].type = "abort")
  <2>1. SnapOK(T, v.cur) /\ SnapOK(T, v.par)
    BY DEF ThreadOK
  <2> QED BY <1>1, <2>1, LiveSnap
<1>5. /\ SnapOK(T2, v2.cur) /\ Weaker(v.cur, v2.cur) /\ (Lives(v.cur) => Lives(v2.cur))
  <2> DEFINE s == v.cur
  <2>1. SnapOK(T, s) /\ v2.cur = Respell(s, p, from, to)
        /\ (s.id = p /\ Lives(s) => s.node = N(T, p) /\ (s.is = "under" <=> T[p].type = "abort"))
    BY <1>3, <1>4
  <2> HIDE DEF s
  <2>2. SnapOK(T2, v2.cur) /\ Weaker(s, v2.cur) /\ (Lives(s) => Lives(v2.cur))
    BY <1>1, <2>1, RespelledSnap
  <2> QED BY <2>2 DEF s
<1>6. /\ SnapOK(T2, v2.par) /\ Weaker(v.par, v2.par) /\ (Lives(v.par) => Lives(v2.par))
      /\ v2.par.id = v.par.id
      /\ v.par.id # p \/ v.par.is # from => v2.par = v.par
      /\ v.par.id = p /\ v.par.is = from => v2.par.is = to
  <2> DEFINE s == v.par
  <2>1. SnapOK(T, s) /\ v2.par = Respell(s, p, from, to)
        /\ (s.id = p /\ Lives(s) => s.node = N(T, p) /\ (s.is = "under" <=> T[p].type = "abort"))
    BY <1>3, <1>4
  <2> DEFINE s2 == v2.par
  <2>2. s2 = Respell(s, p, from, to)
    BY <2>1
  <2> HIDE DEF s, s2
  <2>3. /\ SnapOK(T2, s2) /\ Weaker(s, s2) /\ (Lives(s) => Lives(s2))
        /\ s2.id = s.id
        /\ s.id # p \/ s.is # from => s2 = s
        /\ s.id = p /\ s.is = from => s2.is = to
    BY <1>1, <2>1, <2>2, RespelledSnap
  <2> QED BY <2>3 DEF s, s2
<1>7. v.pc \in {"postremove", "unblock"} => v2.par.is = "under"
  <2> SUFFICES ASSUME v.pc \in {"postremove", "unblock"} PROVE v2.par.is = "under"
    OBVIOUS
  <2>1. v.par.is = "under"
    BY DEF ThreadOK, Walks, BlockOK
  <2>2. v2.par = v.par
    BY <1>6, <2>1 DEF Covering
  <2> QED BY <2>1, <2>2
<1>8. \A j \in Ids : T2[j].type = "remove" => T[j].type = "remove"
  <2>1. m.type # "remove"
    <3>1. Whole(N(T, p))
      BY <1>1, Alloc DEF Struct
    <3>2. N(T, p).type # "remove"
      BY <3>1, PlainTypes DEF Whole
    <3>3. Cover(N(T, p), "abort").type = "abort"
      BY <3>1, CoverFields
    <3> QED BY <3>2, <3>3 DEF Covering
  <2> QED BY <1>1, <2>1
<1>9. \A i \in Ids : \/ z[i] = z[i] \/ z[i] = Nil
                     \/ /\ v2.cur.id = z[i] => ~Lives(v2.cur)
                        /\ v2.par.id = z[i] => ~Lives(v2.par)
  OBVIOUS
<1>10. \A i \in Ids : z[i] # Nil /\ z[i] = Nil /\ Lives(v2.par) =>
                          \A s \in v.par.node.items : s[2] # i
  OBVIOUS
<1>11. \A r \in R : \/ \E q \in R : q.id = r.id
                    \/ v.pc = "split" /\ Lives(v2.par) /\ v.cur.node.smo[1] < v.par.node.high
                            => r.id # v.cur.node.smo[2]
  OBVIOUS
<1>12. \A j \in Ids : T2[j].type = "remove" /\ T[j].type # "remove" /\ v.pc = "innersplit"
                          /\ Lives(v2.cur) => SplitChild(v.cur.node) # j
  BY <1>8
<1>13. Lives(v.cur) /\ ~Lives(v2.cur) /\ v.pc = "split" => Sepd(T, R, z, l, v.cur.node.next)
  BY <1>5
<1>14. ThreadOK(T2, R, z, l, u, v2)
  BY <1>2, <1>3, <1>5, <1>6, <1>7, <1>9, <1>10, <1>11, <1>12, <1>13, Bystander
<1> QED BY <1>6, <1>14 DEF Weaker

(* PostAbortOnParent keeps the invariant.                                   *)
LEMMA PostAbortStep ==
  ASSUME NEW z, NEW l, InvOf(z, l), NEW t \in Threads, PostAbortOnParent(t)
  PROVE  Inv'
<1> DEFINE w == View(t)
           w2 == After(t)
           p == par[t].id
           m == Cover(par[t].node, "abort")
<1>1. /\ pc[t] = "fit" /\ TooSmall(cur[t].node) /\ HasParent(t) /\ LowChild(par[t].node) # cur[t].id
      /\ UNCHANGED <<root, unused, retired, call>>
  BY DEF PostAbortOnParent, MustRemove, Removable
<1>2. /\ Walks(w)
      /\ w.pc = pc[t] /\ w.cur = cur[t] /\ w.par = par[t] /\ w.removed = removed[t]
      /\ w.go = go[t] /\ w.call = call[t]
      /\ Struct(table, retired, z, l, root) /\ ThreadOK(table, retired, z, l, t, w)
      /\ w.cur.node.type # "remove" /\ w.cur.id # Nil /\ Whole(w.cur.node)
      /\ SnapOK(table, w.cur)
  BY <1>1, AtWork
<1>3. p # Nil
  BY <1>1 DEF HasParent
<1>4. CASE ~Matches(par[t])
  <2>1. Retry(t) /\ UNCHANGED table
    BY <1>4 DEF PostAbortOnParent
  <2> QED BY <1>1, <2>1, RetryStep
<1>5. CASE Matches(par[t])
  <2>1. /\ table' = [table EXCEPT ![p] = m] /\ pc' = [pc EXCEPT ![t] = "postremove"]
        /\ UNCHANGED <<removed, go>>
        /\ cur' = [u \in Threads |-> Respell(cur[u], p, "match", "under")]
        /\ par' = [u \in Threads |-> Respell(par[u], p, "match", "under")]
    BY <1>5 DEF PostAbortOnParent, Write, To, Respell
  <2>2. /\ pc'[t] = "postremove" /\ Shapes'
        /\ \A u \in Threads \ {t} : pc'[u] = pc[u]
        /\ \A u \in Threads : /\ removed'[u] = removed[u] /\ go'[u] = go[u] /\ call'[u] = call[u]
                              /\ cur'[u] = Respell(cur[u], p, "match", "under")
                              /\ par'[u] = Respell(par[u], p, "match", "under")
    BY <1>1, <2>1 DEF InvOf, Shapes
  <2>3. w.par.is = "match" /\ p = w.par.id /\ m = Cover(w.par.node, "abort")
    BY <1>2, <1>5 DEF Matches
  <2>4. /\ Lives(w.par) /\ p \in Ids /\ table[p] = w.par.node /\ N(table, p) = w.par.node
        /\ InC(table, retired, z, p) /\ InT(table, retired, p) /\ Whole(w.par.node)
        /\ InnerOK(w.par.node) /\ ~w.par.node.leaf
        /\ table[p].type \notin {"remove", "abort", "none"}
        /\ w.cur.id # Nil /\ l[w.cur.id] + 1 = l[p]
        /\ <<w.cur.node.low, w.cur.id>> \in w.par.node.items
        /\ \A j \in Ids : z[j] # p
        /\ w.par.node.next # Nil => Sepd(table, retired, z, l, w.par.node.next)
    BY <1>2, <1>3, <2>3, ParMatch
  <2>5. w2 = [RespellView(w, p, "match", "under") EXCEPT !.pc = "postremove"]
    BY <1>2, <2>2 DEF After, RespellView
  <2> HIDE DEF w, w2, p, m
  <2>6. Entry(m) /\ m.type = "abort" /\ Live(m) = w.par.node
    BY <2>3, <2>4, CoverEntry, CoverFields
  <2>7. InPlaceWrite(table, retired, z, l, root, p, m, table')
    BY <2>1, <2>4, <2>6 DEF InPlaceWrite
  <2>8. Covering(table, p, m, "match", "under")
    BY <2>3, <2>4 DEF Covering
  <2>9. \A u \in Threads :
          LET v2 == RespellView(View(u), p, "match", "under")
          IN /\ ThreadOK(table', retired, z, l, u, v2) /\ v2.par.id = par[u].id
             /\ par[u].id = p /\ par[u].is = "match" => v2.par.is = "under" /\ v2.par.node = par[u].node
    <3> TAKE u \in Threads
    <3> DEFINE v == View(u)
               v2 == RespellView(v, p, "match", "under")
    <3>1. ThreadOK(table, retired, z, l, u, v) /\ v.par = par[u]
      BY ViewFields DEF InvOf
    <3>2. v2 = RespellView(v, p, "match", "under")
      OBVIOUS
    <3> HIDE DEF v, v2
    <3>3. /\ ThreadOK(table', retired, z, l, u, v2)
          /\ v2.par.id = v.par.id
          /\ v.par.id = p /\ v.par.is = "match" => v2.par.is = "under" /\ v2.par.node = v.par.node
      <4>1. "match" # "under"
        OBVIOUS
      <4> QED BY <1>2, <2>7, <2>8, <3>1, <3>2, <4>1, Respelling
    <3> QED BY <3>1, <3>3 DEF v, v2
  <2>10. ASSUME NEW u \in Threads \ {t} PROVE ThreadOK(table', retired', z, l, u, View(u)')
    <3>1. View(u)' = RespellView(View(u), p, "match", "under")
      BY <1>1, <2>2 DEF View, RespellView
    <3> QED BY <1>1, <2>9, <3>1
  <2>11. ThreadOK(table', retired', z, l, t, View(t)')
    <3> DEFINE v == RespellView(w, p, "match", "under")
    <3>1. /\ ThreadOK(table', retired, z, l, t, v) /\ v.par.id = p
          /\ v.par.is = "under" /\ v.par.node = w.par.node
      BY <1>2, <2>3, <2>9 DEF w
    <3>2. /\ v.pc = "fit" /\ v.cur = Respell(w.cur, p, "match", "under")
          /\ v.par = Respell(w.par, p, "match", "under")
      BY <1>1, <1>2 DEF RespellView
    <3>3. v.cur.id = w.cur.id /\ v.cur.node = w.cur.node
      <4>1. w.cur = [id |-> w.cur.id, node |-> w.cur.node, is |-> w.cur.is]
        BY <1>2 DEF SnapOK
      <4> QED BY <3>2, <4>1 DEF Respell
    <3>4. /\ w2.pc = "postremove" /\ w2.cur = v.cur /\ w2.par = v.par /\ w2.removed = v.removed
          /\ w2.go = v.go /\ w2.call = v.call
      BY <2>5 DEF RespellView
    <3> HIDE DEF v
    <3>5. Walks(v) /\ v.cur.id # Nil /\ v.cur.node.type # "remove" /\ v.pc # "split" /\ v.pc # "merge"
      BY <1>2, <3>2, <3>3 DEF Walks
    <3>6. HalvesOK(table', v)
      BY <3>1, <3>5 DEF ThreadOK
    <3>7. HalvesOK(table', w2)
      BY <3>4, <3>6 DEF HalvesOK
    <3>8. BlockOK(w2)
      <4>1. w2.par.id # Nil /\ w2.par.is = "under" /\ w2.par.node = w.par.node
        BY <1>3, <3>1, <3>4 DEF p
      <4>2. w2.cur.node.type = "base" /\ w2.cur.id = w.cur.id
        BY <1>1, <1>2, <3>3, <3>4 DEF TooSmall
      <4>3. LowChild(w.par.node) # w.cur.id
        BY <1>1, <1>2
      <4> QED BY <4>1, <4>2, <4>3 DEF BlockOK
    <3>9. ThreadOK(table', retired, z, l, t, w2)
      BY <3>1, <3>4, <3>5, <3>7, <3>8, GoOn
    <3> QED BY <1>1, <3>9, ViewFields DEF w2
  <2>12. ASSUME NEW u \in Threads \ {t}, NEW id \in Ids
         PROVE  Owns(u, id)' <=> Owns(u, id)
    <3>1. par'[u].id = par[u].id
      BY <2>2, <2>9 DEF RespellView, View
    <3> QED BY <2>2, <3>1 DEF Owns
  <2>13. \A id \in Ids : (Owns(t, id)' <=> id = p) /\ ~Owns(t, id)
    <3>1. par'[t].id = p
      BY <2>2, <2>9 DEF RespellView, View, p
    <3> QED BY <1>1, <2>2, <3>1 DEF Owns
  <2>14. ASSUME NEW u \in Threads \ {t} PROVE ~Owns(u, p)
    <3> SUFFICES ASSUME Owns(u, p) PROVE FALSE
      OBVIOUS
    <3> DEFINE v == View(u)
    <3>1. ThreadOK(table, retired, z, l, u, v) /\ v.par = par[u] /\ v.pc = pc[u]
      BY ViewFields DEF InvOf
    <3> HIDE DEF v
    <3>2. v.pc \in {"postremove", "unblock"} /\ v.par.id = p
      BY <3>1 DEF Owns
    <3>3. v.par.is = "under" /\ v.par.id # Nil
      BY <3>1, <3>2 DEF ThreadOK, Walks, BlockOK
    <3>4. Lives(v.par)
      BY <3>3 DEF Lives
    <3>5. v.par.node = N(table, p) /\ (v.par.is = "under" <=> table[p].type = "abort")
      BY <1>2, <2>4, <3>1, <3>2, <3>4, LiveSnap
    <3> QED BY <2>4, <3>3, <3>5
  <2>15. p \in Ids /\ table'[p] = m /\ \A j \in Ids : j # p => table'[j] = table[j]
    <3>1. p \in Ids /\ table'[p] = m /\ \A j \in Ids : j # p => table'[j] = table[j] /\ N(table', j) = N(table, j)
      BY <1>2, <2>7, InPlaceFrame
    <3> QED BY <3>1
  <2>16. Owners'
    <3>1. \A u, v \in Threads : \A id \in Ids : Owns(u, id)' /\ Owns(v, id)' => u = v
      <4>1. Owners
        BY DEF InvOf
      <4> QED BY <2>12, <2>13, <2>14, <4>1 DEF Owners
    <3>2. ASSUME NEW id \in Ids, table'[id].type = "abort" PROVE \E u \in Threads : Owns(u, id)'
      <4>1. CASE id = p
        BY <2>13, <4>1
      <4>2. CASE id # p
        <5>1. table[id].type = "abort"
          BY <2>15, <3>2, <4>2
        <5>2. PICK u \in Threads : Owns(u, id)
          BY <5>1 DEF InvOf, Owners
        <5>3. u # t
          BY <2>13, <5>2
        <5> QED BY <2>12, <5>2, <5>3
      <4> QED BY <4>1, <4>2
    <3> QED BY <3>1, <3>2 DEF Owners
  <2>17. Free'
    <3>1. \A u \in Threads : (pc[u] # "out" => pc'[u] # "out")
      BY <2>2
    <3>2. Inside \subseteq Inside'
      BY <3>1 DEF Inside
    <3>3. \A j \in Ids : table'[j].type = "none" <=> table[j].type = "none"
      BY <2>4, <2>6, <2>15
    <3> QED BY <1>1, <3>2, <3>3 DEF InvOf, Free
  <2>18. Struct(table', retired', z, l, root')
    BY <1>1, <1>2, <2>7, InPlace
  <2> QED BY <2>2, <2>10, <2>11, <2>16, <2>17, <2>18, Conclude
<1> QED BY <1>4, <1>5

(* RemoveAbortOnParent keeps the invariant.                                 *)
LEMMA RemoveAbortStep ==
  ASSUME NEW z, NEW l, InvOf(z, l), NEW t \in Threads, RemoveAbortOnParent(t)
  PROVE  Inv'
<1> DEFINE w == View(t)
           p == par[t].id
           m == table[par[t].id].under[1]
<1>1. /\ pc[t] = "unblock" /\ UNCHANGED <<root, unused, retired, call>>
      /\ table' = [table EXCEPT ![p] = m] /\ pc' = [pc EXCEPT ![t] = "root"]
      /\ removed' = [removed EXCEPT ![t] = <<>>] /\ go' = [go EXCEPT ![t] = Nil]
      /\ cur' = [[u \in Threads |-> Respell(cur[u], p, "under", "match")] EXCEPT ![t] = NoSnapshot]
      /\ par' = [[u \in Threads |-> Respell(par[u], p, "under", "match")] EXCEPT ![t] = NoSnapshot]
  BY DEF RemoveAbortOnParent, Write, To, Respell
<1>2. /\ Walks(w)
      /\ w.pc = pc[t] /\ w.cur = cur[t] /\ w.par = par[t] /\ w.call = call[t]
      /\ Struct(table, retired, z, l, root) /\ ThreadOK(table, retired, z, l, t, w)
      /\ BlockOK(w) /\ Placed(w) /\ SnapOK(table, w.par)
  BY <1>1, AtWork
<1>3. /\ pc'[t] = "root" /\ cur'[t] = NoSnapshot /\ par'[t] = NoSnapshot /\ removed'[t] = <<>>
      /\ go'[t] = Nil /\ call'[t] = call[t] /\ Shapes'
      /\ \A u \in Threads \ {t} :
           /\ pc'[u] = pc[u] /\ removed'[u] = removed[u] /\ go'[u] = go[u] /\ call'[u] = call[u]
           /\ cur'[u] = Respell(cur[u], p, "under", "match")
           /\ par'[u] = Respell(par[u], p, "under", "match")
  BY <1>1 DEF InvOf, Shapes
<1>4. w.par.id = p /\ p # Nil /\ w.par.is = "under" /\ Lives(w.par) /\ m = table[p].under[1]
  BY <1>1, <1>2 DEF BlockOK, Lives
<1>5. Owns(t, p)
  BY <1>1 DEF Owns
<1>6. call[t].op \in {"insert", "delete", "get"} /\ call[t].key \in Keys
  BY <1>1, <1>2 DEF Placed
<1> HIDE DEF w, p, m
<1>7. /\ w.par.id \in Ids /\ InC(table, retired, z, w.par.id) /\ InT(table, retired, w.par.id)
      /\ N(table, w.par.id) = w.par.node /\ table[w.par.id].type # "remove"
      /\ Whole(w.par.node) /\ ~w.par.node.leaf /\ InnerOK(w.par.node)
      /\ w.cur.id # Nil /\ l[w.cur.id] + 1 = l[w.par.id]
      /\ <<w.cur.node.low, w.cur.id>> \in w.par.node.items
  BY <1>2, <1>4, ParCurrent
<1>8. /\ p \in Ids /\ InC(table, retired, z, p) /\ N(table, p) = w.par.node /\ table[p].type # "remove"
      /\ Whole(w.par.node) /\ table[p] = Cover(w.par.node, "abort")
  BY <1>2, <1>4, <1>7 DEF SnapOK
<1>9. m = w.par.node /\ table[p].type = "abort"
  BY <1>4, <1>8, CoverFields
<1>10. m.type \notin {"remove", "abort", "none"} /\ Entry(m) /\ Live(m) = m
  BY <1>8, <1>9, PlainTypes DEF Whole, Entry, Live
<1>11. InPlaceWrite(table, retired, z, l, root, p, m, table')
  BY <1>1, <1>8, <1>9, <1>10 DEF InPlaceWrite
<1>12. Covering(table, p, m, "under", "match")
  BY <1>8, <1>9 DEF Covering
<1>13. Owners
  BY DEF InvOf
<1>14. ASSUME NEW u \in Threads \ {t}
       PROVE  /\ ThreadOK(table', retired', z, l, u, View(u)')
              /\ par'[u].id = par[u].id
  <2> DEFINE v == View(u)
             v2 == View(u)'
  <2>1. ThreadOK(table, retired, z, l, u, v) /\ v.par = par[u] /\ v.pc = pc[u]
    BY ViewFields DEF InvOf
  <2>2. v2 = RespellView(v, p, "under", "match")
    BY <1>3 DEF View, RespellView
  <2>3. v2.par = par'[u]
    BY ViewFields
  <2>4. ~Owns(u, p)
    BY <1>5, <1>8, <1>13 DEF Owners
  <2>5. v.pc \in {"postremove", "unblock"} => v.par.id # p
    BY <2>1, <2>4 DEF Owns
  <2> HIDE DEF v, v2
  <2>6. /\ ThreadOK(table', retired, z, l, u, v2)
        /\ v2.par.id = v.par.id
        /\ v.par.id = p /\ v.par.is = "under" => v2.par.is = "match" /\ v2.par.node = v.par.node
    BY <1>2, <1>11, <1>12, <2>1, <2>2, <2>5, Respelling
  <2> QED BY <1>1, <2>1, <2>3, <2>6 DEF v2
<1>15. ThreadOK(table', retired', z, l, t, View(t)')
  <2>1. ThreadOK(table', retired', z, l, t, After(t))
    BY <1>3, <1>6, ViewFields, Restarted
  <2> QED BY <2>1, ViewFields
<1>16. p \in Ids /\ table'[p] = m /\ \A j \in Ids : j # p => table'[j] = table[j]
  <2>1. p \in Ids /\ table'[p] = m /\ \A j \in Ids : j # p => table'[j] = table[j] /\ N(table', j) = N(table, j)
    BY <1>2, <1>11, InPlaceFrame
  <2> QED BY <2>1
<1>17. Owners'
  <2>1. \A u \in Threads \ {t} : \A id \in Ids : Owns(u, id)' <=> Owns(u, id)
    BY <1>3, <1>14 DEF Owns
  <2>2. \A id \in Ids : ~Owns(t, id)'
    BY <1>3 DEF Owns
  <2>3. \A id \in Ids : Owns(t, id) => id = p
    BY DEF Owns, p
  <2>4. ASSUME NEW id \in Ids, table'[id].type = "abort" PROVE \E u \in Threads : Owns(u, id)'
    <3>1. id # p /\ table[id].type = "abort"
      BY <1>10, <1>16, <2>4
    <3>2. PICK u \in Threads : Owns(u, id)
      BY <1>13, <3>1 DEF Owners
    <3>3. u # t
      BY <2>3, <3>1, <3>2
    <3> QED BY <2>1, <3>2, <3>3
  <2> QED BY <1>13, <2>1, <2>2, <2>4 DEF Owners
<1>18. Free'
  <2>1. Inside \subseteq Inside'
    BY <1>3 DEF Inside
  <2>2. \A j \in Ids : table'[j].type = "none" <=> table[j].type = "none"
    BY <1>9, <1>10, <1>16
  <2> QED BY <1>1, <2>1, <2>2 DEF InvOf, Free
<1>19. Struct(table', retired', z, l, root')
  BY <1>1, <1>2, <1>11, InPlace
<1> QED BY <1>3, <1>14, <1>15, <1>17, <1>18, <1>19, Conclude

(* The end of a call: what was retired no longer waits for the thread.      *)
LEMMA LeaveStep ==
  ASSUME NEW z, NEW l, InvOf(z, l), NEW t \in Threads, Leave(t),
         pc[t] \notin {"out", "postremove", "unblock"}, UNCHANGED <<root, unused>>,
         cur'[t] = NoSnapshot, par'[t] = NoSnapshot, Shapes',
         Struct(table', retired, z, l, root),
         \A u \in Threads \ {t} : ThreadOK(table', retired', z, l, u, View(u)') /\ par'[u] = par[u],
         \A j \in Ids : table'[j].type = "abort" => table[j].type = "abort",
         \A j \in Ids : table'[j].type = "none" <=> table[j].type = "none"
  PROVE  Inv'
<1>1. /\ pc'[t] = "out" /\ \A u \in Threads \ {t} : pc'[u] = pc[u]
      /\ removed'[t] = <<>> /\ go'[t] = Nil
      /\ call'[t].op = "none" /\ retired' = Without(retired, t)
  BY DEF Leave, To, Idle, Without, InvOf, Shapes
<1>2. ThreadOK(table', retired', z, l, t, View(t)')
  <2>1. ThreadOK(table', retired', z, l, t, After(t))
    BY <1>1, ViewFields, Restarted
  <2> QED BY <2>1, ViewFields
<1>3. Struct(table', retired', z, l, root')
  <2>1. Struct(table', Without(retired, t), z, l, root)
    BY WithoutStep
  <2> QED BY <1>1, <2>1
<1>4. \A u \in Threads : ThreadOK(table', retired', z, l, u, View(u)')
  BY <1>2
<1>5. Owners'
  <2>1. \A u \in Threads : \A id \in Ids : Owns(u, id)' <=> Owns(u, id)
    BY <1>1 DEF Owns
  <2> QED BY <2>1, OwnersKept DEF InvOf
<1>6. Free'
  <2>1. \A u \in Threads \ {t} : u \in Inside => u \in Inside'
    BY <1>1 DEF Inside
  <2>2. \A r \in retired : r.until \subseteq Inside
    BY DEF InvOf, Free
  <2>3. RetiredOK(table', retired)
    BY DEF Struct
  <2>4. ASSUME NEW q \in retired' PROVE q.until \subseteq Inside'
    <3>1. PICK r \in retired : q.until = r.until \ {t}
      BY <1>1, <2>3, <2>4, WithoutFrame
    <3>2. r.until \subseteq Threads
      BY <2>2 DEF Inside
    <3> QED BY <2>1, <2>2, <3>1, <3>2
  <2>5. unused' = {j \in Ids : table'[j].type = "none"}
    BY DEF InvOf, Free
  <2> QED BY <2>4, <2>5 DEF Free
<1> QED BY <1>3, <1>4, <1>5, <1>6, Conclude

(* Answer keeps the invariant.                                              *)
LEMMA AnswerStep ==
  ASSUME NEW z, NEW l, InvOf(z, l), NEW t \in Threads, Answer(t)
  PROVE  Inv'
<1>1. /\ AtNode(t) /\ Leave(t) /\ cur' = [cur EXCEPT ![t] = NoSnapshot]
      /\ par' = [par EXCEPT ![t] = NoSnapshot] /\ UNCHANGED <<table, root, unused>>
  BY DEF Answer, AtLeaf, Navigating
<1>2. pc[t] \in {"fit", "ready"}
  BY <1>1 DEF AtNode
<1>3. /\ retired' = Without(retired, t) /\ cur'[t] = NoSnapshot /\ par'[t] = NoSnapshot /\ Shapes'
      /\ \A u \in Threads \ {t} : View(u)' = View(u) /\ par'[u] = par[u]
  BY <1>1 DEF Leave, To, Without, InvOf, Shapes, View
<1>4. Struct(table, retired, z, l, root) /\ RetiredOK(table, retired)
  BY DEF InvOf, Struct
<1>5. Struct(table, Without(retired, t), z, l, root)
  BY <1>4, WithoutStep
<1>6. \A r \in Without(retired, t) : \E q \in retired : q.id = r.id
  BY <1>4, WithoutFrame
<1>7. ASSUME NEW u \in Threads \ {t}
      PROVE  ThreadOK(table', retired', z, l, u, View(u)') /\ par'[u] = par[u]
  <2> DEFINE v == View(u)
  <2>1. ThreadOK(table, retired, z, l, u, v)
    BY DEF InvOf
  <2>2. Evolve(table, retired, z, l, table, Without(retired, t), z, l, u)
    BY <1>4, WithoutEvolve
  <2> HIDE DEF v
  <2>3. SnapOK(table, v.cur) /\ SnapOK(table, v.par) /\ Weaker(v.cur, v.cur) /\ Weaker(v.par, v.par)
    BY <2>1 DEF ThreadOK, Weaker
  <2>4. v.pc \in {"postremove", "unblock"} => v.par.is = "under"
    BY <2>1 DEF ThreadOK, BlockOK, Walks
  <2>5. \A i \in Ids : \/ z[i] = z[i] \/ z[i] = Nil
                       \/ /\ v.cur.id = z[i] => ~Lives(v.cur)
                          /\ v.par.id = z[i] => ~Lives(v.par)
    OBVIOUS
  <2>6. \A i \in Ids : z[i] # Nil /\ z[i] = Nil /\ Lives(v.par) =>
                          \A s \in v.par.node.items : s[2] # i
    OBVIOUS
  <2>7. \A r \in Without(retired, t) :
          \/ \E q \in retired : q.id = r.id
          \/ v.pc = "split" /\ Lives(v.par) /\ v.cur.node.smo[1] < v.par.node.high
                            => r.id # v.cur.node.smo[2]
    BY <1>6
  <2>8. \A j \in Ids : table[j].type = "remove" /\ table[j].type # "remove" /\ v.pc = "innersplit"
                          /\ Lives(v.cur) => SplitChild(v.cur.node) # j
    OBVIOUS
  <2>9. ThreadOK(table, Without(retired, t), z, l, u, v)
    BY <1>4, <1>5, <2>1, <2>2, <2>3, <2>4, <2>5, <2>6, <2>7, <2>8, Bystander
  <2> QED BY <1>1, <1>3, <2>9 DEF v
<1>8. Struct(table', retired, z, l, root)
  BY <1>1, <1>4
<1> QED BY <1>1, <1>2, <1>3, <1>7, <1>8, LeaveStep

(* A leaf is no parent.                                                     *)
LEMMA LeafNoParent ==
  ASSUME NEW T, NEW R, NEW z, NEW l, NEW top, Struct(T, R, z, l, top),
         NEW u, NEW v, ThreadOK(T, R, z, l, u, v), NEW i \in Ids, InT(T, R, i), N(T, i).leaf
  PROVE  v.par.id # i
<1>1. l[i] = 0 /\ i # Nil
  BY IdsNotNil DEF Struct, Levels
<1>2. CASE ~Walks(v)
  BY <1>1, <1>2 DEF ThreadOK, Placed, NoSnapshot
<1>3. CASE Walks(v)
  BY <1>1, <1>3 DEF ThreadOK, ParOK, NodeRefs
<1> QED BY <1>2, <1>3

(* PostData keeps the invariant.                                            *)
LEMMA PostDataStep ==
  ASSUME NEW z, NEW l, InvOf(z, l), NEW t \in Threads, PostData(t)
  PROVE  Inv'
<1> DEFINE w == View(t)
           i == cur[t].id
           n == cur[t].node
           k == call[t].key
           items == IF Found(t) THEN cur[t].node.items \ {call[t].key}
                    ELSE cur[t].node.items \cup {call[t].key}
           m == Data(cur[t].node, items)
<1>1. /\ AtNode(t) /\ ~Beyond(t) /\ n.leaf /\ call[t].op # "get" /\ UNCHANGED <<root, unused>>
  BY DEF PostData, AtLeaf, Navigating
<1>2. /\ w.pc \in {"fit", "ready"} /\ Walks(w)
      /\ w.pc = pc[t] /\ w.cur = cur[t] /\ w.par = par[t] /\ w.removed = removed[t]
      /\ w.go = go[t] /\ w.call = call[t]
      /\ Struct(table, retired, z, l, root) /\ ThreadOK(table, retired, z, l, t, w)
      /\ w.cur.node.type # "remove" /\ Whole(w.cur.node)
      /\ (~Gets(w) => w.cur.id # Nil)
      /\ w.cur.node.low <= w.call.key /\ w.call.key \in Keys /\ w.call.key \in Nat
      /\ w.call.op \in {"insert", "delete", "get"}
  BY <1>1, At
<1>3. CASE ~Matches(cur[t])
  <2>1. Retry(t) /\ UNCHANGED <<table, retired, call>>
    BY <1>3 DEF PostData
  <2> QED BY <1>1, <1>2, <2>1, RetryStep
<1>4. CASE Matches(cur[t])
  <2>1. /\ table' = [table EXCEPT ![i] = m] /\ Leave(t)
        /\ cur' = [Outdate(cur, i) EXCEPT ![t] = NoSnapshot]
        /\ par' = [par EXCEPT ![t] = NoSnapshot]
    BY <1>4 DEF PostData, Write
  <2>2. w.cur.is = "match" /\ w.cur.id = i /\ i # Nil /\ w.cur.node = n
    BY <1>1, <1>2, <1>4 DEF Matches, Gets
  <2>3. /\ Lives(w.cur) /\ i \in Ids /\ table[i] = w.cur.node /\ N(table, i) = w.cur.node
        /\ InC(table, retired, z, i) /\ InT(table, retired, i) /\ Whole(w.cur.node)
        /\ table[i].type \notin {"remove", "abort", "none"}
        /\ (w.pc # "merge" => \A j \in Ids : z[j] # i)
        /\ (w.pc # "split" /\ w.cur.node.next # Nil => Sepd(table, retired, z, l, w.cur.node.next))
    BY <1>2, <2>2, CurMatch
  <2>4. w.pc # "merge" /\ w.pc # "split"
    BY <1>2
  <2>5. /\ retired' = Without(retired, t) /\ cur'[t] = NoSnapshot /\ par'[t] = NoSnapshot /\ Shapes'
        /\ \A u \in Threads \ {t} :
             /\ pc'[u] = pc[u] /\ removed'[u] = removed[u] /\ go'[u] = go[u] /\ call'[u] = call[u]
             /\ cur'[u] = OutSnap(cur[u], i) /\ par'[u] = par[u]
    BY <2>1 DEF Leave, To, Without, InvOf, Shapes, Outdate, OutSnap
  <2>6. n.low <= k /\ k < n.high /\ k \in Keys
    <3>1. n.next = Nil => n.high = Inf
      BY <1>2, <2>2 DEF Whole
    <3>2. k < Inf
      BY <1>2, SizeAssumption DEF Keys, Inf
    <3>3. n.high \in Nat /\ k \in Nat
      BY <1>2, <2>2 DEF Whole
    <3> QED BY <1>1, <1>2, <2>2, <3>1, <3>2, <3>3 DEF Beyond
  <2>7. \A x \in items : x \in n.items \/ x = k
    OBVIOUS
  <2>8. m = Data(n, items)
    OBVIOUS
  <2> HIDE DEF w, i, n, k, items, m
  <2>9. \A x \in items : x \in Keys /\ n.low <= x /\ x < n.high
    BY <1>1, <1>2, <2>2, <2>6, <2>7 DEF Whole
  <2>10. /\ Whole(m) /\ m.type = "delta" /\ m.leaf = n.leaf /\ m.low = n.low
         /\ m.high = n.high /\ m.next = n.next /\ m.items = items
    <3>1. Whole(n) /\ (n.leaf => \A x \in items : x \in Keys /\ n.low <= x /\ x < n.high)
      BY <1>2, <2>2, <2>9
    <3>2. ~n.leaf => /\ \A x \in items : /\ x = <<x[1], x[2]>> /\ x[1] \in Nat /\ x[2] \in Ids
                                         /\ n.low <= x[1] /\ x[1] < n.high
                     /\ \A x, y \in items : x[1] = y[1] => x = y
                     /\ \E x \in items : x[1] = n.low
      BY <1>1
    <3> QED BY <2>8, <3>1, <3>2, DataFields
  <2>11. Entry(m) /\ Live(m) = m
    BY <2>10 DEF Entry, Live, Plain
  <2>12. InPlaceWrite(table, retired, z, l, root, i, m, table')
    BY <1>1, <2>1, <2>2, <2>3, <2>4, <2>10, <2>11 DEF InPlaceWrite
  <2>13. /\ Struct(table', retired, z, l, root)
         /\ \A u : Evolve(table, retired, z, l, table', retired, z, l, u)
    BY <1>2, <2>12, InPlace, InPlaceEvolve
  <2>14. RetiredOK(table', retired)
    BY <2>13 DEF Struct
  <2>15. Struct(table', retired', z, l, root)
    <3>1. Struct(table', Without(retired, t), z, l, root)
      BY <2>13, WithoutStep
    <3> QED BY <2>5, <3>1
  <2>16. ASSUME NEW u \in Threads \ {t} PROVE Evolve(table, retired, z, l, table', retired', z, l, u)
    <3>1. Evolve(table', retired, z, l, table', Without(retired, t), z, l, u)
      BY <2>14, WithoutEvolve
    <3>2. Evolve(table, retired, z, l, table', retired, z, l, u)
      BY <2>13
    <3>3. Evolve(table, retired, z, l, table', Without(retired, t), z, l, u)
      BY <3>1, <3>2, EvolveTwice
    <3> QED BY <2>5, <3>3
  <2>17. /\ i \in Ids /\ table'[i] = m /\ \A j \in Ids : j # i => table'[j] = table[j]
    <3>1. i \in Ids /\ table'[i] = m /\ \A j \in Ids : j # i => table'[j] = table[j] /\ N(table', j) = N(table, j)
      BY <1>2, <2>12, InPlaceFrame
    <3> QED BY <3>1
  <2>18. /\ \A j \in Ids : table'[j].type = "abort" => table[j].type = "abort"
         /\ \A j \in Ids : table'[j].type = "remove" => table[j].type = "remove"
         /\ \A j \in Ids : table'[j].type = "none" <=> table[j].type = "none"
    BY <2>3, <2>10, <2>17
  <2>19. \A r \in retired' : \E q \in retired : q.id = r.id
    BY <2>5, <2>14, WithoutFrame
  <2>20. ASSUME NEW u \in Threads \ {t}
         PROVE  ThreadOK(table', retired', z, l, u, View(u)') /\ par'[u] = par[u]
    <3> DEFINE v == View(u)
    <3>1. ThreadOK(table, retired, z, l, u, v) /\ v.par = par[u]
      BY ViewFields DEF InvOf
    <3> HIDE DEF v
    <3>2. v.par.id # i
      BY <1>1, <1>2, <2>2, <2>3, <3>1, LeafNoParent
    <3>3. OutSnap(par[u], i) = par[u]
      BY <3>1, <3>2 DEF OutSnap
    <3>4. View(u)' = OutView(v, i)
      BY <2>5, <3>3 DEF View, OutView, v
    <3>5. WriteOK(table, retired, z, l, table', retired', z, i, v)
      <4>1. table[i].type = "split" => Sepd(table, retired, z, l, table[i].next)
        BY <2>3, <2>4 DEF Whole
      <4>2. \A j \in Ids : j # i /\ table[j].type # "none" => table'[j] = table[j]
        BY <2>17
      <4> QED BY <2>3, <2>18, <2>19, <4>1, <4>2 DEF WriteOK
    <3>6. Evolve(table, retired, z, l, table', retired', z, l, u)
      BY <2>16
    <3>7. ThreadOK(table', retired', z, l, u, OutView(v, i))
      BY <1>2, <2>15, <3>1, <3>5, <3>6, Others
    <3> QED BY <2>5, <3>4, <3>7
  <2>21. Struct(table', retired, z, l, root) /\ pc[t] \notin {"out", "postremove", "unblock"}
    BY <1>2, <2>13
  <2>22. Leave(t) /\ cur'[t] = NoSnapshot /\ par'[t] = NoSnapshot /\ Shapes'
    BY <2>1, <2>5
  <2>23. \A u \in Threads \ {t} : ThreadOK(table', retired', z, l, u, View(u)') /\ par'[u] = par[u]
    BY <2>20
  <2> QED BY <1>1, <2>18, <2>21, <2>22, <2>23, LeaveStep
<1> QED BY <1>3, <1>4

(* The cleaner: a NodeID that waits for nobody is in nobody's hands.        *)
LEMMA InvalidateStep ==
  ASSUME NEW z, NEW l, InvOf(z, l), InvalidateNodeID
  PROVE  Inv'
<1>1. PICK r \in retired : r.until = {} /\ retired' = retired \ {r} /\ Write(r.id, None)
                           /\ unused' = unused \cup {r.id} /\ UNCHANGED <<root, threadVars, call>>
  BY DEF InvalidateNodeID
<1>2. /\ table' = [table EXCEPT ![r.id] = None]
      /\ UNCHANGED <<root, pc, cur, par, removed, go, call>>
  BY <1>1 DEF Write, threadVars
<1>3. Struct(table, retired, z, l, root)
  BY DEF InvOf
<1>4. FreedWrite(table, retired, r, table', retired')
  BY <1>1, <1>2 DEF FreedWrite
<1>5. Struct(table', retired', z, l, root) /\ \A u : Evolve(table, retired, z, l, table', retired', z, l, u)
  BY <1>3, <1>4, FreedStep, FreedEvolve
<1>6. /\ r.id \in Ids /\ table[r.id].type # "none" /\ table'[r.id] = None
      /\ \A j \in Ids : j # r.id => table'[j] = table[j]
      /\ \A q \in retired' : q \in retired
  <2>1. /\ r.id \in Ids /\ table[r.id].type # "none" /\ z[r.id] = Nil /\ table'[r.id] = None
        /\ \A j \in Ids : j # r.id => table'[j] = table[j] /\ N(table', j) = N(table, j)
        /\ Entries(table')
        /\ \A q \in retired : r.id = q.id => r = q
        /\ \A q \in retired' : q \in retired /\ q.id # r.id
    BY <1>3, <1>4, FreedFrame
  <2> QED BY <2>1
<1>7. None.type = "none"
  BY DEF None, Node
<1>8. \A u : ~Guarded(table, retired, u, r.id)
  BY <1>1 DEF Guarded
<1>9. ASSUME NEW u \in Threads PROVE ThreadOK(table', retired', z, l, u, View(u)')
  <2> DEFINE v == View(u)
  <2>1. ThreadOK(table, retired, z, l, u, v) /\ View(u)' = v
    BY <1>2 DEF InvOf, View
  <2> HIDE DEF v
  <2>2. SnapOK(table, v.cur) /\ SnapOK(table, v.par)
    BY <2>1 DEF ThreadOK
  <2>3. /\ Lives(v.cur) => table'[v.cur.id] = table[v.cur.id]
        /\ Lives(v.par) => table'[v.par.id] = table[v.par.id]
    <3>1. /\ Lives(v.cur) => Guarded(table, retired, u, v.cur.id)
          /\ Lives(v.par) => Guarded(table, retired, u, v.par.id)
      BY <1>6, <2>1, InUse
    <3> QED BY <1>6, <1>8, <3>1 DEF Guarded
  <2>4. SnapOK(table', v.cur) /\ SnapOK(table', v.par) /\ Weaker(v.cur, v.cur) /\ Weaker(v.par, v.par)
    BY <2>2, <2>3, Kept
  <2>5. v.pc \in {"postremove", "unblock"} => v.par.is = "under"
    BY <2>1 DEF ThreadOK, BlockOK, Walks
  <2>6. \A i \in Ids : \/ z[i] = z[i] \/ z[i] = Nil
                       \/ /\ v.cur.id = z[i] => ~Lives(v.cur)
                          /\ v.par.id = z[i] => ~Lives(v.par)
    OBVIOUS
  <2>7. \A i \in Ids : z[i] # Nil /\ z[i] = Nil /\ Lives(v.par) =>
                          \A s \in v.par.node.items : s[2] # i
    OBVIOUS
  <2>8. \A x \in retired' :
          \/ \E q \in retired : q.id = x.id
          \/ v.pc = "split" /\ Lives(v.par) /\ v.cur.node.smo[1] < v.par.node.high
                            => x.id # v.cur.node.smo[2]
    BY <1>6
  <2>9. \A j \in Ids : table'[j].type = "remove" /\ table[j].type # "remove" /\ v.pc = "innersplit"
                          /\ Lives(v.cur) => SplitChild(v.cur.node) # j
    BY <1>6, <1>7
  <2>10. Evolve(table, retired, z, l, table', retired', z, l, u)
    BY <1>5
  <2>11. ThreadOK(table', retired', z, l, u, v)
    BY <1>3, <1>5, <2>1, <2>4, <2>5, <2>6, <2>7, <2>8, <2>9, <2>10, Bystander
  <2> QED BY <2>1, <2>11
<1>10. Owners'
  <2>1. \A u \in Threads : \A id \in Ids : Owns(u, id)' <=> Owns(u, id)
    BY <1>2 DEF Owns
  <2>2. \A id \in Ids : table'[id].type = "abort" => table[id].type = "abort"
    BY <1>6, <1>7
  <2> QED BY <2>1, <2>2, OwnersKept DEF InvOf
<1>11. Free'
  <2>1. Inside' = Inside
    BY <1>2 DEF Inside
  <2>2. unused' = {j \in Ids : table'[j].type = "none"}
    <3>1. unused = {j \in Ids : table[j].type = "none"}
      BY DEF InvOf, Free
    <3> QED BY <1>1, <1>6, <1>7, <3>1
  <2> QED BY <1>6, <2>1, <2>2 DEF InvOf, Free
<1>12. Shapes'
  BY <1>2 DEF InvOf, Shapes
<1>13. Struct(table', retired', z, l, root')
  BY <1>2, <1>5
<1> QED BY <1>9, <1>10, <1>11, <1>12, <1>13, Conclude
-----------------------------------------------------------------------------
(* The trees to begin with *)

(* A sequence that rises from one to the next rises throughout.             *)
LEMMA Rising ==
  ASSUME NEW n \in Nat, NEW f \in [1 .. n -> Nat],
         \A i \in 1 .. n : i + 1 \in 1 .. n => f[i] < f[i + 1]
  PROVE  \A i, j \in 1 .. n : i < j => f[i] < f[j]
<1> SUFFICES ASSUME NEW i \in 1 .. n, NEW k \in 1 .. n, i < k, ~(f[i] < f[k]) PROVE FALSE
  OBVIOUS
<1> DEFINE S == {j \in 1 .. n : i < j /\ ~(f[i] < f[j])}
<1>1. S \in SUBSET Nat /\ S # {}
  <2>1. k \in S
    OBVIOUS
  <2>2. S \subseteq 1 .. n
    OBVIOUS
  <2>3. 1 .. n \subseteq Nat
    OBVIOUS
  <2> QED BY <2>1, <2>2, <2>3
<1>2. PICK j \in S : \A y \in S : j <= y
  BY <1>1, LeastOf
<1>3. j \in 1 .. n /\ i < j /\ ~(f[i] < f[j])
  OBVIOUS
<1>4. (j - 1) \in 1 .. n /\ i <= j - 1 /\ (j - 1) \notin S /\ (j - 1) + 1 = j
  BY <1>2, <1>3
<1>5. f[j - 1] < f[j]
  BY <1>3, <1>4
<1>6. i = j - 1 \/ f[i] < f[j - 1]
  BY <1>3, <1>4
<1>7. f[i] \in Nat /\ f[j] \in Nat /\ f[j - 1] \in Nat
  BY <1>3, <1>4
<1> QED BY <1>3, <1>5, <1>6, <1>7

(* A tree as Init lays it out: P leaves from NodeID 2 on, Q parents, and a  *)
(* root above these if they are several; low has the leaves' low keys, and  *)
(* first the first leaf of each parent.                                     *)
InId(P, j) == IF j = 1 THEN 1 ELSE P + j
Grown(T, P, Q, low, first) ==
  /\ P \in Nat /\ Q \in Nat /\ 1 <= P /\ 1 <= Q /\ P + Q <= NumIds
  /\ Q # 1 => P + Q + 1 <= NumIds
  /\ low \in [1 .. P + 1 -> Nat] /\ low[1] = 0 /\ low[P + 1] = Inf
  /\ \A i, j \in 1 .. P + 1 : i < j => low[i] < low[j]
  /\ first \in [1 .. Q + 1 -> 1 .. P + 1] /\ first[1] = 1 /\ first[Q + 1] = P + 1
  /\ \A i, j \in 1 .. Q + 1 : i < j => first[i] < first[j]
  /\ T = [id \in Ids |-> T[id]]
  /\ \A i \in 1 .. P :
       /\ IsNode(T[i + 1]) /\ T[i + 1].leaf \in BOOLEAN /\ T[i + 1].leaf /\ T[i + 1].type = "base"
       /\ T[i + 1].low = low[i] /\ T[i + 1].high = low[i + 1]
       /\ T[i + 1].next = IF i = P THEN Nil ELSE i + 2
       /\ \A k \in T[i + 1].items : k \in Keys /\ low[i] <= k /\ k < low[i + 1]
  /\ \A j \in 1 .. Q :
       LET n == T[InId(P, j)]
       IN /\ IsNode(n) /\ n.leaf \in BOOLEAN /\ ~n.leaf /\ n.type \in {"base", "delta"}
          /\ n.low = low[first[j]] /\ n.high = low[first[j + 1]]
          /\ n.next = IF j = Q THEN Nil ELSE InId(P, j + 1)
          /\ n.items = {<<low[i], i + 1>> : i \in first[j] .. first[j + 1] - 1}
  /\ Q # 1 =>
       LET n == T[P + Q + 1]
       IN /\ IsNode(n) /\ n.leaf \in BOOLEAN /\ ~n.leaf /\ n.type = "base"
          /\ n.low = 0 /\ n.high = Inf /\ n.next = Nil
          /\ n.items = {<<low[first[j]], InId(P, j)>> : j \in 1 .. Q}
  /\ \A id \in Ids :
       \/ \E i \in 1 .. P : id = i + 1
       \/ \E j \in 1 .. Q : id = InId(P, j)
       \/ Q # 1 /\ id = P + Q + 1
       \/ T[id] = None

(* A tree laid out that way has the shape of a tree.                        *)
LEMMA GrownStruct ==
  ASSUME NEW T, NEW P, NEW Q, NEW low, NEW first, Grown(T, P, Q, low, first),
         NEW z, z = [i \in Ids |-> Nil], NEW top, top = IF Q = 1 THEN 1 ELSE P + Q + 1,
         NEW l, l = [i \in Ids |-> IF i \in 2 .. P + 1 THEN 0 ELSE IF i = P + Q + 1 THEN 2 ELSE 1]
  PROVE  Struct(T, {}, z, l, top)
<1> DEFINE in(j) == InId(P, j)
<1>1. /\ P \in Nat /\ Q \in Nat /\ 1 <= P /\ 1 <= Q /\ P + Q <= NumIds
      /\ Q # 1 => P + Q + 1 <= NumIds
      /\ low \in [1 .. P + 1 -> Nat] /\ low[1] = 0 /\ low[P + 1] = Inf
      /\ \A i, j \in 1 .. P + 1 : i < j => low[i] < low[j]
      /\ first \in [1 .. Q + 1 -> 1 .. P + 1] /\ first[1] = 1 /\ first[Q + 1] = P + 1
      /\ \A i, j \in 1 .. Q + 1 : i < j => first[i] < first[j]
      /\ T = [id \in Ids |-> T[id]] /\ NumIds \in Nat /\ Inf \in Nat /\ Ids = 1 .. NumIds
  <2>1. NumIds \in Nat /\ Inf \in Nat /\ Ids = 1 .. NumIds
    BY SizeAssumption DEF Ids, Inf
  <2>2. P \in Nat /\ Q \in Nat /\ 1 <= P /\ 1 <= Q /\ P + Q <= NumIds /\ (Q # 1 => P + Q + 1 <= NumIds)
    BY DEF Grown
  <2>3. /\ low \in [1 .. P + 1 -> Nat] /\ low[1] = 0 /\ low[P + 1] = Inf
        /\ \A i, j \in 1 .. P + 1 : i < j => low[i] < low[j]
    BY DEF Grown
  <2>4. /\ first \in [1 .. Q + 1 -> 1 .. P + 1] /\ first[1] = 1 /\ first[Q + 1] = P + 1
        /\ \A i, j \in 1 .. Q + 1 : i < j => first[i] < first[j]
    BY DEF Grown
  <2>5. T = [id \in Ids |-> T[id]]
    BY DEF Grown
  <2> QED BY <2>1, <2>2, <2>3, <2>4, <2>5
<1>n. /\ P \in Nat /\ Q \in Nat /\ 1 <= P /\ 1 <= Q /\ P + Q <= NumIds
      /\ Q # 1 => P + Q + 1 <= NumIds
      /\ NumIds \in Nat /\ Inf \in Nat /\ Ids = 1 .. NumIds
  BY <1>1
<1>2. /\ \A i, j \in 1 .. P + 1 : i <= j => low[i] <= low[j]
      /\ \A i \in 1 .. P + 1 : low[i] \in Nat /\ low[i] <= Inf
      /\ \A j, k \in 1 .. Q + 1 : j <= k => first[j] <= first[k]
      /\ \A j \in 1 .. Q + 1 : first[j] \in 1 .. P + 1 /\ low[first[j]] \in Nat
  <2>1. ASSUME NEW i \in 1 .. P + 1, NEW j \in 1 .. P + 1, i <= j PROVE low[i] <= low[j]
    <3>1. low[i] \in Nat /\ low[j] \in Nat
      BY <1>1
    <3>2. i = j \/ i < j
      BY <1>n, <2>1
    <3>3. i < j => low[i] < low[j]
      BY <1>1
    <3> QED BY <3>1, <3>2, <3>3
  <2>2. \A i \in 1 .. P + 1 : low[i] \in Nat
    BY <1>1
  <2>3. \A i \in 1 .. P + 1 : low[i] <= Inf
    <3>1. P + 1 \in 1 .. P + 1
      BY <1>1
    <3> QED BY <1>1, <2>1, <3>1
  <2>4. ASSUME NEW j \in 1 .. Q + 1, NEW k \in 1 .. Q + 1, j <= k PROVE first[j] <= first[k]
    <3>1. first[j] \in 1 .. P + 1 /\ first[k] \in 1 .. P + 1
      BY <1>1
    <3>2. j = k \/ j < k
      BY <1>n, <2>4
    <3>3. j < k => first[j] < first[k]
      BY <1>1
    <3> DEFINE x == first[j]
               y == first[k]
    <3>4. x \in 1 .. P + 1 /\ y \in 1 .. P + 1 /\ (x = y \/ x < y)
      BY <3>1, <3>2, <3>3
    <3> HIDE DEF x, y
    <3>5. x <= y
      BY <1>n, <3>4
    <3> QED BY <3>5 DEF x, y
  <2>5. \A j \in 1 .. Q + 1 : first[j] \in 1 .. P + 1
    BY <1>1
  <2> QED BY <2>1, <2>2, <2>3, <2>4, <2>5
<1>3. ASSUME NEW i \in 1 .. P
      PROVE  /\ i + 1 \in Ids /\ Whole(T[i + 1]) /\ N(T, i + 1) = T[i + 1] /\ l[i + 1] = 0
             /\ T[i + 1].leaf /\ T[i + 1].type = "base"
             /\ T[i + 1].low = low[i] /\ T[i + 1].high = low[i + 1]
             /\ (i = P => T[i + 1].next = Nil) /\ (i # P => T[i + 1].next = i + 2)
  <2>1. /\ IsNode(T[i + 1]) /\ T[i + 1].leaf \in BOOLEAN /\ T[i + 1].leaf /\ T[i + 1].type = "base"
        /\ T[i + 1].low = low[i] /\ T[i + 1].high = low[i + 1]
        /\ T[i + 1].next = IF i = P THEN Nil ELSE i + 2
        /\ \A k \in T[i + 1].items : k \in Keys /\ low[i] <= k /\ k < low[i + 1]
    BY DEF Grown
  <2>2. i \in 1 .. P + 1 /\ i + 1 \in 1 .. P + 1 /\ i + 1 \in Ids /\ i + 1 \in 2 .. P + 1
    BY <1>1
  <2>3. low[i] < low[i + 1] /\ low[i] \in Nat /\ low[i + 1] \in Nat /\ low[i + 1] <= Inf
    BY <1>1, <1>2, <2>2
  <2>4. T[i + 1].next \in Ids \cup {Nil} /\ (T[i + 1].next = Nil => T[i + 1].high = Inf)
    <3>1. i # P => i + 2 \in Ids /\ i + 2 # Nil
      BY <1>1 DEF Nil
    <3> QED BY <1>1, <2>1, <3>1
  <2>5. N(T, i + 1) = T[i + 1]
    BY <2>1 DEF N, Live
  <2>6. l[i + 1] = 0
    BY <2>2
  <2>7. Whole(T[i + 1])
    BY <2>1, <2>3, <2>4 DEF Whole, Plain
  <2> QED BY <2>1, <2>2, <2>5, <2>6, <2>7
<1>4. ASSUME NEW j \in 1 .. Q
      PROVE  /\ in(j) \in Ids /\ in(j) # Nil /\ Whole(T[in(j)]) /\ N(T, in(j)) = T[in(j)] /\ l[in(j)] = 1
             /\ ~T[in(j)].leaf /\ T[in(j)].type \in {"base", "delta"}
             /\ T[in(j)].low = low[first[j]] /\ T[in(j)].high = low[first[j + 1]]
             /\ (j = Q => T[in(j)].next = Nil) /\ (j # Q => T[in(j)].next = in(j + 1))
             /\ T[in(j)].items = {<<low[i], i + 1>> : i \in first[j] .. first[j + 1] - 1}
  <2> DEFINE n == T[in(j)]
  <2>1. /\ IsNode(n) /\ n.leaf \in BOOLEAN /\ ~n.leaf /\ n.type \in {"base", "delta"}
        /\ n.low = low[first[j]] /\ n.high = low[first[j + 1]]
        /\ n.next = IF j = Q THEN Nil ELSE in(j + 1)
        /\ n.items = {<<low[i], i + 1>> : i \in first[j] .. first[j + 1] - 1}
    BY DEF Grown
  <2>2. j \in 1 .. Q + 1 /\ j + 1 \in 1 .. Q + 1
    BY <1>1
  <2>3. in(j) \in Ids /\ in(j) # Nil /\ l[in(j)] = 1
    BY <1>1 DEF InId, Nil
  <2>4. j # Q => in(j + 1) \in Ids /\ in(j + 1) # Nil
    BY <1>1 DEF InId, Nil
  <2>5. /\ first[j] < first[j + 1] /\ first[j] \in 1 .. P + 1 /\ first[j + 1] \in 1 .. P + 1
    BY <1>1, <1>2, <2>2
  <2>6. low[first[j]] < low[first[j + 1]] /\ low[first[j]] \in Nat /\ low[first[j + 1]] \in Nat
        /\ low[first[j + 1]] <= Inf
    BY <1>1, <1>2, <2>5
  <2>7. n.next \in Ids \cup {Nil} /\ (n.next = Nil => n.high = Inf)
    BY <1>1, <2>1, <2>4
  <2> HIDE DEF n
  <2>8. ASSUME NEW i \in first[j] .. first[j + 1] - 1
        PROVE  i \in 1 .. P /\ i + 1 \in Ids /\ low[i] \in Nat /\ n.low <= low[i] /\ low[i] < n.high
    <3>1. i \in 1 .. P /\ i \in 1 .. P + 1 /\ first[j] <= i /\ i < first[j + 1] /\ i + 1 \in Ids
      <4> DEFINE a == first[j]
                 b == first[j + 1]
      <4>1. a \in 1 .. P + 1 /\ b \in 1 .. P + 1 /\ i \in a .. b - 1
        BY <2>5
      <4> HIDE DEF a, b
      <4>2. i \in 1 .. P /\ i \in 1 .. P + 1 /\ a <= i /\ i < b /\ i + 1 \in Ids
        BY <1>n, <4>1
      <4> QED BY <4>2 DEF a, b
    <3>2. low[i] \in Nat /\ low[first[j]] <= low[i] /\ low[i] < low[first[j + 1]]
      BY <1>1, <1>2, <2>5, <3>1
    <3> QED BY <2>1, <3>1, <3>2
  <2>9. InnerOK(n)
    <3>1. ASSUME NEW s \in n.items
          PROVE  s = <<s[1], s[2]>> /\ s[1] \in Nat /\ s[2] \in Ids /\ n.low <= s[1] /\ s[1] < n.high
      <4>1. PICK i \in first[j] .. first[j + 1] - 1 : s = <<low[i], i + 1>>
        BY <2>1
      <4>2. s[1] = low[i] /\ s[2] = i + 1
        BY <4>1
      <4> QED BY <2>8, <4>1, <4>2
    <3>2. ASSUME NEW s \in n.items, NEW x \in n.items, s[1] = x[1] PROVE s = x
      <4>1. PICK i \in first[j] .. first[j + 1] - 1 : s = <<low[i], i + 1>>
        BY <2>1
      <4>2. PICK k \in first[j] .. first[j + 1] - 1 : x = <<low[k], k + 1>>
        BY <2>1
      <4>3. low[i] = low[k]
        BY <3>2, <4>1, <4>2
      <4>4. i \in 1 .. P + 1 /\ k \in 1 .. P + 1
        BY <1>1, <2>8
      <4>5. ~(i < k) /\ ~(k < i)
        BY <1>1, <1>2, <4>3, <4>4
      <4>6. i = k
        BY <4>4, <4>5
      <4> QED BY <4>1, <4>2, <4>6
    <3>3. \E s \in n.items : s[1] = n.low
      <4>1. first[j] \in first[j] .. first[j + 1] - 1
        BY <2>5
      <4>2. <<low[first[j]], first[j] + 1>> \in n.items
        BY <2>1, <4>1
      <4> QED BY <2>1, <4>2
    <3> QED BY <3>1, <3>2, <3>3 DEF InnerOK
  <2>10. Whole(n) /\ Live(n) = n
    BY <2>1, <2>6, <2>7, <2>9 DEF Whole, Plain, Live
  <2>11. N(T, in(j)) = n
    BY <2>10 DEF N, n
  <2> QED BY <2>1, <2>3, <2>10, <2>11 DEF n
<1>5. ASSUME Q # 1
      PROVE  /\ P + Q + 1 \in Ids /\ Whole(T[P + Q + 1]) /\ N(T, P + Q + 1) = T[P + Q + 1]
             /\ l[P + Q + 1] = 2 /\ ~T[P + Q + 1].leaf /\ T[P + Q + 1].type = "base"
             /\ T[P + Q + 1].low = 0 /\ T[P + Q + 1].high = Inf /\ T[P + Q + 1].next = Nil
             /\ T[P + Q + 1].items = {<<low[first[j]], in(j)>> : j \in 1 .. Q}
  <2> DEFINE n == T[P + Q + 1]
  <2>1. /\ IsNode(n) /\ n.leaf \in BOOLEAN /\ ~n.leaf /\ n.type = "base"
        /\ n.low = 0 /\ n.high = Inf /\ n.next = Nil
        /\ n.items = {<<low[first[j]], in(j)>> : j \in 1 .. Q}
    BY <1>5 DEF Grown
  <2>2. P + Q + 1 \in Ids /\ l[P + Q + 1] = 2
    BY <1>1, <1>5
  <2> HIDE DEF n
  <2>3. 0 < Inf
    BY SizeAssumption DEF Inf
  <2>4. ASSUME NEW j \in 1 .. Q
        PROVE  in(j) \in Ids /\ low[first[j]] \in Nat /\ low[first[j]] < Inf /\ j \in 1 .. Q + 1
               /\ first[j] \in 1 .. P + 1
    <3>1. in(j) \in Ids
      BY <1>4
    <3>2. j \in 1 .. Q + 1 /\ Q + 1 \in 1 .. Q + 1 /\ j < Q + 1
      BY <1>1
    <3>3. first[j] \in 1 .. P + 1 /\ first[j] < P + 1 /\ P + 1 \in 1 .. P + 1
      BY <1>1, <3>2
    <3>4. low[first[j]] < low[P + 1]
      BY <1>1, <3>3
    <3> QED BY <1>1, <1>2, <3>1, <3>2, <3>3, <3>4
  <2>5. InnerOK(n)
    <3>1. ASSUME NEW s \in n.items
          PROVE  s = <<s[1], s[2]>> /\ s[1] \in Nat /\ s[2] \in Ids /\ n.low <= s[1] /\ s[1] < n.high
      <4>1. PICK j \in 1 .. Q : s = <<low[first[j]], in(j)>>
        BY <2>1
      <4>2. s[1] = low[first[j]] /\ s[2] = in(j)
        BY <4>1
      <4> QED BY <2>1, <2>4, <4>1, <4>2
    <3>2. ASSUME NEW s \in n.items, NEW x \in n.items, s[1] = x[1] PROVE s = x
      <4>1. PICK j \in 1 .. Q : s = <<low[first[j]], in(j)>>
        BY <2>1
      <4>2. PICK k \in 1 .. Q : x = <<low[first[k]], in(k)>>
        BY <2>1
      <4>3. low[first[j]] = low[first[k]] /\ first[j] \in 1 .. P + 1 /\ first[k] \in 1 .. P + 1
            /\ j \in 1 .. Q + 1 /\ k \in 1 .. Q + 1
        BY <2>4, <3>2, <4>1, <4>2
      <4>4. ~(first[j] < first[k]) /\ ~(first[k] < first[j])
        BY <1>1, <1>2, <4>3
      <4>5. j = k
        BY <1>1, <4>3, <4>4
      <4> QED BY <4>1, <4>2, <4>5
    <3>3. \E s \in n.items : s[1] = n.low
      <4>1. 1 \in 1 .. Q /\ first[1] = 1
        BY <1>1
      <4>2. <<low[first[1]], in(1)>> \in n.items
        BY <2>1, <4>1
      <4> QED BY <1>1, <2>1, <4>1, <4>2
    <3> QED BY <3>1, <3>2, <3>3 DEF InnerOK
  <2>6. Whole(n) /\ Live(n) = n
    BY <1>1, <2>1, <2>3, <2>5 DEF Whole, Plain, Live
  <2>7. N(T, P + Q + 1) = n
    BY <2>6 DEF N, n
  <2> QED BY <2>1, <2>2, <2>6, <2>7 DEF n
<1> HIDE DEF in
<1>6. /\ \A id \in Ids : \/ \E i \in 1 .. P : id = i + 1
                         \/ \E j \in 1 .. Q : id = in(j)
                         \/ Q # 1 /\ id = P + Q + 1
                         \/ T[id] = None
      /\ None.type = "none"
  BY DEF Grown, in, None, Node
<1>7. \A id : InT(T, {}, id) <=> id \in Ids /\ T[id].type # "none"
  BY DEF InT
<1>8. \A id : InC(T, {}, z, id) <=> InT(T, {}, id)
  BY DEF InC, InT
<1>9. \A id \in Ids : InT(T, {}, id) => \/ \E i \in 1 .. P : id = i + 1
                                        \/ \E j \in 1 .. Q : id = in(j)
                                        \/ Q # 1 /\ id = P + Q + 1
  BY <1>6, <1>7
<1>10. /\ \A i \in 1 .. P : InT(T, {}, i + 1) /\ InC(T, {}, z, i + 1)
       /\ \A j \in 1 .. Q : InT(T, {}, in(j)) /\ InC(T, {}, z, in(j))
       /\ Q # 1 => InT(T, {}, P + Q + 1) /\ InC(T, {}, z, P + Q + 1)
  <2>1. "base" # "none" /\ "delta" # "none"
    OBVIOUS
  <2> QED BY <1>3, <1>4, <1>5, <1>7, <1>8, <2>1
<1>11. ASSUME NEW i \in 1 .. P PROVE \E j \in 1 .. Q : i \in first[j] .. first[j + 1] - 1
  <2> DEFINE S == {j \in 1 .. Q : i < first[j + 1]}
  <2>1. Q \in S
    BY <1>1
  <2>2. S \in SUBSET Nat /\ S # {}
    BY <2>1
  <2>3. PICK j \in S : \A y \in S : j <= y
    BY <2>2, LeastOf
  <2>4. j \in 1 .. Q /\ i < first[j + 1] /\ j \in 1 .. Q + 1 /\ j + 1 \in 1 .. Q + 1
    BY <1>1, <2>3
  <2>5. first[j] <= i
    <3>1. CASE j = 1
      BY <1>1, <3>1
    <3>2. CASE j # 1
      <4>1. j - 1 \in 1 .. Q /\ j - 1 \notin S /\ (j - 1) + 1 = j
        <5>1. j - 1 \in 1 .. Q /\ ~(j <= j - 1) /\ (j - 1) + 1 = j
          BY <1>1, <2>4, <3>2
        <5> QED BY <2>3, <5>1
      <4>2. first[j] \in 1 .. P + 1
        BY <1>2, <2>4
      <4> QED BY <1>1, <4>1, <4>2
    <3> QED BY <3>1, <3>2
  <2>6. first[j] \in 1 .. P + 1 /\ first[j + 1] \in 1 .. P + 1
    BY <1>2, <2>4
  <2> QED BY <2>4, <2>5, <2>6
<1>r. ASSUME NEW id \in Ids PROVE T[id].type # "remove"
  BY <1>3, <1>4, <1>5, <1>6
<1>12. Entries(T)
  <2>1. \A id \in Ids : Entry(T[id])
    BY <1>3, <1>4, <1>5, <1>6 DEF Entry
  <2> QED BY <1>1, <2>1 DEF Entries
<1>13. Links(T, {}, z, l)
  <2> SUFFICES ASSUME NEW id \in Ids, InT(T, {}, id), N(T, id).next # Nil
               PROVE  /\ InC(T, {}, z, N(T, id).next) /\ l[N(T, id).next] = l[id]
                      /\ N(T, N(T, id).next).low = N(T, id).high
    BY DEF Links
  <2>1. CASE \E i \in 1 .. P : id = i + 1
    <3>1. PICK i \in 1 .. P : id = i + 1
      BY <2>1
    <3>2. i # P /\ N(T, id).next = i + 2 /\ N(T, id).high = low[i + 1] /\ l[id] = 0
      BY <1>3, <3>1
    <3>3. i + 1 \in 1 .. P /\ (i + 1) + 1 = i + 2
      BY <1>1, <3>2
    <3>4. N(T, i + 2).low = low[i + 1] /\ l[i + 2] = 0 /\ InC(T, {}, z, i + 2)
      BY <1>3, <1>10, <3>3
    <3> QED BY <3>2, <3>4
  <2>2. CASE \E j \in 1 .. Q : id = in(j)
    <3>1. PICK j \in 1 .. Q : id = in(j)
      BY <2>2
    <3>2. j # Q /\ N(T, id).next = in(j + 1) /\ N(T, id).high = low[first[j + 1]] /\ l[id] = 1
      BY <1>4, <3>1
    <3>3. j + 1 \in 1 .. Q
      BY <1>1, <3>2
    <3>4. N(T, in(j + 1)).low = low[first[j + 1]] /\ l[in(j + 1)] = 1 /\ InC(T, {}, z, in(j + 1))
      BY <1>4, <1>10, <3>3
    <3> QED BY <3>2, <3>4
  <2>3. CASE Q # 1 /\ id = P + Q + 1
    BY <1>5, <2>3
  <2> QED BY <1>9, <2>1, <2>2, <2>3
<1>14. top \in Ids /\ InC(T, {}, z, top) /\ N(T, top).low = 0 /\ 1 <= l[top] /\ l[top] \in Nat
       /\ (Q # 1 => l[top] = 2)
  <2>1. CASE Q = 1
    <3>1. 1 \in 1 .. Q /\ in(1) = 1 /\ top = 1
      BY <1>1, <2>1 DEF in, InId
    <3>2. in(1) \in Ids /\ InC(T, {}, z, in(1)) /\ N(T, in(1)).low = low[first[1]] /\ l[in(1)] = 1
      BY <1>4, <1>10, <3>1
    <3> QED BY <1>1, <2>1, <3>1, <3>2
  <2>2. CASE Q # 1
    BY <1>5, <1>10, <2>2
  <2> QED BY <2>1, <2>2
<1>15. Levels(T, {}, l, top)
  <2>1. l \in [Ids -> Nat]
    OBVIOUS
  <2>2. ASSUME NEW id \in Ids, InT(T, {}, id) PROVE (N(T, id).leaf <=> l[id] = 0) /\ l[id] <= l[top]
    <3>1. CASE \E i \in 1 .. P : id = i + 1
      BY <1>3, <1>14, <3>1
    <3>2. CASE \E j \in 1 .. Q : id = in(j)
      BY <1>4, <1>14, <3>2
    <3>3. CASE Q # 1 /\ id = P + Q + 1
      BY <1>5, <1>14, <3>3
    <3> QED BY <1>9, <2>2, <3>1, <3>2, <3>3
  <2> QED BY <1>r, <2>1, <2>2 DEF Levels
<1>16. Apart(T, {}, z, l)
  <2> SUFFICES ASSUME NEW a \in Ids, NEW b \in Ids, InT(T, {}, a), InT(T, {}, b), l[a] = l[b], a # b
               PROVE  N(T, a).high <= N(T, b).low \/ N(T, b).high <= N(T, a).low
    BY <1>8 DEF Apart
  <2>1. CASE \E i \in 1 .. P : a = i + 1
    <3>1. PICK i \in 1 .. P : a = i + 1
      BY <2>1
    <3>2. l[b] = 0
      BY <1>3, <3>1
    <3>3. \E k \in 1 .. P : b = k + 1
      <4>1. ASSUME NEW j \in 1 .. Q PROVE b # in(j)
        <5>1. l[in(j)] = 1
          BY <1>4
        <5>2. l[b] # 1
          BY <3>2
        <5> QED BY <5>1, <5>2
      <4>2. ~(Q # 1 /\ b = P + Q + 1)
        BY <1>5, <3>2
      <4> QED BY <1>9, <4>1, <4>2
    <3>4. PICK k \in 1 .. P : b = k + 1
      BY <3>3
    <3>5. i < k \/ k < i
      BY <3>1, <3>4
    <3>6. /\ N(T, a).low = low[i] /\ N(T, a).high = low[i + 1]
          /\ N(T, b).low = low[k] /\ N(T, b).high = low[k + 1]
      BY <1>3, <3>1, <3>4
    <3>7. /\ i \in 1 .. P + 1 /\ k \in 1 .. P + 1 /\ i + 1 \in 1 .. P + 1 /\ k + 1 \in 1 .. P + 1
          /\ i < k => i + 1 <= k
          /\ k < i => k + 1 <= i
      BY <1>n
    <3> QED BY <1>2, <3>5, <3>6, <3>7
  <2>2. CASE \E j \in 1 .. Q : a = in(j)
    <3>1. PICK j \in 1 .. Q : a = in(j)
      BY <2>2
    <3>2. l[b] = 1
      BY <1>4, <3>1
    <3>3. \E k \in 1 .. Q : b = in(k)
      <4>1. ASSUME NEW i \in 1 .. P PROVE b # i + 1
        <5>1. l[i + 1] = 0
          BY <1>3
        <5>2. l[b] # 0
          BY <3>2
        <5> QED BY <5>1, <5>2
      <4>2. ~(Q # 1 /\ b = P + Q + 1)
        BY <1>5, <3>2
      <4> QED BY <1>9, <4>1, <4>2
    <3>4. PICK k \in 1 .. Q : b = in(k)
      BY <3>3
    <3>5. j < k \/ k < j
      BY <3>1, <3>4
    <3>6. /\ N(T, a).low = low[first[j]] /\ N(T, a).high = low[first[j + 1]]
          /\ N(T, b).low = low[first[k]] /\ N(T, b).high = low[first[k + 1]]
      BY <1>4, <3>1, <3>4
    <3>7. /\ j \in 1 .. Q + 1 /\ k \in 1 .. Q + 1 /\ j + 1 \in 1 .. Q + 1 /\ k + 1 \in 1 .. Q + 1
          /\ j < k => j + 1 <= k
          /\ k < j => k + 1 <= j
      BY <1>n
    <3>8. /\ j < k => first[j + 1] <= first[k]
          /\ k < j => first[k + 1] <= first[j]
          /\ first[j] \in 1 .. P + 1 /\ first[j + 1] \in 1 .. P + 1
          /\ first[k] \in 1 .. P + 1 /\ first[k + 1] \in 1 .. P + 1
      BY <1>2, <3>7
    <3> QED BY <1>2, <3>5, <3>6, <3>8
  <2>3. CASE Q # 1 /\ a = P + Q + 1
    <3>1. l[b] = 2
      BY <1>5, <2>3
    <3>2. b = P + Q + 1
      BY <1>3, <1>4, <1>9, <3>1
    <3> QED BY <2>3, <3>2
  <2> QED BY <1>9, <2>1, <2>2, <2>3
<1>17. Targets(T, {}, l)
  <2> SUFFICES ASSUME NEW id \in Ids, InT(T, {}, id), ~N(T, id).leaf, NEW s \in N(T, id).items
               PROVE  InT(T, {}, s[2]) /\ N(T, s[2]).low = s[1] /\ l[s[2]] + 1 = l[id]
    BY DEF Targets
  <2>1. CASE \E i \in 1 .. P : id = i + 1
    BY <1>3, <2>1
  <2>2. CASE \E j \in 1 .. Q : id = in(j)
    <3>1. PICK j \in 1 .. Q : id = in(j)
      BY <2>2
    <3>2. l[id] = 1 /\ N(T, id).items = {<<low[i], i + 1>> : i \in first[j] .. first[j + 1] - 1}
      BY <1>4, <3>1
    <3>3. PICK i \in first[j] .. first[j + 1] - 1 : s = <<low[i], i + 1>>
      BY <3>2
    <3>4. j \in 1 .. Q + 1 /\ j + 1 \in 1 .. Q + 1
      BY <1>1
    <3>5. first[j] \in 1 .. P + 1 /\ first[j + 1] \in 1 .. P + 1
      BY <1>2, <3>4
    <3>6. i \in 1 .. P
      <4> DEFINE a == first[j]
                 b == first[j + 1]
      <4>1. a \in 1 .. P + 1 /\ b \in 1 .. P + 1 /\ i \in a .. b - 1
        BY <3>5
      <4> HIDE DEF a, b
      <4> QED BY <1>n, <4>1
    <3>7. s[1] = low[i] /\ s[2] = i + 1
      BY <3>3
    <3>8. InT(T, {}, i + 1) /\ N(T, i + 1).low = low[i] /\ l[i + 1] = 0
      BY <1>3, <1>10, <3>6
    <3> QED BY <3>2, <3>7, <3>8
  <2>3. CASE Q # 1 /\ id = P + Q + 1
    <3>1. l[id] = 2 /\ N(T, id).items = {<<low[first[j]], in(j)>> : j \in 1 .. Q}
      BY <1>5, <2>3
    <3>2. PICK j \in 1 .. Q : s = <<low[first[j]], in(j)>>
      BY <3>1
    <3>3. s[1] = low[first[j]] /\ s[2] = in(j)
      BY <3>2
    <3>4. InT(T, {}, in(j)) /\ N(T, in(j)).low = low[first[j]] /\ l[in(j)] = 1
      BY <1>4, <1>10
    <3> QED BY <3>1, <3>3, <3>4
  <2> QED BY <1>9, <2>1, <2>2, <2>3
<1>18. Zombies(T, {}, z, l)
  <2>1. z \in [Ids -> Ids \cup {Nil}] /\ \A i \in Ids : z[i] = Nil
    OBVIOUS
  <2> QED BY <2>1 DEF Zombies
<1>19. Seps(T, {}, z, l)
  <2> SUFFICES ASSUME NEW id \in Ids, InT(T, {}, id), N(T, id).next # Nil
               PROVE  HasSep(T, {}, z, l, N(T, id).next)
    BY <1>8 DEF Seps, Sepd
  <2>1. CASE \E i \in 1 .. P : id = i + 1
    <3>1. PICK i \in 1 .. P : id = i + 1
      BY <2>1
    <3>2. i # P /\ N(T, id).next = i + 2
      BY <1>3, <3>1
    <3>3. i + 1 \in 1 .. P /\ (i + 1) + 1 = i + 2
      BY <1>1, <3>2
    <3>4. N(T, i + 2).low = low[i + 1] /\ l[i + 2] = 0
      BY <1>3, <3>3
    <3>5. PICK j \in 1 .. Q : i + 1 \in first[j] .. first[j + 1] - 1
      BY <1>11, <3>3
    <3>6. <<low[i + 1], i + 2>> \in T[in(j)].items
      BY <1>4, <3>3, <3>5
    <3>7. in(j) \in Ids /\ N(T, in(j)) = T[in(j)] /\ l[in(j)] = 1 /\ InC(T, {}, z, in(j))
      BY <1>4, <1>10
    <3>8. <<N(T, i + 2).low, i + 2>> \in N(T, in(j)).items /\ l[in(j)] = l[i + 2] + 1
      BY <3>4, <3>6, <3>7
    <3>9. HasSep(T, {}, z, l, i + 2)
      BY <3>7, <3>8 DEF HasSep
    <3> QED BY <3>2, <3>9
  <2>2. CASE \E j \in 1 .. Q : id = in(j)
    <3>1. PICK j \in 1 .. Q : id = in(j)
      BY <2>2
    <3>2. j # Q /\ N(T, id).next = in(j + 1)
      BY <1>4, <3>1
    <3>3. j + 1 \in 1 .. Q /\ Q # 1
      BY <1>1, <3>2
    <3>4. N(T, in(j + 1)).low = low[first[j + 1]] /\ l[in(j + 1)] = 1
      BY <1>4, <3>3
    <3>5. <<low[first[j + 1]], in(j + 1)>> \in T[P + Q + 1].items
      BY <1>5, <3>3
    <3>6. P + Q + 1 \in Ids /\ N(T, P + Q + 1) = T[P + Q + 1] /\ l[P + Q + 1] = 2
          /\ InC(T, {}, z, P + Q + 1)
      BY <1>5, <1>10, <3>3
    <3> DEFINE c == in(j + 1)
               r == P + Q + 1
    <3>7. <<N(T, c).low, c>> \in N(T, r).items /\ l[r] = l[c] + 1 /\ r \in Ids /\ InC(T, {}, z, r)
      BY <3>4, <3>5, <3>6
    <3> HIDE DEF c, r
    <3>8. HasSep(T, {}, z, l, c)
      BY <3>7 DEF HasSep
    <3> QED BY <3>2, <3>8 DEF c
  <2>3. CASE Q # 1 /\ id = P + Q + 1
    BY <1>5, <2>3
  <2> QED BY <1>9, <2>1, <2>2, <2>3
<1>20. LowChildren(T, {})
  <2> SUFFICES ASSUME NEW id \in Ids, InT(T, {}, id), ~N(T, id).leaf
               PROVE  T[LowChild(N(T, id))].type # "remove"
    BY DEF LowChildren
  <2>1. Whole(N(T, id))
    BY <1>7, <1>12, Alloc
  <2>2. InnerOK(N(T, id))
    BY <2>1 DEF Whole
  <2>3. PICK s \in N(T, id).items : s[1] = N(T, id).low
    BY <2>2 DEF InnerOK
  <2>4. s[2] = LowChild(N(T, id)) /\ s[2] \in Ids
    BY <2>2, <2>3, LowChildIs DEF InnerOK
  <2> QED BY <1>r, <2>4
<1>21. Ends(T, {}, z, l, top)
  <2>1. 1 \in 1 .. P /\ 1 + 1 = FirstLeaf
    BY <1>1 DEF FirstLeaf
  <2> QED BY <1>1, <1>3, <1>10, <1>14, <2>1 DEF Ends
<1>22. RetiredOK(T, {}) /\ RetiredRefs(T, {}, l)
  BY DEF RetiredOK, RetiredRefs
<1> QED BY <1>12, <1>13, <1>15, <1>16, <1>17, <1>18, <1>19, <1>20, <1>21, <1>22 DEF Struct

(* The NodeIDs of the first tree are apart.                                 *)
LEMMA LayoutIds ==
  ASSUME NEW P \in Nat, NEW Q \in Nat, 1 <= P, 1 <= Q, P + Q <= NumIds, Q # 1 => P + Q + 1 <= NumIds
  PROVE  /\ \A i \in 1 .. P : /\ i + 1 \in Ids /\ i + 1 \in 2 .. P + 1 /\ (i + 1) - 1 = i
                               /\ i \in 1 .. P + 1 /\ i + 1 \in 1 .. P + 1
         /\ \A j \in 1 .. Q : /\ InId(P, j) \in Ids /\ InId(P, j) \notin 2 .. P + 1
                               /\ (Q # 1 => InId(P, j) # P + Q + 1)
         /\ \A j, k \in 1 .. Q : InId(P, j) = InId(P, k) => j = k
         /\ Q # 1 => P + Q + 1 \in Ids /\ P + Q + 1 \notin 2 .. P + 1
<1>1. NumIds \in Nat /\ Ids = 1 .. NumIds
  BY SizeAssumption DEF Ids
<1>2. ASSUME NEW i \in 1 .. P
      PROVE  /\ i + 1 \in Ids /\ i + 1 \in 2 .. P + 1 /\ (i + 1) - 1 = i
             /\ i \in 1 .. P + 1 /\ i + 1 \in 1 .. P + 1
  BY <1>1
<1>3. ASSUME NEW j \in 1 .. Q
      PROVE  InId(P, j) \in Ids /\ InId(P, j) \notin 2 .. P + 1 /\ (Q # 1 => InId(P, j) # P + Q + 1)
  BY <1>1 DEF InId
<1>4. \A j, k \in 1 .. Q : InId(P, j) = InId(P, k) => j = k
  BY DEF InId
<1>5. Q # 1 => P + Q + 1 \in Ids /\ P + Q + 1 \notin 2 .. P + 1
  BY <1>1
<1> QED BY <1>2, <1>3, <1>4, <1>5

(* The trees that the program starts with are laid out that way.            *)
LEMMA Layout ==
  ASSUME NEW tree, WellFormed(tree), NEW P, P = Len(tree.pages), NEW Q, Q = Len(tree.parents),
         NEW low, low = [i \in 1 .. P + 1 |-> LowOf(tree, i)],
         NEW first, first = [j \in 1 .. Q + 1 |-> FirstOf(tree, j)],
         NEW T, T = [id \in Ids |-> InitTable(tree, id)]
  PROVE  Grown(T, P, Q, low, first) /\ Top(tree) = IF Q = 1 THEN 1 ELSE P + Q + 1
<1>1. /\ P \in Nat /\ 1 <= P /\ DOMAIN tree.pages = 1 .. P
      /\ \A i \in 1 .. P : tree.pages[i][1] \in 0 .. NumKeys
  <2>1. tree.pages \in Seq((0 .. NumKeys) \X SUBSET Keys) /\ tree.pages # <<>>
    BY DEF WellFormed
  <2>2. P \in Nat /\ DOMAIN tree.pages = 1 .. P
    BY <2>1
  <2>3. P # 0
    BY <2>1, EmptySeq
  <2>4. ASSUME NEW i \in 1 .. P PROVE tree.pages[i][1] \in 0 .. NumKeys
    <3>1. tree.pages[i] \in (0 .. NumKeys) \X SUBSET Keys
      BY <2>1, <2>2
    <3> QED BY <3>1
  <2> QED BY <2>2, <2>3, <2>4
<1>2. /\ Q \in Nat /\ 1 <= Q /\ DOMAIN tree.parents = 1 .. Q
      /\ \A j \in 1 .. Q : tree.parents[j] \in 1 .. P
  <2>1. tree.parents \in Seq(DOMAIN tree.pages) /\ tree.parents # <<>>
    BY DEF WellFormed
  <2>2. Q \in Nat /\ DOMAIN tree.parents = 1 .. Q
    BY <2>1
  <2>3. Q # 0
    BY <2>1, EmptySeq
  <2> QED BY <1>1, <2>1, <2>2, <2>3
<1>3. NumKeys \in Nat /\ NumIds \in Nat /\ Inf = NumKeys + 1 /\ Ids = 1 .. NumIds
  BY SizeAssumption DEF Inf, Ids
<1>4. /\ P + Q <= NumIds /\ (Q # 1 => P + Q + 1 <= NumIds)
      /\ Top(tree) = IF Q = 1 THEN 1 ELSE P + Q + 1
  <2>1. P + Q <= NumIds /\ Top(tree) <= NumIds
    BY DEF WellFormed
  <2>2. Top(tree) = IF Q = 1 THEN 1 ELSE P + Q + 1
    BY DEF Top
  <2> QED BY <2>1, <2>2
<1>n. /\ \A i \in 1 .. P : /\ i + 1 \in Ids /\ i + 1 \in 2 .. P + 1 /\ (i + 1) - 1 = i
                            /\ i \in 1 .. P + 1 /\ i + 1 \in 1 .. P + 1
      /\ \A j \in 1 .. Q : /\ InId(P, j) \in Ids /\ InId(P, j) \notin 2 .. P + 1
                            /\ (Q # 1 => InId(P, j) # P + Q + 1)
      /\ \A j, k \in 1 .. Q : InId(P, j) = InId(P, k) => j = k
      /\ Q # 1 => P + Q + 1 \in Ids /\ P + Q + 1 \notin 2 .. P + 1
  <2>1. P \in Nat /\ Q \in Nat /\ 1 <= P /\ 1 <= Q
    BY <1>1, <1>2
  <2>2. P + Q <= NumIds /\ (Q # 1 => P + Q + 1 <= NumIds)
    BY <1>4
  <2> QED BY ONLY <2>1, <2>2, LayoutIds
<1>5. /\ \A i \in 1 .. P : LowOf(tree, i) = tree.pages[i][1] /\ i \in 1 .. P + 1
      /\ LowOf(tree, P + 1) = Inf /\ P + 1 \in 1 .. P + 1
  BY <1>1 DEF LowOf
<1>6. /\ low \in [1 .. P + 1 -> Nat] /\ low[P + 1] = Inf
      /\ \A i \in 1 .. P + 1 : low[i] = LowOf(tree, i)
  <2>1. \A i \in 1 .. P + 1 : LowOf(tree, i) \in Nat
    <3>1. SUFFICES ASSUME NEW i \in 1 .. P + 1 PROVE LowOf(tree, i) \in Nat
      OBVIOUS
    <3>2. i \in 1 .. P \/ i = P + 1
      BY <1>1
    <3>3. CASE i \in 1 .. P
      <4>1. tree.pages[i][1] \in 0 .. NumKeys /\ LowOf(tree, i) = tree.pages[i][1]
        BY <1>1, <1>5, <3>3
      <4> QED BY <1>3, <4>1
    <3>4. CASE i = P + 1
      BY <1>3, <1>5, <3>4
    <3> QED BY <3>2, <3>3, <3>4
  <2> QED BY <1>5, <2>1
<1>7. /\ \A j \in 1 .. Q : FirstOf(tree, j) = tree.parents[j] /\ j \in 1 .. Q + 1
      /\ FirstOf(tree, Q + 1) = P + 1 /\ Q + 1 \in 1 .. Q + 1
  BY <1>2 DEF FirstOf
<1>8. /\ first \in [1 .. Q + 1 -> 1 .. P + 1] /\ first[Q + 1] = P + 1
      /\ \A j \in 1 .. Q + 1 : first[j] = FirstOf(tree, j)
  <2>1. \A j \in 1 .. Q + 1 : FirstOf(tree, j) \in 1 .. P + 1
    <3>1. SUFFICES ASSUME NEW j \in 1 .. Q + 1 PROVE FirstOf(tree, j) \in 1 .. P + 1
      OBVIOUS
    <3>2. j \in 1 .. Q \/ j = Q + 1
      BY <1>2
    <3>3. \A x \in 1 .. P : x \in 1 .. P + 1
      BY <1>1
    <3>4. P + 1 \in 1 .. P + 1
      BY <1>1
    <3> QED BY <1>2, <1>7, <3>2, <3>3, <3>4
  <2> QED BY <1>7, <2>1
<1>9. low[1] = 0 /\ first[1] = 1
  <2>1. 1 \in 1 .. P + 1 /\ 1 \in 1 .. Q + 1
    BY <1>1, <1>2
  <2>2. LowOf(tree, 1) = 0 /\ FirstOf(tree, 1) = 1
    BY DEF WellFormed
  <2> QED BY <1>6, <1>8, <2>1, <2>2
<1>10. \A i, j \in 1 .. P + 1 : i < j => low[i] < low[j]
  <2>1. ASSUME NEW i \in 1 .. P + 1, i + 1 \in 1 .. P + 1 PROVE low[i] < low[i + 1]
    <3>1. i \in 1 .. P
      BY <1>1, <2>1
    <3>2. LowOf(tree, i) < LowOf(tree, i + 1)
      BY <1>1, <3>1 DEF WellFormed
    <3> QED BY <1>6, <2>1, <3>2
  <2>2. P + 1 \in Nat
    BY <1>1
  <2> HIDE DEF WellFormed
  <2> QED BY <1>6, <2>1, <2>2, Rising
<1>11. \A i, j \in 1 .. Q + 1 : i < j => first[i] < first[j]
  <2>1. ASSUME NEW j \in 1 .. Q + 1, j + 1 \in 1 .. Q + 1 PROVE first[j] < first[j + 1]
    <3>1. j \in 1 .. Q
      BY <1>2, <2>1
    <3>2. FirstOf(tree, j) < FirstOf(tree, j + 1)
      BY <1>2, <3>1 DEF WellFormed
    <3> QED BY <1>8, <2>1, <3>2
  <2>2. Q + 1 \in Nat
    BY <1>2
  <2>3. first \in [1 .. Q + 1 -> Nat]
    <3>1. 1 .. P + 1 \subseteq Nat
      BY <1>1
    <3> QED BY <1>8, <3>1
  <2> QED BY <2>1, <2>2, <2>3, Rising
<1>12. ASSUME NEW i \in 1 .. P
       PROVE  /\ IsNode(T[i + 1]) /\ T[i + 1].leaf \in BOOLEAN /\ T[i + 1].leaf /\ T[i + 1].type = "base"
              /\ T[i + 1].low = low[i] /\ T[i + 1].high = low[i + 1]
              /\ T[i + 1].next = IF i = P THEN Nil ELSE i + 2
              /\ \A k \in T[i + 1].items : k \in Keys /\ low[i] <= k /\ k < low[i + 1]
  <2>1. i + 1 \in Ids /\ i + 1 \in 2 .. P + 1 /\ (i + 1) - 1 = i /\ i \in 1 .. P + 1 /\ i + 1 \in 1 .. P + 1
    BY <1>n
  <2>2. T[i + 1] = Leaf(tree, i)
    BY <2>1 DEF InitTable
  <2>3. T[i + 1] = Node(TRUE, "base", low[i], low[i + 1], IF i = P THEN Nil ELSE i + 2, tree.pages[i][2])
    BY <1>6, <2>1, <2>2 DEF Leaf
  <2>4. \A k \in tree.pages[i][2] : k \in Keys /\ low[i] <= k /\ k < low[i + 1]
    <3>1. \A k \in tree.pages[i][2] : LowOf(tree, i) <= k /\ k < LowOf(tree, i + 1)
      BY <1>1 DEF WellFormed
    <3>2. tree.pages[i] \in (0 .. NumKeys) \X SUBSET Keys
      <4>1. tree.pages \in Seq((0 .. NumKeys) \X SUBSET Keys)
        BY DEF WellFormed
      <4> QED BY <1>1, <4>1
    <3>3. tree.pages[i][2] \subseteq Keys
      BY <3>2
    <3> QED BY <1>6, <2>1, <3>1, <3>3
  <2> DEFINE a == low[i]
             b == low[i + 1]
             x == IF i = P THEN Nil ELSE i + 2
             s == tree.pages[i][2]
             n == T[i + 1]
  <2>5. n = Node(TRUE, "base", a, b, x, s)
    BY <2>3
  <2> HIDE DEF a, b, x, s, n
  <2>6. /\ IsNode(n) /\ n.leaf \in BOOLEAN /\ n.leaf /\ n.type = "base"
        /\ n.low = a /\ n.high = b /\ n.next = x /\ n.items = s
    BY <2>5 DEF Node, IsNode
  <2> QED BY <2>4, <2>6 DEF a, b, x, s, n
<1>13. ASSUME NEW j \in 1 .. Q
       PROVE  /\ InnerId(tree, j) = InId(P, j) /\ InId(P, j) \in Ids /\ InId(P, j) \notin 2 .. P + 1
              /\ \A k \in 1 .. Q : InId(P, j) = InId(P, k) => j = k
              /\ (Q # 1 => InId(P, j) # P + Q + 1)
  <2>1. InnerId(tree, j) = InId(P, j)
    BY DEF InnerId, InId
  <2> QED BY <1>n, <2>1
<1>14. ASSUME NEW j \in 1 .. Q
       PROVE  LET n == T[InId(P, j)]
              IN /\ IsNode(n) /\ n.leaf \in BOOLEAN /\ ~n.leaf /\ n.type \in {"base", "delta"}
                 /\ n.low = low[first[j]] /\ n.high = low[first[j + 1]]
                 /\ n.next = IF j = Q THEN Nil ELSE InId(P, j + 1)
                 /\ n.items = {<<low[i], i + 1>> : i \in first[j] .. first[j + 1] - 1}
  <2> DEFINE id == InId(P, j)
             in == Inner(tree, j)
  <2>1. /\ id \in Ids /\ id \notin 2 .. P + 1 /\ id = InnerId(tree, j)
        /\ \A k \in 1 .. Q : id = InnerId(tree, k) => k = j
    BY <1>13
  <2>2. (CHOOSE k \in 1 .. Q : id = InnerId(tree, k)) = j
    BY <2>1
  <2>3. T[id] = [in EXCEPT !.type = tree.inner]
    <3>1. T[id] = InitTable(tree, id)
      BY <2>1
    <3>2. ~(id \in 2 .. Len(tree.pages) + 1) /\ \E k \in DOMAIN tree.parents : id = InnerId(tree, k)
      BY <1>2, <2>1
    <3> HIDE DEF id, in
    <3>3. InitTable(tree, id) = [Inner(tree, CHOOSE k \in DOMAIN tree.parents : id = InnerId(tree, k)) EXCEPT !.type = tree.inner]
      BY <3>2 DEF InitTable
    <3>4. (CHOOSE k \in DOMAIN tree.parents : id = InnerId(tree, k)) = j
      BY <1>2, <2>2
    <3> QED BY <3>1, <3>3, <3>4 DEF in
  <2>4. tree.inner \in {"base", "delta"}
    BY DEF WellFormed
  <2>5. j \in 1 .. Q + 1 /\ j + 1 \in 1 .. Q + 1
    BY <1>2
  <2>6. first[j] \in 1 .. P + 1 /\ first[j + 1] \in 1 .. P + 1
    BY <1>8, <2>5
  <2>7. \A i \in first[j] .. first[j + 1] - 1 : i \in 1 .. P + 1
    <3> DEFINE a == first[j]
               b == first[j + 1]
    <3>1. a \in 1 .. P + 1 /\ b \in 1 .. P + 1
      BY <2>6
    <3> HIDE DEF a, b
    <3>2. \A i \in a .. b - 1 : i \in 1 .. P + 1
      BY <1>1, <3>1
    <3> QED BY <3>2 DEF a, b
  <2>8. {<<LowOf(tree, i), i + 1>> : i \in FirstOf(tree, j) .. FirstOf(tree, j + 1) - 1}
        = {<<low[i], i + 1>> : i \in first[j] .. first[j + 1] - 1}
    <3>1. FirstOf(tree, j) = first[j] /\ FirstOf(tree, j + 1) = first[j + 1]
      BY <1>8, <2>5
    <3>2. \A i \in first[j] .. first[j + 1] - 1 : LowOf(tree, i) = low[i]
      BY <1>6, <2>7
    <3> QED BY <3>1, <3>2
  <2>9. j # Q => InnerId(tree, j + 1) = InId(P, j + 1)
    BY <1>2 DEF InnerId, InId
  <2>10. /\ in = [leaf |-> FALSE, type |-> "base", low |-> in.low, high |-> in.high, next |-> in.next,
                  items |-> in.items, smo |-> <<>>, under |-> <<>>]
         /\ in.low = LowOf(tree, FirstOf(tree, j)) /\ in.high = LowOf(tree, FirstOf(tree, j + 1))
         /\ in.next = (IF j = Len(tree.parents) THEN Nil ELSE InnerId(tree, j + 1))
         /\ in.items = {<<LowOf(tree, i), i + 1>> : i \in FirstOf(tree, j) .. FirstOf(tree, j + 1) - 1}
    BY DEF Inner, Node
  <2>11. LowOf(tree, FirstOf(tree, j)) = low[first[j]] /\ LowOf(tree, FirstOf(tree, j + 1)) = low[first[j + 1]]
    BY <1>6, <1>8, <2>5, <2>6
  <2> DEFINE n == T[id]
  <2> HIDE DEF in
  <2>12. /\ IsNode(n) /\ n.leaf = FALSE /\ n.type = tree.inner
         /\ n.low = in.low /\ n.high = in.high /\ n.next = in.next /\ n.items = in.items
    <3> DEFINE ty == tree.inner
    <3>1. n = [in EXCEPT !.type = ty]
      BY <2>3
    <3>2. in = [leaf |-> FALSE, type |-> "base", low |-> in.low, high |-> in.high, next |-> in.next,
                items |-> in.items, smo |-> <<>>, under |-> <<>>]
      BY <2>10
    <3> HIDE DEF n, ty
    <3>3. n = [leaf |-> FALSE, type |-> ty, low |-> in.low, high |-> in.high, next |-> in.next,
               items |-> in.items, smo |-> <<>>, under |-> <<>>]
      <4> DEFINE lo == in.low
                 hi == in.high
                 nx == in.next
                 its == in.items
      <4>1. in = [leaf |-> FALSE, type |-> "base", low |-> lo, high |-> hi, next |-> nx,
                  items |-> its, smo |-> <<>>, under |-> <<>>]
        BY <3>2
      <4> HIDE DEF lo, hi, nx, its
      <4>2. n = [leaf |-> FALSE, type |-> ty, low |-> lo, high |-> hi, next |-> nx,
                 items |-> its, smo |-> <<>>, under |-> <<>>]
        BY <3>1, <4>1
      <4> QED BY <4>2 DEF lo, hi, nx, its
    <3> QED BY <3>3 DEF IsNode, ty
  <2>13. n.next = IF j = Q THEN Nil ELSE InId(P, j + 1)
    BY <2>9, <2>10, <2>12
  <2>14. n.leaf \in BOOLEAN /\ ~n.leaf
    BY <2>12
  <2> QED BY <2>4, <2>8, <2>10, <2>11, <2>12, <2>13, <2>14
<1>15. ASSUME NEW id \in Ids, id \notin 2 .. P + 1, \A j \in 1 .. Q : id # InId(P, j)
       PROVE  T[id] = IF id = Top(tree) THEN Node(FALSE, "base", 0, Inf, Nil,
                  {<<LowOf(tree, FirstOf(tree, j)), InnerId(tree, j)>> : j \in 1 .. Q})
                      ELSE None
  <2>1. ~(id \in 2 .. Len(tree.pages) + 1) /\ ~\E j \in DOMAIN tree.parents : id = InnerId(tree, j)
    BY <1>2, <1>13, <1>15
  <2> QED BY <1>2, <2>1 DEF InitTable
<1>16. ASSUME Q # 1
       PROVE  LET n == T[P + Q + 1]
              IN /\ IsNode(n) /\ n.leaf \in BOOLEAN /\ ~n.leaf /\ n.type = "base"
                 /\ n.low = 0 /\ n.high = Inf /\ n.next = Nil
                 /\ n.items = {<<low[first[j]], InId(P, j)>> : j \in 1 .. Q}
  <2>1. P + Q + 1 \in Ids /\ P + Q + 1 \notin 2 .. P + 1 /\ \A j \in 1 .. Q : P + Q + 1 # InId(P, j)
    BY <1>n, <1>16
  <2>2. Top(tree) = P + Q + 1
    BY <1>4, <1>16
  <2>3. T[P + Q + 1] = Node(FALSE, "base", 0, Inf, Nil,
           {<<LowOf(tree, FirstOf(tree, j)), InnerId(tree, j)>> : j \in 1 .. Q})
    BY <1>15, <2>1, <2>2
  <2>4. \A j \in 1 .. Q : LowOf(tree, FirstOf(tree, j)) = low[first[j]] /\ InnerId(tree, j) = InId(P, j)
    <3>1. SUFFICES ASSUME NEW j \in 1 .. Q
                   PROVE LowOf(tree, FirstOf(tree, j)) = low[first[j]] /\ InnerId(tree, j) = InId(P, j)
      OBVIOUS
    <3>2. first[j] = FirstOf(tree, j) /\ first[j] \in 1 .. P + 1
      BY <1>7, <1>8
    <3> QED BY <1>6, <1>13, <3>2
  <2>5. {<<LowOf(tree, FirstOf(tree, j)), InnerId(tree, j)>> : j \in 1 .. Q}
         = {<<low[first[j]], InId(P, j)>> : j \in 1 .. Q}
    BY <2>4
  <2> DEFINE s == {<<low[first[j]], InId(P, j)>> : j \in 1 .. Q}
             n == T[P + Q + 1]
  <2>6. n = Node(FALSE, "base", 0, Inf, Nil, s)
    BY <2>3, <2>5
  <2> HIDE DEF s, n
  <2>7. /\ IsNode(n) /\ n.leaf = FALSE /\ n.type = "base"
        /\ n.low = 0 /\ n.high = Inf /\ n.next = Nil /\ n.items = s
    BY <2>6 DEF Node, IsNode
  <2>8. n.leaf \in BOOLEAN /\ ~n.leaf
    BY <2>7
  <2> QED BY <2>7, <2>8 DEF s, n
<1>17. ASSUME NEW id \in Ids
       PROVE  \/ \E i \in 1 .. P : id = i + 1
              \/ \E j \in 1 .. Q : id = InId(P, j)
              \/ Q # 1 /\ id = P + Q + 1
              \/ T[id] = None
  <2>1. CASE id \in 2 .. P + 1
    <3>1. id - 1 \in 1 .. P /\ id = (id - 1) + 1
      BY <1>1, <2>1
    <3> QED BY <3>1
  <2>2. CASE \E j \in 1 .. Q : id = InId(P, j)
    BY <2>2
  <2>3. CASE id \notin 2 .. P + 1 /\ ~\E j \in 1 .. Q : id = InId(P, j)
    <3>1. Q = 1 => id # 1
      <4>1. ASSUME Q = 1 PROVE 1 \in 1 .. Q /\ InId(P, 1) = 1
        BY <4>1 DEF InId
      <4> QED BY <2>3, <4>1
    <3>2. id = Top(tree) => Q # 1 /\ id = P + Q + 1
      BY <1>4, <3>1
    <3>3. id # Top(tree) => T[id] = None
      BY <1>15, <2>3
    <3> QED BY <3>2, <3>3
  <2> QED BY <2>1, <2>2, <2>3
<1>18. T = [id \in Ids |-> T[id]]
  OBVIOUS
<1> HIDE DEF InitTable
<1> QED BY <1>1, <1>2, <1>4, <1>6, <1>8, <1>9, <1>10, <1>11, <1>12, <1>14, <1>16, <1>17, <1>18 DEF Grown

(* The invariant holds at first.                                            *)
LEMMA InitInv == Init => Inv
<1> SUFFICES ASSUME Init PROVE Inv
  OBVIOUS
<1>1. PICK tree \in Trees :
        /\ root = Top(tree) /\ table = [id \in Ids |-> InitTable(tree, id)]
        /\ unused = {id \in Ids : InitTable(tree, id) = None}
  BY DEF Init
<1>2. WellFormed(tree)
  BY TreesAssumption
<1> DEFINE P == Len(tree.pages)
           Q == Len(tree.parents)
           low == [i \in 1 .. P + 1 |-> LowOf(tree, i)]
           first == [j \in 1 .. Q + 1 |-> FirstOf(tree, j)]
           z == [i \in Ids |-> Nil]
           l == [i \in Ids |-> IF i \in 2 .. P + 1 THEN 0 ELSE IF i = P + Q + 1 THEN 2 ELSE 1]
<1>3. Grown(table, P, Q, low, first) /\ root = IF Q = 1 THEN 1 ELSE P + Q + 1
  BY <1>1, <1>2, Layout
<1> HIDE DEF P, Q, low, first
<1>4. Struct(table, {}, z, l, root)
  BY <1>3, GrownStruct
<1>5. /\ \A id \in Ids : table[id] # None => table[id].type \in {"base", "delta"}
      /\ None.type = "none"
  <2>1. None.type = "none"
    BY DEF None, Node
  <2>2. ASSUME NEW id \in Ids, table[id] # None PROVE table[id].type \in {"base", "delta"}
    <3>1. CASE \E i \in 1 .. P : id = i + 1
      <4>1. PICK i \in 1 .. P : id = i + 1
        BY <3>1
      <4>2. table[i + 1].type = "base"
        BY <1>3 DEF Grown
      <4> QED BY <4>1, <4>2
    <3>2. CASE \E j \in 1 .. Q : id = InId(P, j)
      BY <1>3, <3>2 DEF Grown
    <3>3. CASE Q # 1 /\ id = P + Q + 1
      BY <1>3, <3>3 DEF Grown
    <3>4. \/ \E i \in 1 .. P : id = i + 1
          \/ \E j \in 1 .. Q : id = InId(P, j)
          \/ Q # 1 /\ id = P + Q + 1
      BY <1>3, <2>2 DEF Grown
    <3> QED BY <3>1, <3>2, <3>3, <3>4
  <2> QED BY <2>1, <2>2
<1> HIDE DEF z, l
<1>6. /\ retired = {} /\ pc = [t \in Threads |-> "out"] /\ cur = [t \in Threads |-> NoSnapshot]
      /\ par = [t \in Threads |-> NoSnapshot] /\ removed = [t \in Threads |-> <<>>]
      /\ go = [t \in Threads |-> Nil] /\ call = [t \in Threads |-> Idle(FALSE)]
  BY DEF Init
<1>7. ASSUME NEW t \in Threads PROVE ThreadOK(table, retired, z, l, t, View(t))
  <2> DEFINE w == View(t)
  <2>1. /\ w.pc = "out" /\ w.cur = NoSnapshot /\ w.par = NoSnapshot /\ w.removed = <<>> /\ w.go = Nil
        /\ w.call = Idle(FALSE)
    BY <1>6 DEF View
  <2> HIDE DEF w
  <2>2. w.call.op = "none"
    BY <2>1 DEF Idle
  <2>3. ~Walks(w)
    BY <2>1 DEF Walks
  <2>4. Placed(w)
    BY <2>1, <2>2, <2>3 DEF Placed, Stages, Gets
  <2>5. SnapOK(table, NoSnapshot)
    BY DEF SnapOK, NoSnapshot
  <2>6. GoOK(table, retired, t, w)
    BY <2>1 DEF GoOK
  <2>7. ThreadOK(table, retired, z, l, t, w)
    BY <2>1, <2>3, <2>4, <2>5, <2>6 DEF ThreadOK
  <2> QED BY <2>7 DEF w
<1>8. Owners
  <2>1. \A t \in Threads, id \in Ids : ~Owns(t, id)
    BY <1>6 DEF Owns
  <2>2. \A id \in Ids : table[id].type # "abort"
    BY <1>5
  <2> QED BY <2>1, <2>2 DEF Owners
<1>9. Free
  <2>1. \A id \in Ids : InitTable(tree, id) = None <=> table[id].type = "none"
    <3>1. \A id \in Ids : InitTable(tree, id) = table[id]
      BY <1>1
    <3> QED BY <1>5, <3>1
  <2> QED BY <1>1, <1>6, <2>1 DEF Free
<1>10. Shapes
  BY <1>6 DEF Shapes
<1> QED BY <1>4, <1>6, <1>7, <1>8, <1>9, <1>10 DEF Inv, InvOf

(* It holds where nothing moves.                                            *)
LEMMA Unmoved ==
  ASSUME Inv, UNCHANGED <<treeVars, threadVars, call>>
  PROVE  Inv'
<1>1. PICK z, l : InvOf(z, l)
  BY DEF Inv
<1>2. /\ table' = table /\ root' = root /\ unused' = unused /\ retired' = retired /\ pc' = pc
      /\ cur' = cur /\ par' = par /\ removed' = removed /\ go' = go /\ call' = call
  BY DEF treeVars, threadVars
<1>3. \A t \in Threads : View(t)' = View(t)
  BY <1>2 DEF View
<1>4. Owners' /\ Free' /\ Shapes'
  <2>1. Owners /\ Free /\ Shapes
    BY <1>1 DEF InvOf
  <2> QED BY <1>2, <2>1 DEF Owners, Owns, Free, Inside, Shapes
<1>5. Struct(table', retired', z, l, root')
  BY <1>1, <1>2 DEF InvOf
<1>6. \A t \in Threads : ThreadOK(table', retired', z, l, t, View(t)')
  BY <1>1, <1>2, <1>3 DEF InvOf
<1> QED BY <1>4, <1>5, <1>6 DEF Inv, InvOf

(* It is kept by every step, under the claim of FinishPartialSMO.           *)
LEMMA StepInv ==
  ASSUME Inv, Next, SplitInserted
  PROVE  Inv'
<1>1. PICK z, l : InvOf(z, l)
  BY DEF Inv
<1>2. CASE InvalidateNodeID
  BY <1>1, <1>2, InvalidateStep
<1>3. CASE AllReturned
  BY <1>3, Unmoved DEF AllReturned
<1>4. ASSUME NEW t \in Threads, Step(t) PROVE Inv'
  <2>1. CASE Call(t)
    BY <1>1, <2>1, CallStep
  <2>2. CASE ReadRoot(t)
    BY <1>1, <2>2, ReadRootStep
  <2>3. CASE LoadRoot(t)
    BY <1>1, <2>3, LoadRootStep
  <2>4. CASE JumpToNodeID(t)
    BY <1>1, <2>4, JumpStep
  <2>5. CASE JumpToLeftSibling(t)
    BY <1>1, <2>5, JumpToLeftStep
  <2>6. CASE PostMergeNode(t)
    BY <1>1, <2>6, PostMergeStep
  <2>7. CASE FinishMerge(t)
    BY <1>1, <2>7, FinishMergeStep
  <2>8. CASE SplitRoot(t)
    BY <1>1, <2>8, SplitRootStep
  <2>9. CASE FinishSplit(t)
    BY <1>1, <2>9, FinishSplitStep
  <2>10. CASE ConsolidateNode(t)
    BY <1>1, <2>10, ConsolidateStep
  <2>11. CASE CheckSplitChild(t)
    BY <1>1, <2>11, CheckSplitChildStep
  <2>12. CASE SplitNode(t)
    BY <1>1, <2>12, SplitNodeStep
  <2>13. CASE PostAbortOnParent(t)
    BY <1>1, <2>13, PostAbortStep
  <2>14. CASE PostRemoveNode(t)
    BY <1>1, <2>14, PostRemoveStep
  <2>15. CASE RemoveAbortOnParent(t)
    BY <1>1, <2>15, RemoveAbortStep
  <2>16. CASE GoRight(t)
    BY <1>1, <2>16, GoRightStep
  <2>17. CASE GoDown(t)
    BY <1>1, <2>17, GoDownStep
  <2>18. CASE Answer(t)
    BY <1>1, <2>18, AnswerStep
  <2>19. CASE PostData(t)
    BY <1>1, <2>19, PostDataStep
  <2> QED BY <1>4, <2>1, <2>2, <2>3, <2>4, <2>5, <2>6, <2>7, <2>8, <2>9, <2>10, <2>11, <2>12,
             <2>13, <2>14, <2>15, <2>16, <2>17, <2>18, <2>19 DEF Step
<1> QED BY <1>2, <1>3, <1>4 DEF Next

(* The tree keeps its shape, and every thread what it relies on, as long as *)
(* no thread passes a split record whose separator is not in the tree       *)
(* (FinishPartialSMO).                                                      *)
THEOREM ShapeKept == Spec /\ SplitsInserted => []Inv
<1>1. Inv /\ [Next]_vars /\ [SplitInserted]_vars => Inv'
  <2>1. ASSUME Inv, Next, SplitInserted PROVE Inv'
    BY <2>1, StepInv
  <2>2. ASSUME Inv, vars' = vars PROVE Inv'
    BY <2>2, Unmoved DEF vars
  <2> QED BY <2>1, <2>2
<1> QED BY <1>1, InitInv, PTL DEF Spec, SplitsInserted
-----------------------------------------------------------------------------
(* What the invariant says of the properties *)

(* An entry shows the fields of the node behind it.                         *)
LEMMA LiveFields ==
  ASSUME NEW T, Entries(T), NEW i \in Ids
  PROVE  /\ T[i].leaf = N(T, i).leaf /\ T[i].low = N(T, i).low /\ T[i].high = N(T, i).high
         /\ T[i].next = N(T, i).next /\ T[i].items = N(T, i).items
<1>1. CASE T[i].type \in {"remove", "abort"}
  <2>1. T[i] = Cover(N(T, i), T[i].type) /\ Whole(N(T, i))
    BY <1>1, Alloc
  <2> DEFINE n == N(T, i)
             m == T[i]
             ty == T[i].type
  <2>2. m = Cover(n, ty) /\ IsNode(n)
    BY <2>1 DEF Whole
  <2> HIDE DEF n, m, ty
  <2>3. m.leaf = n.leaf /\ m.low = n.low /\ m.high = n.high /\ m.next = n.next /\ m.items = n.items
    BY <2>2 DEF Cover, IsNode
  <2> QED BY <2>3 DEF n, m
<1>2. CASE T[i].type \notin {"remove", "abort"}
  BY <1>2 DEF N, Live
<1> QED BY <1>1, <1>2

(* A whole node has the fields of a node.                                   *)
LEMMA WholeType ==
  ASSUME NEW n, Whole(n)
  PROVE  /\ n.low \in 0 .. Inf /\ n.high \in 0 .. Inf /\ n.next \in {Nil} \cup Ids
         /\ IF n.leaf THEN n.items \subseteq Keys ELSE n.items \subseteq (0 .. Inf) \X Ids
<1>1. /\ n.low \in Nat /\ n.high \in Nat /\ n.low < n.high /\ n.high <= Inf /\ Inf \in Nat
      /\ n.next \in {Nil} \cup Ids
  BY SizeAssumption DEF Whole, Inf
<1>2. n.low \in 0 .. Inf /\ n.high \in 0 .. Inf
  BY <1>1
<1>3. n.leaf => n.items \subseteq Keys
  BY DEF Whole
<1>4. ASSUME ~n.leaf, NEW s \in n.items PROVE s \in (0 .. Inf) \X Ids
  <2>1. s = <<s[1], s[2]>> /\ s[1] \in Nat /\ s[2] \in Ids /\ s[1] < n.high
    BY <1>4 DEF Whole, InnerOK
  <2>2. s[1] \in 0 .. Inf
    BY <1>1, <2>1
  <2> QED BY <2>1, <2>2
<1> QED BY <1>1, <1>2, <1>3, <1>4

(* An entry has the fields of a node.                                       *)
LEMMA EntryType ==
  ASSUME NEW n, Entry(n)
  PROVE  NodeOK(n)
<1>1. CASE n.type = "none"
  <2>1. n = None
    BY <1>1 DEF Entry, Whole, Plain
  <2>2. /\ None.type = "none" /\ None.low = 0 /\ None.high = 0 /\ None.next = Nil /\ None.leaf
        /\ None.items = {}
    BY DEF None, Node
  <2>3. 0 \in 0 .. Inf
    BY SizeAssumption DEF Inf
  <2> QED BY <2>1, <2>2, <2>3 DEF NodeOK
<1>2. CASE n.type # "none"
  <2>1. /\ Whole(Live(n)) /\ n.type \in Plain \cup {"remove", "abort"}
        /\ n.type \in {"remove", "abort"} => n = Cover(Live(n), n.type)
        /\ n.type \in Plain => Live(n) = n
    BY <1>2, EntryFacts
  <2> DEFINE m == Live(n)
             ty == n.type
  <2>2. /\ m.low \in 0 .. Inf /\ m.high \in 0 .. Inf /\ m.next \in {Nil} \cup Ids
        /\ IF m.leaf THEN m.items \subseteq Keys ELSE m.items \subseteq (0 .. Inf) \X Ids
    BY <2>1, WholeType
  <2>3. n.leaf = m.leaf /\ n.low = m.low /\ n.high = m.high /\ n.next = m.next /\ n.items = m.items
    <3>1. CASE n.type \in Plain
      BY <2>1, <3>1
    <3>2. CASE n.type \in {"remove", "abort"}
      <4>1. n = Cover(m, ty) /\ IsNode(m)
        BY <2>1, <3>2 DEF Whole
      <4> HIDE DEF m, ty
      <4> QED BY <4>1 DEF Cover, IsNode
    <3> QED BY <2>1, <3>1, <3>2
  <2>4. n.type \in {"none", "base", "delta", "split", "merge", "remove", "abort"}
    BY <2>1 DEF Plain
  <2> HIDE DEF m
  <2> QED BY <2>2, <2>3, <2>4 DEF NodeOK
<1> QED BY <1>1, <1>2

(* The invariant gives the types.                                           *)
LEMMA TypeFollows == Inv => TypeOK
<1> SUFFICES ASSUME Inv PROVE TypeOK
  OBVIOUS
<1>1. PICK z, l : InvOf(z, l)
  BY DEF Inv
<1>2. Struct(table, retired, z, l, root) /\ Entries(table)
  BY <1>1 DEF InvOf, Struct
<1>3. root \in Ids
  BY <1>2 DEF Struct, Ends, InC, InT
<1>4. unused \subseteq Ids
  BY <1>1 DEF InvOf, Free
<1>5. \A id \in Ids : NodeOK(table[id])
  BY <1>2, EntryType DEF Entries
<1>6. NodeOK(None)
  BY EntryType DEF Entry
<1>7. ASSUME NEW t \in Threads
      PROVE  NodeOK(cur[t].node) /\ NodeOK(par[t].node) /\ go[t] \in {Nil} \cup Ids
  <2> DEFINE w == View(t)
  <2>1. ThreadOK(table, retired, z, l, t, w)
    BY <1>1 DEF InvOf
  <2>2. w.cur = cur[t] /\ w.par = par[t] /\ w.go = go[t]
    BY DEF View
  <2> HIDE DEF w
  <2>3. w.go \in {Nil} \cup Ids
    BY <2>1 DEF ThreadOK, GoOK, Guarded
  <2>4. CASE ~Walks(w)
    <3>1. w.cur = NoSnapshot /\ w.par = NoSnapshot
      BY <2>1, <2>4 DEF ThreadOK, Placed
    <3>2. NoSnapshot.node = None
      BY DEF NoSnapshot
    <3> QED BY <1>6, <2>2, <2>3, <3>1, <3>2
  <2>5. CASE Walks(w)
    <3>1. Entry(w.cur.node)
      BY <2>1, <2>5 DEF ThreadOK, CurOK
    <3>2. Entry(w.par.node)
      <4>1. CASE w.par.id = Nil
        BY <2>1, <2>5, <4>1 DEF ThreadOK, ParOK, NoSnapshot, Entry
      <4>2. CASE w.par.id # Nil
        BY <2>1, <2>5, <4>2 DEF ThreadOK, ParOK, Entry
      <4> QED BY <4>1, <4>2
    <3> QED BY <2>2, <2>3, <3>1, <3>2, EntryType
  <2> QED BY <2>4, <2>5
<1> QED BY <1>3, <1>4, <1>5, <1>7 DEF TypeOK

(* InTree leaves out what is retired; what may be handed out counts as a    *)
(* leaf.                                                                    *)
LEMMA InTreeIs ==
  ASSUME Entries(table), NEW id \in InTree, ~table[id].leaf
  PROVE  id \in Ids /\ InT(table, retired, id) /\ ~N(table, id).leaf
<1>1. id \in Ids /\ \A r \in retired : r.id # id
  BY DEF InTree
<1>2. table[id].type = "none" => table[id] = None
  BY <1>1 DEF Entries, Entry, Whole, Plain
<1>3. None.leaf
  BY DEF None, Node
<1> QED BY <1>1, <1>2, <1>3, LiveFields DEF InT

(* It has no removed node first in its parent.                              *)
LEMMA LeftmostFollows == Inv => RemovedNotLeftmost
<1> SUFFICES ASSUME Inv, NEW id \in InTree, ~table[id].leaf
             PROVE  table[LowChild(Live(table[id]))].type # "remove"
  BY DEF RemovedNotLeftmost
<1>1. PICK z, l : InvOf(z, l)
  BY DEF Inv
<1>2. Entries(table) /\ LowChildren(table, retired)
  BY <1>1 DEF InvOf, Struct
<1>3. id \in Ids /\ InT(table, retired, id) /\ ~N(table, id).leaf
  BY <1>2, InTreeIs
<1> QED BY <1>2, <1>3 DEF LowChildren, N

(* The separators are those of the inner nodes in the tree.                 *)
LEMMA SeparatorsAre ==
  ASSUME NEW z, NEW l, InvOf(z, l), NEW s
  PROVE  s \in Separators <=>
           \E id \in Ids : InT(table, retired, id) /\ ~N(table, id).leaf /\ s \in N(table, id).items
<1>1. Entries(table)
  BY DEF InvOf, Struct
<1>2. ASSUME s \in Separators
      PROVE  \E id \in Ids : InT(table, retired, id) /\ ~N(table, id).leaf /\ s \in N(table, id).items
  <2>1. PICK id \in InTree : ~table[id].leaf /\ s \in table[id].items
    BY <1>2 DEF Separators
  <2>2. id \in Ids /\ InT(table, retired, id) /\ ~N(table, id).leaf
    BY <1>1, <2>1, InTreeIs
  <2> QED BY <1>1, <2>1, <2>2, LiveFields
<1>3. ASSUME NEW id \in Ids, InT(table, retired, id), ~N(table, id).leaf, s \in N(table, id).items
      PROVE  s \in Separators
  <2>1. id \in InTree
    BY <1>3 DEF InT, InTree
  <2>2. ~table[id].leaf /\ s \in table[id].items
    BY <1>1, <1>3, LiveFields
  <2> QED BY <2>1, <2>2 DEF Separators
<1> QED BY <1>2, <1>3

(* It has every separator lead to its node.                                 *)
LEMMA SeparatorsFollow == Inv => SeparatorsResolve
<1> SUFFICES ASSUME Inv PROVE SeparatorsResolve
  OBVIOUS
<1>1. PICK z, l : InvOf(z, l)
  BY DEF Inv
<1>2. Entries(table) /\ Targets(table, retired, l)
  BY <1>1 DEF InvOf, Struct
<1>3. ASSUME NEW s \in Separators PROVE s[2] \in InTree /\ Live(table[s[2]]).low = s[1]
  <2>1. PICK id \in Ids : InT(table, retired, id) /\ ~N(table, id).leaf /\ s \in N(table, id).items
    BY <1>1, SeparatorsAre
  <2>2. InT(table, retired, s[2]) /\ N(table, s[2]).low = s[1]
    BY <1>2, <2>1 DEF Targets
  <2> QED BY <2>2 DEF InT, InTree, N
<1>4. ASSUME NEW id \in InTree, ~table[id].leaf, NEW s \in table[id].items
      PROVE  table[id].low <= s[1] /\ s[1] < table[id].high
  <2>1. id \in Ids /\ InT(table, retired, id) /\ ~N(table, id).leaf
    BY <1>2, <1>4, InTreeIs
  <2>2. Whole(N(table, id))
    BY <1>2, <2>1, Alloc DEF InT
  <2>3. s \in N(table, id).items
    BY <1>2, <1>4, <2>1, LiveFields
  <2>4. N(table, id).low <= s[1] /\ s[1] < N(table, id).high
    BY <2>1, <2>2, <2>3 DEF Whole, InnerOK
  <2> QED BY <1>2, <2>1, <2>4, LiveFields
<1> QED BY <1>3, <1>4 DEF SeparatorsResolve

(* Whatever a node refers to was not given back.                            *)
LEMMA RefsKept ==
  ASSUME NEW T, NEW R, NEW l, NEW t, NEW n, NEW v, NodeRefs(T, R, l, t, n, v)
  PROVE  /\ n.next # Nil => n.next \in Ids /\ T[n.next].type # "none"
         /\ ~n.leaf => \A s \in n.items : s[2] \in Ids /\ T[s[2]].type # "none"
BY DEF NodeRefs, Ref, Guarded

(* It has no thread follow a NodeID that was given back.                    *)
LEMMA DanglingFollows == Inv => NoDanglingId
<1> SUFFICES ASSUME Inv, NEW t \in Threads PROVE Followed(t) \cap unused = {}
  BY DEF NoDanglingId
<1>1. PICK z, l : InvOf(z, l)
  BY DEF Inv
<1> DEFINE w == View(t)
<1>2. ThreadOK(table, retired, z, l, t, w)
  BY <1>1 DEF InvOf
<1>3. w.cur = cur[t] /\ w.par = par[t] /\ w.go = go[t]
  BY DEF View
<1>4. unused = {i \in Ids : table[i].type = "none"}
  BY <1>1 DEF InvOf, Free
<1> HIDE DEF w
<1>5. Nil \notin unused
  BY <1>4, IdsNotNil
<1>6. go[t] \notin unused
  BY <1>2, <1>3, <1>4, <1>5 DEF ThreadOK, GoOK, Guarded
<1>7. None.next = Nil /\ None.leaf
  BY DEF None, Node
<1>8. cur[t].node.next \notin unused /\ (~cur[t].node.leaf => \A s \in cur[t].node.items : s[2] \notin unused)
  <2>1. CASE ~Walks(w)
    <3>1. w.cur = NoSnapshot
      BY <1>2, <2>1 DEF ThreadOK, Placed
    <3> QED BY <1>3, <1>5, <1>7, <3>1 DEF NoSnapshot
  <2>2. CASE Walks(w)
    <3>1. PICK v \in Nat : NodeRefs(table, retired, l, t, w.cur.node, v)
      BY <1>2, <2>2 DEF ThreadOK, CurOK
    <3>2. /\ w.cur.node.next # Nil => w.cur.node.next \in Ids /\ table[w.cur.node.next].type # "none"
          /\ ~w.cur.node.leaf => \A s \in w.cur.node.items : s[2] \in Ids /\ table[s[2]].type # "none"
      BY <3>1, RefsKept
    <3> QED BY <1>3, <1>4, <1>5, <3>2
  <2> QED BY <2>1, <2>2
<1>9. ~par[t].node.leaf => \A s \in par[t].node.items : s[2] \notin unused
  <2>1. CASE w.par = NoSnapshot
    BY <1>3, <1>7, <2>1 DEF NoSnapshot
  <2>2. CASE w.par # NoSnapshot
    <3>1. Walks(w)
      BY <1>2, <2>2 DEF ThreadOK, Placed
    <3>2. NodeRefs(table, retired, l, t, w.par.node, l[w.par.id])
      BY <1>2, <2>2, <3>1 DEF ThreadOK, ParOK
    <3>3. ~w.par.node.leaf => \A s \in w.par.node.items : s[2] \in Ids /\ table[s[2]].type # "none"
      BY <3>2, RefsKept
    <3> QED BY <1>3, <1>4, <3>3
  <2> QED BY <2>1, <2>2
<1> QED BY <1>6, <1>8, <1>9 DEF Followed

(* The walk over the leaves, which LeafIds is defined by.                   *)
Run(next, f, n) == f = [i \in 0 .. n |-> IF i = 0 THEN FirstLeaf ELSE next[f[i - 1]]]

(* A walk of m steps along next exists.                                     *)
LEMMA RunExists ==
  ASSUME NEW next, NEW m \in Nat
  PROVE  \E f : Run(next, f, m)
<1> DEFINE Bad == {n \in Nat : ~\E f : Run(next, f, n)}
<1> SUFFICES ASSUME Bad # {} PROVE FALSE
  OBVIOUS
<1>1. PICK n \in Bad : \A k \in Bad : n <= k
  <2>1. Bad \in SUBSET Nat
    OBVIOUS
  <2> HIDE DEF Bad
  <2> QED BY <2>1, LeastOf
<1>2. CASE n = 0
  <2>1. Run(next, [i \in 0 .. 0 |-> FirstLeaf], 0)
    BY DEF Run
  <2> QED BY <1>1, <1>2, <2>1
<1>3. CASE n # 0
  <2>1. n - 1 \in Nat /\ n - 1 \notin Bad
    BY <1>1, <1>3
  <2>2. PICK f : Run(next, f, n - 1)
    BY <2>1
  <2> DEFINE g == [i \in 0 .. n |-> IF i = 0 THEN FirstLeaf ELSE next[f[i - 1]]]
  <2>3. \A i \in 0 .. n - 1 : g[i] = f[i]
    BY <2>1, <2>2 DEF Run
  <2>4. \A i \in 0 .. n : i # 0 => i - 1 \in 0 .. n - 1
    BY <2>1
  <2>5. Run(next, g, n)
    BY <2>3, <2>4 DEF Run
  <2> QED BY <1>1, <2>5
<1> QED BY <1>2, <1>3

(* The leaves are those of a walk along next, of as many steps as there are *)
(* NodeIDs.                                                                 *)
LEMMA LeavesRun ==
  \E next, f : /\ next = [id \in Ids \cup {Nil} |-> IF id = Nil THEN Nil ELSE Live(table[id]).next]
               /\ Run(next, f, NumIds) /\ LeafIds = {f[i] : i \in 0 .. NumIds} \ {Nil}
<1> DEFINE next == [id \in Ids \cup {Nil} |-> IF id = Nil THEN Nil ELSE Live(table[id]).next]
           w == CHOOSE at : at = [i \in 0 .. NumIds |-> IF i = 0 THEN FirstLeaf ELSE next[at[i - 1]]]
<1>1. LeafIds = {w[i] : i \in 0 .. NumIds} \ {Nil}
  BY Zenon DEF LeafIds
<1> HIDE DEF next
<1>2. \E f : Run(next, f, NumIds)
  BY RunExists, SizeAssumption
<1>3. Run(next, w, NumIds)
  BY <1>2, Zenon DEF Run
<1> HIDE DEF w
<1> QED BY <1>1, <1>3 DEF next

(* A set that has the first leaf and is closed under next has them all, and *)
(* if the low keys rise along next the walk is long enough to close it.     *)
LEMMA LeavesLeast ==
  ASSUME NEW S, S \subseteq Ids, FirstLeaf \in S,
         \A i \in S : N(table, i).next # Nil => N(table, i).next \in S
  PROVE  LeafIds \subseteq S /\ FirstLeaf \in LeafIds
<1>1. PICK next, f :
        /\ next = [id \in Ids \cup {Nil} |-> IF id = Nil THEN Nil ELSE Live(table[id]).next]
        /\ Run(next, f, NumIds) /\ LeafIds = {f[i] : i \in 0 .. NumIds} \ {Nil}
  BY LeavesRun
<1>2. /\ \A i \in S : next[i] \in S \cup {Nil}
      /\ next[Nil] = Nil
  BY <1>1 DEF N
<1>3. NumIds \in Nat
  BY SizeAssumption
<1>4. f[0] = FirstLeaf /\ \A i \in 0 .. NumIds : i # 0 => f[i] = next[f[i - 1]]
  <2>1. f = [i \in 0 .. NumIds |-> IF i = 0 THEN FirstLeaf ELSE next[f[i - 1]]]
    BY <1>1 DEF Run
  <2>2. 0 \in 0 .. NumIds
    BY <1>3
  <2>3. f[0] = FirstLeaf
    BY ONLY <2>1, <2>2
  <2>4. ASSUME NEW i \in 0 .. NumIds, i # 0 PROVE f[i] = next[f[i - 1]]
    BY ONLY <2>1, <2>4
  <2> QED BY <2>3, <2>4
<1> DEFINE Bad == {i \in 0 .. NumIds : f[i] \notin S \cup {Nil}}
<1>5. Bad = {}
  <2> SUFFICES ASSUME Bad # {} PROVE FALSE
    OBVIOUS
  <2>1. PICK i \in Bad : \A j \in Bad : i <= j
    <3>1. Bad \in SUBSET Nat
      BY <1>3
    <3> HIDE DEF Bad
    <3> QED BY <3>1, LeastOf
  <2>2. i # 0
    BY <1>4, <2>1
  <2>3. i - 1 \in 0 .. NumIds /\ i - 1 \notin Bad
    BY <1>3, <2>1, <2>2
  <2>4. f[i - 1] \in S \cup {Nil} /\ f[i] = next[f[i - 1]]
    BY <1>4, <2>1, <2>2, <2>3
  <2> QED BY <1>2, <2>1, <2>4
<1>6. LeafIds \subseteq S
  BY <1>1, <1>5
<1>7. FirstLeaf \in LeafIds
  BY <1>1, <1>3, <1>4, IdsNotNil
<1> QED BY <1>6, <1>7

(* The leaves along next are in the tree, at level 0.                       *)
LEMMA LeavesInTree ==
  ASSUME NEW z, NEW l, InvOf(z, l)
  PROVE  /\ LeafIds \subseteq {i \in Ids : InC(table, retired, z, i) /\ l[i] = 0}
         /\ FirstLeaf \in LeafIds
<1> DEFINE S == {i \in Ids : InC(table, retired, z, i) /\ l[i] = 0}
<1>1. Struct(table, retired, z, l, root)
  BY DEF InvOf
<1>2. S \subseteq Ids /\ FirstLeaf \in S
  BY <1>1 DEF Struct, Ends, InC, InT
<1>3. ASSUME NEW i \in S, N(table, i).next # Nil PROVE N(table, i).next \in S
  <2>1. i \in Ids /\ InT(table, retired, i) /\ l[i] = 0
    BY <1>3 DEF InC
  <2>2. InC(table, retired, z, N(table, i).next) /\ l[N(table, i).next] = l[i]
    BY <1>1, <1>3, <2>1 DEF Struct, Links
  <2> QED BY <2>1, <2>2 DEF InC, InT
<1> HIDE DEF S
<1>4. LeafIds \subseteq S /\ FirstLeaf \in LeafIds
  BY <1>2, <1>3, LeavesLeast
<1> QED BY <1>4 DEF S

(* The invariant has the leaves share out the keys.                         *)
LEMMA PartitionFollows == Inv => LeavesPartition
<1> SUFFICES ASSUME Inv PROVE LeavesPartition
  OBVIOUS
<1>1. PICK z, l : InvOf(z, l)
  BY DEF Inv
<1>2. Struct(table, retired, z, l, root) /\ Entries(table)
  BY <1>1 DEF InvOf, Struct
<1>3. table[FirstLeaf].low = 0
  <2>1. FirstLeaf \in Ids /\ N(table, FirstLeaf).low = 0
    BY <1>2 DEF Struct, Ends, InC, InT
  <2> QED BY <1>2, <2>1, LiveFields
<1>4. ASSUME NEW id \in LeafIds
      PROVE  LET n == Live(table[id])
             IN /\ \A k \in n.items : n.low <= k /\ k < n.high
                /\ IF n.next = Nil THEN n.high = Inf ELSE n.high = Live(table[n.next]).low
  <2>1. id \in Ids /\ InT(table, retired, id) /\ l[id] = 0
    BY <1>1, LeavesInTree DEF InC
  <2>2. N(table, id).leaf
    BY <1>2, <2>1 DEF Struct, Levels
  <2>3. Whole(N(table, id))
    BY <1>2, <2>1, Alloc DEF InT
  <2>4. /\ \A k \in N(table, id).items : N(table, id).low <= k /\ k < N(table, id).high
        /\ N(table, id).next = Nil => N(table, id).high = Inf
    BY <2>2, <2>3 DEF Whole
  <2>5. N(table, id).next # Nil => N(table, N(table, id).next).low = N(table, id).high
    BY <1>2, <2>1 DEF Struct, Links
  <2> QED BY <2>4, <2>5 DEF N
<1> QED BY <1>3, <1>4 DEF LeavesPartition

(* It has no leaf without separator but right of a split record.            *)
LEMMA OrphansFollow == Inv => NoOrphanNode
<1> SUFFICES ASSUME Inv, NEW id \in LeafIds, Live(table[id]).next # Nil, Live(table[id]).type # "split"
             PROVE  <<Live(table[id]).high, Live(table[id]).next>> \in Separators
  BY DEF NoOrphanNode
<1>1. PICK z, l : InvOf(z, l)
  BY DEF Inv
<1>2. Struct(table, retired, z, l, root)
  BY <1>1 DEF InvOf
<1> DEFINE r == N(table, id).next
<1>3. id \in Ids /\ InC(table, retired, z, id) /\ InT(table, retired, id)
  BY <1>1, LeavesInTree DEF InC
<1>4. r # Nil /\ N(table, id).type # "split"
  BY DEF N
<1>5. Sepd(table, retired, z, l, r)
  BY <1>2, <1>3, <1>4 DEF Struct, Seps
<1>6. InC(table, retired, z, r) /\ N(table, r).low = N(table, id).high
  BY <1>2, <1>3, <1>4 DEF Struct, Links
<1> HIDE DEF r
<1>7. PICK p \in Ids : InC(table, retired, z, p) /\ l[p] = l[r] + 1 /\ <<N(table, r).low, r>> \in N(table, p).items
  BY <1>5, <1>6 DEF Sepd, HasSep
<1>8. InT(table, retired, p) /\ ~N(table, p).leaf
  <2>1. InT(table, retired, p)
    BY <1>7 DEF InC
  <2>2. l[r] \in Nat
    BY <1>2, <1>6 DEF Struct, Levels, InC, InT
  <2>3. N(table, p).leaf <=> l[p] = 0
    BY <1>2, <1>7, <2>1 DEF Struct, Levels
  <2> QED BY <1>7, <2>1, <2>2, <2>3
<1>9. <<N(table, r).low, r>> \in Separators
  BY <1>1, <1>7, <1>8, SeparatorsAre
<1> QED BY <1>6, <1>9 DEF N, r

(* A step moves no thread but its own.                                      *)
LEMMA OnlyMine ==
  ASSUME Shapes, NEW u \in Threads, Step(u), NEW t \in Threads, t # u
  PROVE  pc'[t] = pc[t]
<1> USE DEF Shapes, To
<1>1. \A stage : To(u, stage) => pc'[t] = pc[t]
  OBVIOUS
<1>2. (Retry(u) => pc'[t] = pc[t]) /\ (Leave(u) => pc'[t] = pc[t])
  BY DEF Retry, Leave
<1>3. \A id : TakeNodeSnapshot(u, id) => pc'[t] = pc[t]
  BY DEF TakeNodeSnapshot
<1>4. \A id : UpdateNodeSnapshot(u, id) => pc'[t] = pc[t]
  BY DEF UpdateNodeSnapshot
<1>5. \A id : LoadNodeIDReadOptimized(u, id) => pc'[t] = pc[t]
  BY <1>2 DEF LoadNodeIDReadOptimized
<1>6. /\ Call(u) => pc'[t] = pc[t]
      /\ ReadRoot(u) => pc'[t] = pc[t]
      /\ LoadRoot(u) => pc'[t] = pc[t]
  BY <1>3, <1>5 DEF Call, ReadRoot, LoadRoot
<1>7. /\ JumpToNodeID(u) => pc'[t] = pc[t]
      /\ JumpToLeftSibling(u) => pc'[t] = pc[t]
      /\ PostMergeNode(u) => pc'[t] = pc[t]
  BY <1>2, <1>4 DEF JumpToNodeID, JumpToLeftSibling, PostMergeNode
<1>8. /\ FinishMerge(u) => pc'[t] = pc[t]
      /\ SplitRoot(u) => pc'[t] = pc[t]
      /\ FinishSplit(u) => pc'[t] = pc[t]
  BY <1>2 DEF FinishMerge, SplitRoot, FinishSplit
<1>9. /\ ConsolidateNode(u) => pc'[t] = pc[t]
      /\ CheckSplitChild(u) => pc'[t] = pc[t]
      /\ SplitNode(u) => pc'[t] = pc[t]
  BY DEF ConsolidateNode, CheckSplitChild, SplitNode
<1>10. /\ PostAbortOnParent(u) => pc'[t] = pc[t]
       /\ PostRemoveNode(u) => pc'[t] = pc[t]
       /\ RemoveAbortOnParent(u) => pc'[t] = pc[t]
  BY <1>2 DEF PostAbortOnParent, PostRemoveNode, RemoveAbortOnParent
<1>11. /\ GoRight(u) => pc'[t] = pc[t]
       /\ GoDown(u) => pc'[t] = pc[t]
       /\ Answer(u) => pc'[t] = pc[t]
       /\ PostData(u) => pc'[t] = pc[t]
  BY <1>2, <1>3, <1>4, <1>5 DEF GoRight, GoDown, Answer, PostData
<1> QED BY <1>6, <1>7, <1>8, <1>9, <1>10, <1>11 DEF Step

(* Only FinishMerge leaves the stage "merge".                               *)
LEMMA MergeStage ==
  ASSUME NEW t \in Threads, Step(t), pc[t] = "merge"
  PROVE  FinishMerge(t)
BY DEF Step, Call, ReadRoot, LoadRoot, JumpToNodeID, JumpToLeftSibling, PostMergeNode, SplitRoot,
       FinishSplit, ConsolidateNode, CheckSplitChild, SplitNode, PostAbortOnParent, PostRemoveNode,
       RemoveAbortOnParent, GoRight, GoDown, Answer, PostData, AtLeaf, Navigating, AtNode

(* It has a thread take off its own abort record.                           *)
LEMMA AbortFollows == Inv => AbortIsMine
<1> SUFFICES ASSUME Inv, NEW t \in Threads, pc[t] \in {"postremove", "unblock"}
             PROVE  table[par[t].id].type = "abort"
  BY DEF AbortIsMine
<1>1. PICK z, l : InvOf(z, l)
  BY DEF Inv
<1> DEFINE w == View(t)
<1>2. ThreadOK(table, retired, z, l, t, w)
  BY <1>1 DEF InvOf
<1>3. w.pc = pc[t] /\ w.par = par[t]
  BY DEF View
<1> HIDE DEF w
<1>4. Walks(w)
  BY <1>3 DEF Walks
<1>5. w.par.id # Nil /\ w.par.is = "under"
  BY <1>2, <1>3, <1>4 DEF ThreadOK, BlockOK
<1>6. Whole(w.par.node) /\ table[w.par.id] = Cover(w.par.node, "abort")
  BY <1>2, <1>4, <1>5 DEF ThreadOK, ParOK, SnapOK
<1>7. table[w.par.id].type = "abort"
  BY <1>6, CoverFields
<1> QED BY <1>3, <1>7

(* It has no NodeID retired twice.                                          *)
LEMMA RetiredFollows ==
  ASSUME Inv, Next
  PROVE  RetiredOnce
<1> SUFFICES ASSUME NEW t \in Threads, pc[t] = "merge", pc'[t] = "consolidate"
             PROVE  LET id == cur[t].node.smo[2] IN table[id].type = "remove" /\ id \in InTree \ unused
  BY DEF RetiredOnce
<1>1. PICK z, l : InvOf(z, l)
  BY DEF Inv
<1>2. pc' # pc
  OBVIOUS
<1>3. PICK u \in Threads : Step(u)
  BY <1>2 DEF Next, InvalidateNodeID, AllReturned, threadVars
<1>4. u = t
  BY <1>1, <1>3, OnlyMine DEF InvOf
<1>5. FinishMerge(t)
  BY <1>3, <1>4, MergeStage
<1> DEFINE w == View(t)
<1>6. ThreadOK(table, retired, z, l, t, w)
  BY <1>1 DEF InvOf
<1>7. w.pc = "merge" /\ w.par = par[t] /\ w.cur = cur[t]
  BY DEF View
<1>8. pc = [x \in Threads |-> pc[x]]
  BY <1>1 DEF InvOf, Shapes
<1>9. Matches(par[t]) /\ HasParent(t) /\ Separator(par[t].node, cur[t].node.smo[1]) # {}
  BY <1>5, <1>8 DEF FinishMerge, Retry, To
<1> HIDE DEF w
<1>10. Walks(w) /\ Lives(w.par)
  BY <1>7, <1>9 DEF Walks, Lives, Matches, HasParent
<1>11. PICK s \in w.par.node.items : s[1] = w.cur.node.smo[1]
  BY <1>7, <1>9 DEF Separator
<1>12. s = w.cur.node.smo /\ z[s[2]] # Nil
  BY <1>6, <1>7, <1>10, <1>11 DEF ThreadOK, MergeOK
<1>13. s[2] \in Ids
  BY <1>6, <1>10, <1>11 DEF ThreadOK, ParOK, Whole, InnerOK, Lives
<1>14. Merged(table, retired, z, l, s[2])
  BY <1>1, <1>12, <1>13 DEF InvOf, Struct, Zombies
<1>15. InT(table, retired, s[2]) /\ table[s[2]].type = "remove"
  BY <1>14 DEF Merged
<1>16. s[2] \in InTree /\ s[2] \notin unused
  BY <1>1, <1>15 DEF InT, InTree, InvOf, Free
<1> QED BY <1>7, <1>12, <1>15, <1>16

(* The tables and the threads' state keep their types.                      *)
THEOREM TypeSafe == Spec /\ SplitsInserted => []TypeOK
BY ShapeKept, TypeFollows, PTL

(* At every moment, in the middle of any number of splits, removals and     *)
(* merges too, the leaves from the first one along next share out the keys. *)
THEOREM LeavesPartitionHolds == Spec /\ SplitsInserted => []LeavesPartition
BY ShapeKept, PartitionFollows, PTL

(* No remove record is ever on the first child of an inner node, where a    *)
(* thread that meets one could only start over for ever.                    *)
THEOREM RemovedNotLeftmostHolds == Spec /\ SplitsInserted => []RemovedNotLeftmost
BY ShapeKept, LeftmostFollows, PTL

(* Every separator in the tree leads to a node that starts there and was    *)
(* not retired, and lies in the range of its own node.                      *)
THEOREM SeparatorsResolveHolds == Spec /\ SplitsInserted => []SeparatorsResolve
BY ShapeKept, SeparatorsFollow, PTL

(* A leaf without a separator is right of a topmost split record.           *)
THEOREM NoOrphanHolds == Spec /\ SplitsInserted => []NoOrphanNode
BY ShapeKept, OrphansFollow, PTL

(* No thread inside the tree can follow a NodeID that was given back.       *)
THEOREM NoDanglingHolds == Spec /\ SplitsInserted => []NoDanglingId
BY ShapeKept, DanglingFollows, PTL

(* The asserts of RemoveAbortOnParent and PostInnerDeleteNode, which the    *)
(* build leaves out, would hold: a thread takes off its own abort record,   *)
(* and no NodeID is retired twice.                                          *)
THEOREM AssertsHoldAlways == Spec /\ SplitsInserted => AssertsHold
<1>1. Inv /\ [Next]_vars => [AbortIsMine /\ RetiredOnce]_vars
  BY AbortFollows, RetiredFollows
<1> QED BY <1>1, ShapeKept, PTL DEF AssertsHold, Spec

(* A walk begins at the first leaf and goes along next.                     *)
LEMMA RunIs ==
  ASSUME NEW next, NEW f, NEW m \in Nat, Run(next, f, m)
  PROVE  f[0] = FirstLeaf /\ \A i \in 0 .. m : i # 0 => f[i] = next[f[i - 1]]
<1>1. f = [i \in 0 .. m |-> IF i = 0 THEN FirstLeaf ELSE next[f[i - 1]]]
  BY DEF Run
<1>2. 0 \in 0 .. m
  OBVIOUS
<1>3. f[0] = FirstLeaf
  BY ONLY <1>1, <1>2
<1>4. ASSUME NEW i \in 0 .. m, i # 0 PROVE f[i] = next[f[i - 1]]
  BY ONLY <1>1, <1>4
<1> QED BY <1>3, <1>4

(* Low keys that rise along a walk make it at most as long as there are     *)
(* NodeIDs.                                                                 *)
LEMMA WalkEnds ==
  ASSUME NEW f, NEW low, \A i \in 0 .. NumIds : f[i] \in Ids /\ low[f[i]] \in Nat,
         \A i \in 0 .. NumIds : i # 0 => low[f[i - 1]] < low[f[i]]
  PROVE  FALSE
<1>1. NumIds \in Nat
  BY SizeAssumption
<1> DEFINE n == NumIds + 1
           g == [i \in 1 .. n |-> f[i - 1]]
           h == [i \in 1 .. n |-> low[g[i]]]
<1>2. \A i \in 1 .. n : i - 1 \in 0 .. NumIds /\ (i + 1 \in 1 .. n => i \in 0 .. NumIds /\ i # 0)
  BY <1>1
<1>3. g \in [1 .. n -> Ids] /\ h \in [1 .. n -> Nat]
  BY <1>2
<1>4. \A i \in 1 .. n : i + 1 \in 1 .. n => h[i] < h[i + 1]
  <2> SUFFICES ASSUME NEW i \in 1 .. n, i + 1 \in 1 .. n PROVE h[i] < h[i + 1]
    OBVIOUS
  <2>1. low[f[i - 1]] < low[f[i]]
    BY <1>2
  <2>2. (i + 1) - 1 = i
    BY <1>1
  <2>3. h[i] = low[f[i - 1]] /\ h[i + 1] = low[f[i]]
    BY <2>2
  <2> QED BY <2>1, <2>3
<1>5. n \in Nat
  BY <1>1
<1>6. \A i, j \in 1 .. n : i < j => h[i] < h[j]
  <2> HIDE DEF h, n
  <2> QED BY <1>3, <1>4, <1>5, Rising
<1>7. Ids = 1 .. NumIds /\ IsFiniteSet(1 .. n) /\ IsFiniteSet(Ids) /\ Cardinality(1 .. n) = n
      /\ Cardinality(Ids) = NumIds
  <2>1. IsFiniteSet(1 .. n) /\ Cardinality(1 .. n) = IF 1 > n THEN 0 ELSE n - 1 + 1
    BY <1>5, FS_Interval
  <2>2. IsFiniteSet(1 .. NumIds) /\ Cardinality(1 .. NumIds) = IF 1 > NumIds THEN 0 ELSE NumIds - 1 + 1
    BY <1>1, FS_Interval
  <2> QED BY <1>1, <2>1, <2>2 DEF Ids
<1>8. PICK i, j \in 1 .. n : i # j /\ g[i] = g[j]
  <2>1. NumIds < n
    BY <1>1
  <2> HIDE DEF g, n
  <2> QED BY <1>3, <1>7, <2>1, FS_PigeonHole
<1>9. h[i] = h[j] /\ h[i] \in Nat
  BY <1>3, <1>8
<1>10. i < j \/ j < i
  BY <1>5, <1>8
<1> HIDE DEF g, h, n
<1> QED BY <1>6, <1>9, <1>10

(* The walk is long enough to reach every leaf that is right of a leaf.     *)
LEMMA LeavesClosed ==
  ASSUME NEW z, NEW l, InvOf(z, l), NEW i \in LeafIds, N(table, i).next # Nil
  PROVE  N(table, i).next \in LeafIds
<1>1. PICK next, f :
        /\ next = [id \in Ids \cup {Nil} |-> IF id = Nil THEN Nil ELSE Live(table[id]).next]
        /\ Run(next, f, NumIds) /\ LeafIds = {f[j] : j \in 0 .. NumIds} \ {Nil}
  BY LeavesRun
<1>2. NumIds \in Nat
  BY SizeAssumption
<1>3. f[0] = FirstLeaf /\ \A j \in 0 .. NumIds : j # 0 => f[j] = next[f[j - 1]]
  BY <1>1, <1>2, RunIs
<1>4. LeafIds \subseteq {j \in Ids : InC(table, retired, z, j) /\ l[j] = 0}
  BY LeavesInTree
<1>5. PICK j \in 0 .. NumIds : f[j] = i
  BY <1>1
<1>6. next[Nil] = Nil /\ \A x \in Ids : next[x] = N(table, x).next
  BY <1>1, IdsNotNil DEF N
<1>7. CASE j # NumIds
  <2>1. j + 1 \in 0 .. NumIds /\ j + 1 # 0 /\ (j + 1) - 1 = j
    BY <1>2, <1>7
  <2>2. f[j + 1] = next[i]
    BY <1>3, <1>5, <2>1
  <2>3. f[j + 1] = N(table, i).next
    BY <1>4, <1>6, <2>2
  <2> QED BY <1>1, <2>1, <2>3
<1>8. CASE j = NumIds
  <2> DEFINE Bad == {x \in 0 .. NumIds : f[x] = Nil}
  <2>1. Bad = {}
    <3> SUFFICES ASSUME Bad # {} PROVE FALSE
      OBVIOUS
    <3> DEFINE P == {<<x>> : x \in Bad}
    <3>1. P # {} /\ \A s \in P : s[1] \in Nat /\ s[1] <= NumIds
      <4>1. P # {}
        OBVIOUS
      <4>2. ASSUME NEW s \in P PROVE s[1] \in Nat /\ s[1] <= NumIds
        <5>1. PICK x \in Bad : s = <<x>>
          OBVIOUS
        <5>2. x \in Nat /\ x <= NumIds
          BY <1>2
        <5> HIDE DEF Bad, P
        <5> QED BY <5>1, <5>2
      <4> QED BY <4>1, <4>2
    <3>2. PICK s \in P : \A y \in P : y[1] <= s[1]
      <4> HIDE DEF P
      <4> QED BY <1>2, <3>1, GreatestOf
    <3>3. PICK x \in Bad : \A y \in Bad : y <= x
      <4>1. PICK x \in Bad : s = <<x>>
        OBVIOUS
      <4>2. ASSUME NEW y \in Bad PROVE y <= x
        <5>1. <<y>> \in P
          OBVIOUS
        <5>2. <<y>>[1] <= s[1]
          BY <3>2, <5>1
        <5> QED BY <4>1, <5>2
      <4> QED BY <4>1, <4>2
    <3>4. x # NumIds
      BY <1>5, <1>8, <3>3, <1>1
    <3>5. x + 1 \in 0 .. NumIds /\ x + 1 # 0 /\ (x + 1) - 1 = x /\ ~(x + 1 <= x)
      BY <1>2, <3>3, <3>4
    <3>6. f[x + 1] = next[f[x]] /\ f[x] = Nil
      BY <1>3, <3>3, <3>5
    <3>7. x + 1 \in Bad
      BY <1>6, <3>5, <3>6
    <3> QED BY <3>3, <3>5, <3>7
  <2>2. \A x \in 0 .. NumIds : f[x] \in LeafIds
    BY <1>1, <2>1
  <2> DEFINE low == [x \in Ids |-> N(table, x).low]
  <2>3. Struct(table, retired, z, l, root)
    BY DEF InvOf
  <2>4. ASSUME NEW x \in LeafIds
        PROVE  /\ x \in Ids /\ low[x] \in Nat
               /\ N(table, x).next \in Ids => low[x] < low[N(table, x).next]
    <3>1. x \in Ids /\ InT(table, retired, x)
      BY <1>4 DEF InC
    <3>2. Whole(N(table, x))
      BY <2>3, <3>1, Alloc DEF InT, Struct
    <3>3. N(table, x).next # Nil => N(table, N(table, x).next).low = N(table, x).high
      BY <2>3, <3>1 DEF Struct, Links
    <3>4. N(table, x).low \in Nat /\ N(table, x).low < N(table, x).high
      BY <3>2 DEF Whole
    <3> QED BY <3>1, <3>3, <3>4, IdsNotNil
  <2>5. ASSUME NEW x \in 0 .. NumIds, x # 0 PROVE low[f[x - 1]] < low[f[x]]
    <3>1. x - 1 \in 0 .. NumIds
      BY <1>2, <2>5
    <3>2. f[x] = N(table, f[x - 1]).next /\ f[x] \in Ids
      BY <1>3, <1>6, <2>2, <2>4, <2>5, <3>1
    <3> HIDE DEF low
    <3> QED BY <2>2, <2>4, <3>1, <3>2
  <2> HIDE DEF low
  <2>6. \A x \in 0 .. NumIds : f[x] \in Ids /\ low[f[x]] \in Nat
    BY <2>2, <2>4
  <2> QED BY <2>5, <2>6, WalkEnds
<1> QED BY <1>7, <1>8

(* So the leaves are the nodes at level 0 that are in the tree and not      *)
(* merged.                                                                  *)
LEMMA LeavesAre ==
  ASSUME NEW z, NEW l, InvOf(z, l), NEW i \in Ids, InC(table, retired, z, i), l[i] = 0
  PROVE  i \in LeafIds
<1> SUFFICES ASSUME i \notin LeafIds PROVE FALSE
  OBVIOUS
<1>1. Struct(table, retired, z, l, root)
  BY DEF InvOf
<1>2. /\ LeafIds \subseteq {j \in Ids : InC(table, retired, z, j) /\ l[j] = 0}
      /\ FirstLeaf \in LeafIds
  BY LeavesInTree
<1>3. ASSUME NEW j \in Ids, InC(table, retired, z, j)
      PROVE  /\ N(table, j).low \in Nat /\ N(table, j).high \in Nat
             /\ N(table, j).low < N(table, j).high /\ N(table, j).high <= Inf
             /\ N(table, j).next = Nil => N(table, j).high = Inf
             /\ N(table, j).next # Nil => N(table, N(table, j).next).low = N(table, j).high
  <2>1. InT(table, retired, j)
    BY <1>3 DEF InC
  <2>2. Whole(N(table, j))
    BY <1>1, <2>1, Alloc DEF InT, Struct
  <2> QED BY <1>1, <2>1, <2>2 DEF Whole, Struct, Links
<1> DEFINE low(j) == N(table, j).low
           S == {<<low(j), j>> : j \in {x \in LeafIds : low(x) <= low(i)}}
<1>4. S # {} /\ \A s \in S : s[1] \in Nat /\ s[1] <= low(i)
  <2>1. low(FirstLeaf) = 0
    BY <1>1 DEF Struct, Ends
  <2>2. low(FirstLeaf) <= low(i)
    BY <1>3, <2>1
  <2>3. <<low(FirstLeaf), FirstLeaf>> \in S
    BY <1>2, <2>2
  <2>4. ASSUME NEW s \in S PROVE s[1] \in Nat /\ s[1] <= low(i)
    <3>1. PICK x \in LeafIds : low(x) <= low(i) /\ s = <<low(x), x>>
      OBVIOUS
    <3>2. low(x) \in Nat
      BY <1>2, <1>3
    <3> HIDE DEF S, low
    <3> QED BY <3>1, <3>2
  <2> QED BY <2>3, <2>4
<1>5. low(i) \in Nat
  BY <1>3
<1>6. PICK s \in S : \A x \in S : x[1] <= s[1]
  <2> HIDE DEF S, low
  <2> QED BY <1>4, <1>5, GreatestOf
<1>7. PICK j \in LeafIds : low(j) <= low(i) /\ s = <<low(j), j>>
  OBVIOUS
<1>8. ASSUME NEW x \in LeafIds, low(x) <= low(i) PROVE low(x) <= low(j)
  <2>1. <<low(x), x>> \in S
    BY <1>8
  <2>2. <<low(x), x>>[1] <= s[1]
    BY <1>6, <2>1
  <2> QED BY <1>7, <2>2
<1>9. j \in Ids /\ InC(table, retired, z, j) /\ l[j] = 0 /\ j # i
  BY <1>2
<1>10. N(table, i).high <= low(j) \/ N(table, j).high <= low(i)
  BY <1>1, <1>9 DEF Struct, Apart
<1> DEFINE hi == N(table, i).high
           hj == N(table, j).high
           nj == N(table, j).next
<1>11. /\ low(i) \in Nat /\ hi \in Nat /\ low(i) < hi /\ hi <= Inf
       /\ low(j) \in Nat /\ hj \in Nat /\ low(j) < hj
       /\ nj = Nil => hj = Inf
       /\ nj # Nil => low(nj) = hj
  BY <1>3, <1>9
<1>12. Inf \in Nat
  BY SizeAssumption DEF Inf
<1>13. nj # Nil => nj \in LeafIds
  BY LeavesClosed
<1> HIDE DEF hi, hj, nj, low
<1>14. hj <= low(i)
  BY <1>7, <1>10, <1>11 DEF hi, hj
<1>15. nj # Nil
  BY <1>11, <1>12, <1>14
<1>16. low(nj) <= low(j)
  BY <1>8, <1>11, <1>13, <1>14, <1>15
<1> QED BY <1>11, <1>15, <1>16
-----------------------------------------------------------------------------
(* What the leaves hold *)

(* The keys of the leaves that are in the tree, the merged ones included.   *)
Holds(T, R, k) == \E i \in Ids : InT(T, R, i) /\ N(T, i).leaf /\ k \in N(T, i).items

(* What a merged leaf held is in the leaf it went into.                     *)
LEMMA HeldCurrent ==
  ASSUME NEW T, NEW R, NEW z, NEW l, NEW top, Struct(T, R, z, l, top), NEW k
  PROVE  Holds(T, R, k) <=>
           \E i \in Ids : InC(T, R, z, i) /\ l[i] = 0 /\ N(T, i).leaf /\ k \in N(T, i).items
<1>1. \A i \in Ids : InT(T, R, i) => (N(T, i).leaf <=> l[i] = 0)
  BY DEF Struct, Levels
<1>2. ASSUME NEW i \in Ids, InT(T, R, i), N(T, i).leaf, k \in N(T, i).items
      PROVE  \E j \in Ids : InC(T, R, z, j) /\ l[j] = 0 /\ N(T, j).leaf /\ k \in N(T, j).items
  <2>1. CASE z[i] = Nil
    BY <1>1, <1>2, <2>1 DEF InC
  <2>2. CASE z[i] # Nil
    <3>1. Merged(T, R, z, l, i)
      BY <2>2 DEF Struct, Zombies
    <3>2. InC(T, R, z, z[i]) /\ l[z[i]] = l[i] /\ N(T, i).items \subseteq N(T, z[i]).items
      BY <3>1 DEF Merged
    <3>3. z[i] \in Ids /\ InT(T, R, z[i])
      BY <3>2 DEF InC, InT
    <3> QED BY <1>1, <1>2, <3>2, <3>3
  <2> QED BY <2>1, <2>2
<1>3. \A i : InC(T, R, z, i) => InT(T, R, i)
  BY DEF InC
<1> QED BY <1>2, <1>3 DEF Holds

(* The keys the walk along next finds are the keys of the leaves.           *)
LEMMA ContentsAre == Inv => \A k : k \in Contents <=> Holds(table, retired, k)
<1> SUFFICES ASSUME Inv, NEW k PROVE k \in Contents <=> Holds(table, retired, k)
  OBVIOUS
<1>1. PICK z, l : InvOf(z, l)
  BY DEF Inv
<1>2. Struct(table, retired, z, l, root)
  BY <1>1 DEF InvOf
<1>3. \A i : i \in LeafIds <=> i \in Ids /\ InC(table, retired, z, i) /\ l[i] = 0
  BY <1>1, LeavesInTree, LeavesAre
<1>4. k \in Contents <=> \E i \in LeafIds : k \in N(table, i).items
  BY DEF Contents, N
<1>5. \A i \in Ids : InC(table, retired, z, i) /\ l[i] = 0 => N(table, i).leaf
  BY <1>2 DEF Struct, Levels, InC
<1>6. Holds(table, retired, k) <=>
        \E i \in Ids : InC(table, retired, z, i) /\ l[i] = 0 /\ N(table, i).leaf /\ k \in N(table, i).items
  BY <1>2, HeldCurrent
<1> QED BY <1>3, <1>4, <1>5, <1>6

(* The leaf that covers a key has it if any leaf has.                       *)
LEMMA LeafTells ==
  ASSUME NEW T, NEW R, NEW z, NEW l, NEW top, Struct(T, R, z, l, top),
         NEW i, InC(T, R, z, i), N(T, i).leaf, NEW k \in Nat, N(T, i).low <= k, k < N(T, i).high
  PROVE  k \in N(T, i).items <=> Holds(T, R, k)
<1>1. i \in Ids /\ InT(T, R, i) /\ l[i] = 0
  BY DEF InC, InT, Struct, Levels
<1>2. ASSUME Holds(T, R, k) PROVE k \in N(T, i).items
  <2>1. PICK j \in Ids : InC(T, R, z, j) /\ l[j] = 0 /\ N(T, j).leaf /\ k \in N(T, j).items
    BY <1>2, HeldCurrent
  <2>2. ASSUME NEW x \in Ids, InC(T, R, z, x), N(T, x).leaf
        PROVE  /\ N(T, x).low \in Nat /\ N(T, x).high \in Nat
               /\ \A y \in N(T, x).items : N(T, x).low <= y /\ y < N(T, x).high
    <3>1. InT(T, R, x)
      BY <2>2 DEF InC
    <3>2. Whole(N(T, x))
      BY <3>1, Alloc DEF InT, Struct
    <3> QED BY <2>2, <3>2 DEF Whole
  <2>3. /\ N(T, j).low \in Nat /\ N(T, j).high \in Nat /\ N(T, j).low <= k /\ k < N(T, j).high
        /\ N(T, i).low \in Nat /\ N(T, i).high \in Nat
    BY <1>1, <2>1, <2>2
  <2>4. j # i => N(T, i).high <= N(T, j).low \/ N(T, j).high <= N(T, i).low
    BY <1>1, <2>1 DEF Struct, Apart
  <2>5. j = i
    BY <2>3, <2>4
  <2> QED BY <2>1, <2>5
<1> QED BY <1>1, <1>2 DEF Holds

(* They are keys.                                                           *)
LEMMA HeldKeys ==
  ASSUME NEW T, NEW R, NEW z, NEW l, NEW top, Struct(T, R, z, l, top), NEW k, Holds(T, R, k)
  PROVE  k \in Keys
<1>1. PICK i \in Ids : InT(T, R, i) /\ N(T, i).leaf /\ k \in N(T, i).items
  BY DEF Holds
<1>2. Whole(N(T, i))
  BY <1>1, Alloc DEF InT, Struct
<1> QED BY <1>1, <1>2 DEF Whole

(* What the cleaner and a leaving thread do to retired, and a write that    *)
(* leaves every leaf its keys, changes nothing of it.                       *)
LEMMA SameHeld ==
  ASSUME NEW T, NEW R, NEW T2, NEW R2,
         \A i \in Ids : InT(T2, R2, i) /\ N(T2, i).leaf <=> InT(T, R, i) /\ N(T, i).leaf,
         \A i \in Ids : InT(T, R, i) /\ N(T, i).leaf => N(T2, i).items = N(T, i).items,
         NEW k
  PROVE  Holds(T2, R2, k) <=> Holds(T, R, k)
BY DEF Holds

(* A write that leaves a leaf its keys.                                     *)
LEMMA PutHeld ==
  ASSUME NEW T, Entries(T), NEW i \in Ids, NEW m, NEW T2, T2 = [T EXCEPT ![i] = m], NEW R,
         T[i].type # "none", m.type # "none", Live(m).leaf = N(T, i).leaf,
         Live(m).leaf => Live(m).items = N(T, i).items,
         NEW k
  PROVE  Holds(T2, R, k) <=> Holds(T, R, k)
<1>1. /\ N(T2, i) = Live(m) /\ T2[i] = m
      /\ \A j \in Ids : j # i => T2[j] = T[j] /\ N(T2, j) = N(T, j)
  <2>1. T2[i] = m /\ \A j \in Ids : j # i => T2[j] = T[j]
    BY DEF Entries
  <2> QED BY <2>1 DEF N
<1>2. \A j \in Ids : InT(T2, R, j) <=> InT(T, R, j)
  BY <1>1 DEF InT
<1>3. \A j \in Ids : N(T2, j).leaf = N(T, j).leaf /\ (N(T, j).leaf => N(T2, j).items = N(T, j).items)
  BY <1>1
<1> QED BY <1>2, <1>3, SameHeld

KeysKept == \A k : Holds(table', retired', k) <=> Holds(table, retired, k)

(* ConsolidateNode changes no keys.                                         *)
LEMMA ConsolidateKeeps ==
  ASSUME NEW z, NEW l, InvOf(z, l), NEW t \in Threads, ConsolidateNode(t)
  PROVE  KeysKept
<1> DEFINE w == View(t)
           i == cur[t].id
           m == Consolidated(cur[t].node)
<1>1. /\ pc[t] \in {"consolidate", "fit"} /\ retired' = retired
  BY DEF ConsolidateNode
<1>2. /\ Walks(w) /\ w.pc = pc[t] /\ w.cur = cur[t]
      /\ Struct(table, retired, z, l, root) /\ ThreadOK(table, retired, z, l, t, w)
      /\ w.cur.node.type # "remove" /\ Whole(w.cur.node) /\ w.cur.id \in Ids /\ w.cur.id # Nil
  BY <1>1, AtWork
<1>3. CASE ~Matches(cur[t])
  BY <1>1, <1>3 DEF ConsolidateNode, KeysKept
<1>4. CASE Matches(cur[t])
  <2>1. table' = [table EXCEPT ![i] = m]
    BY <1>4 DEF ConsolidateNode, SetCur, Write
  <2>2. w.cur.is = "match" /\ i = w.cur.id /\ m = Consolidated(w.cur.node)
    BY <1>2, <1>4 DEF Matches
  <2> HIDE DEF w, i, m
  <2>3. /\ i \in Ids /\ table[i] = w.cur.node /\ N(table, i) = w.cur.node
        /\ table[i].type \notin {"remove", "abort", "none"}
    BY <1>2, <2>2, CurMatch
  <2>4. /\ m.type = "base" /\ m.leaf = w.cur.node.leaf /\ m.items = w.cur.node.items
    BY <1>2, <2>2, ConsolidatedFields
  <2>5. Live(m) = m
    BY <2>4 DEF Live
  <2>6. Entries(table)
    BY <1>2 DEF Struct
  <2> QED BY <1>1, <2>1, <2>3, <2>4, <2>5, <2>6, PutHeld DEF KeysKept
<1> QED BY <1>3, <1>4

(* Neither does FinishSplit: the parent is an inner node.                   *)
LEMMA FinishSplitKeeps ==
  ASSUME NEW z, NEW l, InvOf(z, l), NEW t \in Threads, FinishSplit(t)
  PROVE  KeysKept
<1> DEFINE w == View(t)
           p == par[t].id
           m == Data(par[t].node, par[t].node.items \cup {cur[t].node.smo})
<1>1. pc[t] = "split" /\ retired' = retired /\ p # Nil
  BY DEF FinishSplit, HasParent
<1>2. /\ Walks(w) /\ w.par = par[t]
      /\ Struct(table, retired, z, l, root) /\ ThreadOK(table, retired, z, l, t, w)
  BY <1>1, AtWork
<1>3. CASE table' = table
  BY <1>1, <1>3 DEF KeysKept
<1>4. CASE table' # table
  <2>1. Matches(par[t]) /\ table' = [table EXCEPT ![p] = m]
    BY <1>4 DEF FinishSplit, SetPar, Write
  <2>2. w.par.is = "match" /\ p = w.par.id
    BY <1>2, <2>1 DEF Matches
  <2>3. /\ Lives(w.par) /\ p \in Ids /\ table[p] = w.par.node /\ N(table, p) = w.par.node
        /\ InC(table, retired, z, p) /\ InT(table, retired, p) /\ Whole(w.par.node)
        /\ InnerOK(w.par.node) /\ ~w.par.node.leaf
        /\ table[p].type \notin {"remove", "abort", "none"}
        /\ w.cur.id # Nil /\ l[w.cur.id] + 1 = l[p]
        /\ <<w.cur.node.low, w.cur.id>> \in w.par.node.items
        /\ \A j \in Ids : z[j] # p
        /\ w.par.node.next # Nil => Sepd(table, retired, z, l, w.par.node.next)
    <3>1. w.par.id # Nil /\ w.par.is = "match"
      BY <1>1, <2>2
    <3> HIDE DEF w
    <3> QED BY <1>2, <2>2, <3>1, ParMatch
  <2>4. m.type = "delta" /\ ~m.leaf
    BY <1>2, <2>3 DEF Whole, IsNode, Data
  <2> HIDE DEF w, p, m
  <2>5. Live(m) = m
    BY <2>4 DEF Live
  <2>6. Entries(table) /\ w.par.node.leaf = FALSE /\ m.leaf = FALSE
    <3>1. w.par.node.leaf \in BOOLEAN
      BY <2>3 DEF Whole
    <3>2. m.leaf = w.par.node.leaf
      BY <1>2, <2>3 DEF Whole, IsNode, Data, m
    <3> QED BY <1>2, <2>3, <3>1, <3>2 DEF Struct
  <2> QED BY <1>1, <2>1, <2>3, <2>4, <2>5, <2>6, PutHeld DEF KeysKept
<1> QED BY <1>3, <1>4

(* Nor a remove record.                                                     *)
LEMMA PostRemoveKeeps ==
  ASSUME NEW z, NEW l, InvOf(z, l), NEW t \in Threads, PostRemoveNode(t)
  PROVE  KeysKept
<1> DEFINE w == View(t)
           i == cur[t].id
           m == Cover(cur[t].node, "remove")
<1>1. pc[t] = "postremove" /\ retired' = retired
  BY DEF PostRemoveNode
<1>2. /\ Walks(w) /\ w.pc = pc[t] /\ w.cur = cur[t]
      /\ Struct(table, retired, z, l, root) /\ ThreadOK(table, retired, z, l, t, w)
      /\ w.cur.node.type # "remove" /\ Whole(w.cur.node) /\ w.cur.id \in Ids /\ w.cur.id # Nil
  BY <1>1, AtWork
<1>3. CASE ~Matches(cur[t])
  BY <1>1, <1>3 DEF PostRemoveNode, KeysKept
<1>4. CASE Matches(cur[t])
  <2>1. table' = [table EXCEPT ![i] = m]
    BY <1>4 DEF PostRemoveNode, Write
  <2>2. w.cur.is = "match" /\ i = w.cur.id /\ m = Cover(w.cur.node, "remove")
    BY <1>2, <1>4 DEF Matches
  <2> HIDE DEF w, i, m
  <2>3. /\ i \in Ids /\ N(table, i) = w.cur.node
        /\ table[i].type \notin {"remove", "abort", "none"}
    BY <1>2, <2>2, CurMatch
  <2>4. m.type = "remove" /\ Live(m) = w.cur.node
    BY <1>2, <2>2, CoverFields
  <2>5. Entries(table)
    BY <1>2 DEF Struct
  <2> QED BY <1>1, <2>1, <2>3, <2>4, <2>5, PutHeld DEF KeysKept
<1> QED BY <1>3, <1>4

(* Nor an abort record on the parent.                                       *)
LEMMA PostAbortKeeps ==
  ASSUME NEW z, NEW l, InvOf(z, l), NEW t \in Threads, PostAbortOnParent(t)
  PROVE  KeysKept
<1> DEFINE w == View(t)
           p == par[t].id
           m == Cover(par[t].node, "abort")
<1>1. pc[t] = "fit" /\ HasParent(t) /\ retired' = retired
  BY DEF PostAbortOnParent, MustRemove, Removable
<1>2. /\ Walks(w) /\ w.par = par[t] /\ p # Nil
      /\ Struct(table, retired, z, l, root) /\ ThreadOK(table, retired, z, l, t, w)
  BY <1>1, AtWork DEF HasParent
<1>3. CASE ~Matches(par[t])
  BY <1>1, <1>3 DEF PostAbortOnParent, KeysKept
<1>4. CASE Matches(par[t])
  <2>1. table' = [table EXCEPT ![p] = m]
    BY <1>4 DEF PostAbortOnParent, Write
  <2>2. w.par.is = "match" /\ p = w.par.id /\ m = Cover(w.par.node, "abort")
    BY <1>2, <1>4 DEF Matches
  <2> HIDE DEF w, p, m
  <2>3. /\ Lives(w.par) /\ p \in Ids /\ table[p] = w.par.node /\ N(table, p) = w.par.node
        /\ InC(table, retired, z, p) /\ InT(table, retired, p) /\ Whole(w.par.node)
        /\ InnerOK(w.par.node) /\ ~w.par.node.leaf
        /\ table[p].type \notin {"remove", "abort", "none"}
        /\ w.cur.id # Nil /\ l[w.cur.id] + 1 = l[p]
        /\ <<w.cur.node.low, w.cur.id>> \in w.par.node.items
        /\ \A j \in Ids : z[j] # p
        /\ w.par.node.next # Nil => Sepd(table, retired, z, l, w.par.node.next)
    <3>1. w.par.id # Nil /\ w.par.is = "match"
      BY <1>2, <2>2
    <3>2. Struct(table, retired, z, l, root) /\ ThreadOK(table, retired, z, l, t, w) /\ Walks(w)
      BY <1>2
    <3> QED BY <2>2, <3>1, <3>2, ParMatch
  <2>4. m.type = "abort" /\ Live(m) = w.par.node
    BY <2>2, <2>3, CoverFields
  <2>5. Entries(table)
    BY <1>2 DEF Struct
  <2> QED BY <1>1, <2>1, <2>3, <2>4, <2>5, PutHeld DEF KeysKept
<1> QED BY <1>3, <1>4

(* Nor its removal.                                                         *)
LEMMA RemoveAbortKeeps ==
  ASSUME NEW z, NEW l, InvOf(z, l), NEW t \in Threads, RemoveAbortOnParent(t)
  PROVE  KeysKept
<1> DEFINE w == View(t)
           p == par[t].id
           m == table[par[t].id].under[1]
<1>1. pc[t] = "unblock" /\ retired' = retired /\ table' = [table EXCEPT ![p] = m]
  BY DEF RemoveAbortOnParent, Write
<1>2. /\ Walks(w) /\ w.par = par[t] /\ w.pc = "unblock"
      /\ Struct(table, retired, z, l, root) /\ ThreadOK(table, retired, z, l, t, w)
      /\ BlockOK(w) /\ SnapOK(table, w.par) /\ ParOK(table, retired, l, t, w)
  BY <1>1, AtWork
<1>3. w.par.id = p /\ p # Nil /\ w.par.is = "under" /\ m = table[p].under[1]
  BY <1>2 DEF BlockOK
<1> HIDE DEF w, p, m
<1>4. Whole(w.par.node) /\ table[p] = Cover(w.par.node, "abort") /\ p \in Ids
  BY <1>2, <1>3 DEF ParOK, SnapOK
<1>5. table[p].type = "abort" /\ m = w.par.node /\ N(table, p) = w.par.node
  BY <1>3, <1>4, CoverFields DEF N
<1>6. m.type # "none" /\ Live(m) = m
  BY <1>4, <1>5, PlainTypes DEF Whole, Live
<1>7. Entries(table)
  BY <1>2 DEF Struct
<1>8. table[p].type # "none" /\ Live(m).leaf = N(table, p).leaf /\ Live(m).items = N(table, p).items
  BY <1>5, <1>6
<1> QED BY <1>1, <1>4, <1>6, <1>7, <1>8, PutHeld DEF KeysKept

(* A write to an inner node, and a merged node retired.                     *)
LEMMA RetireHeld ==
  ASSUME NEW T, NEW R, NEW z, NEW l, NEW top, Struct(T, R, z, l, top),
         NEW p \in Ids, NEW m, NEW T2, T2 = [T EXCEPT ![p] = m],
         ~N(T, p).leaf, T[p].type # "none", m.type # "none", ~Live(m).leaf,
         NEW d, z[d] # Nil, NEW U, NEW R2, R2 = R \cup {[id |-> d, until |-> U]},
         NEW k
  PROVE  Holds(T2, R2, k) <=> Holds(T, R, k)
<1>1. /\ N(T2, p) = Live(m) /\ T2[p] = m
      /\ \A j \in Ids : j # p => T2[j] = T[j] /\ N(T2, j) = N(T, j)
  <2>1. T2[p] = m /\ \A j \in Ids : j # p => T2[j] = T[j]
    BY DEF Struct, Entries
  <2> QED BY <2>1 DEF N
<1>2. \A j \in Ids : InT(T2, R2, j) <=> InT(T, R, j) /\ j # d
  <2> DEFINE x == [id |-> d, until |-> U]
  <2>1. x.id = d /\ R2 = R \cup {x}
    OBVIOUS
  <2> HIDE DEF x
  <2>2. \A j \in Ids : T2[j].type # "none" <=> T[j].type # "none"
    BY <1>1
  <2> QED BY <2>1, <2>2 DEF InT
<1>3. ASSUME Holds(T2, R2, k) PROVE Holds(T, R, k)
  BY <1>1, <1>2, <1>3 DEF Holds
<1>4. ASSUME Holds(T, R, k) PROVE Holds(T2, R2, k)
  <2>1. PICK i \in Ids : InC(T, R, z, i) /\ l[i] = 0 /\ N(T, i).leaf /\ k \in N(T, i).items
    BY <1>4, HeldCurrent
  <2>2. i # d /\ i # p /\ InT(T, R, i)
    BY <2>1 DEF InC
  <2> QED BY <1>1, <1>2, <2>1, <2>2 DEF Holds
<1> QED BY <1>3, <1>4

(* A new node that is no leaf, or is retired at once.                       *)
NewPut(T, R, new, m, U, T2, R2) ==
  /\ Entries(T) /\ new \in Ids /\ T[new].type = "none" /\ T2 = [T EXCEPT ![new] = m]
  /\ (R2 = R /\ ~Live(m).leaf) \/ R2 = R \cup {[id |-> new, until |-> U]}
LEMMA FreshHeld ==
  ASSUME NEW T, NEW R, NEW new, NEW m, NEW U, NEW T2, NEW R2, NewPut(T, R, new, m, U, T2, R2), NEW k
  PROVE  Holds(T2, R2, k) <=> Holds(T, R, k)
<1> USE DEF NewPut
<1>1. /\ N(T2, new) = Live(m) /\ T2[new] = m
      /\ \A j \in Ids : j # new => T2[j] = T[j] /\ N(T2, j) = N(T, j)
  <2>1. T2[new] = m /\ \A j \in Ids : j # new => T2[j] = T[j]
    BY DEF Entries
  <2> QED BY <2>1 DEF N
<1>2. \A j : j # new => ((\A r \in R2 : r.id # j) <=> (\A r \in R : r.id # j))
  <2> DEFINE x == [id |-> new, until |-> U]
  <2>1. x.id = new /\ (R2 = R \/ R2 = R \cup {x})
    OBVIOUS
  <2> HIDE DEF x
  <2> QED BY ONLY <2>1
<1>3. ~InT(T, R, new) /\ \A j \in Ids : j # new => (InT(T2, R2, j) <=> InT(T, R, j))
  BY <1>1, <1>2 DEF InT
<1>4. ~(InT(T2, R2, new) /\ N(T2, new).leaf)
  <2>1. CASE ~Live(m).leaf
    BY <1>1, <2>1
  <2>2. CASE R2 = R \cup {[id |-> new, until |-> U]}
    <3> DEFINE x == [id |-> new, until |-> U]
    <3>1. x \in R2 /\ x.id = new
      BY <2>2
    <3> HIDE DEF x
    <3> QED BY <3>1 DEF InT
  <2> QED BY <2>1, <2>2
<1>5. ASSUME NEW j \in Ids PROVE InT(T2, R2, j) /\ N(T2, j).leaf <=> InT(T, R, j) /\ N(T, j).leaf
  BY <1>1, <1>3, <1>4
<1>6. ASSUME NEW j \in Ids, InT(T, R, j) /\ N(T, j).leaf PROVE N(T2, j).items = N(T, j).items
  BY <1>1, <1>3, <1>6
<1> QED BY <1>5, <1>6, SameHeld

(* FinishMerge changes no keys.                                             *)
LEMMA FinishMergeKeeps ==
  ASSUME NEW z, NEW l, InvOf(z, l), NEW t \in Threads, FinishMerge(t)
  PROVE  KeysKept
<1> DEFINE w == View(t)
           p == par[t].id
           s == cur[t].node.smo
           found == Separator(par[t].node, s[1])
           m == Data(par[t].node, par[t].node.items \ found)
<1>1. pc[t] = "merge" /\ p # Nil
  BY DEF FinishMerge, HasParent
<1>2. /\ Walks(w) /\ w.pc = pc[t] /\ w.par = par[t] /\ w.cur = cur[t]
      /\ Struct(table, retired, z, l, root) /\ ThreadOK(table, retired, z, l, t, w)
      /\ MergeOK(z, w)
  BY <1>1, AtWork
<1>3. CASE UNCHANGED <<table, retired>>
  BY <1>3 DEF KeysKept
<1>4. CASE ~UNCHANGED <<table, retired>>
  <2>1. /\ Matches(par[t]) /\ found # {} /\ table' = [table EXCEPT ![p] = m]
        /\ retired' = retired \cup {[id |-> s[2], until |-> Inside]}
    BY <1>4 DEF FinishMerge, SetPar, Write, Retire
  <2>2. w.par.is = "match" /\ p = w.par.id /\ w.par.id # Nil /\ s = w.cur.node.smo /\ w.pc = "merge"
    BY <1>1, <1>2, <2>1 DEF Matches
  <2>3. /\ Lives(w.par) /\ p \in Ids /\ table[p] = w.par.node /\ N(table, p) = w.par.node
        /\ InC(table, retired, z, p) /\ InT(table, retired, p) /\ Whole(w.par.node)
        /\ InnerOK(w.par.node) /\ ~w.par.node.leaf
        /\ table[p].type \notin {"remove", "abort", "none"}
        /\ w.cur.id # Nil /\ l[w.cur.id] + 1 = l[p]
        /\ <<w.cur.node.low, w.cur.id>> \in w.par.node.items
        /\ \A j \in Ids : z[j] # p
        /\ w.par.node.next # Nil => Sepd(table, retired, z, l, w.par.node.next)
    <3> HIDE DEF w
    <3> QED BY <1>2, <2>2, ParMatch
  <2>4. m.type = "delta" /\ m.leaf = w.par.node.leaf
    BY <1>2, <2>3 DEF Whole, IsNode, Data
  <2>5. PICK x \in w.par.node.items : x[1] = s[1]
    BY <1>2, <2>1 DEF Separator
  <2>6. z[s[2]] # Nil
    BY <1>2, <2>2, <2>3, <2>5 DEF MergeOK
  <2> HIDE DEF w, p, m, s, found
  <2>7. Live(m) = m
    BY <2>4 DEF Live
  <2>8. ~N(table, p).leaf /\ table[p].type # "none" /\ m.type # "none" /\ ~Live(m).leaf
    BY <2>3, <2>4, <2>7
  <2> SUFFICES ASSUME NEW k PROVE Holds(table', retired', k) <=> Holds(table, retired, k)
    BY DEF KeysKept
  <2> DEFINE d == s[2]
             U == Inside
  <2>9. z[d] # Nil /\ retired' = retired \cup {[id |-> d, until |-> U]}
    BY <2>1, <2>6
  <2>10. Struct(table, retired, z, l, root)
    BY <1>2
  <2> HIDE DEF d, U
  <2> QED BY <2>1, <2>3, <2>8, <2>9, <2>10, RetireHeld
<1> QED BY <1>3, <1>4

(* SplitRoot does not: the new root is no leaf.                             *)
LEMMA SplitRootKeeps ==
  ASSUME NEW z, NEW l, InvOf(z, l), NEW t \in Threads, SplitRoot(t)
  PROVE  KeysKept
<1> DEFINE m == TopOf(cur[t].id, cur[t].node.smo)
           new == NewId
<1>1. /\ unused # {} /\ table' = [table EXCEPT ![new] = m]
      /\ retired' = retired \/ retired' = retired \cup {[id |-> new, until |-> Inside]}
  BY DEF SplitRoot, Retire, TopOf
<1>2. unused \subseteq Ids /\ unused = {j \in Ids : table[j].type = "none"} /\ Entries(table)
  BY DEF InvOf, Free, Struct
<1>3. new \in unused
  BY <1>1, <1>2, NewIdFree
<1>4. m.type = "base" /\ m.leaf = FALSE
  BY DEF TopOf, Node
<1> HIDE DEF m, new
<1>5. ~Live(m).leaf
  BY <1>4 DEF Live
<1>6. new \in Ids /\ table[new].type = "none"
  BY <1>2, <1>3
<1>7. (retired' = retired /\ ~Live(m).leaf) \/ retired' = retired \cup {[id |-> new, until |-> Inside]}
  BY <1>1, <1>5
<1> DEFINE U == Inside
<1>8. NewPut(table, retired, new, m, U, table', retired')
  BY <1>1, <1>2, <1>6, <1>7 DEF NewPut
<1> HIDE DEF U
<1> QED BY <1>8, FreshHeld DEF KeysKept

(* A split moves keys from one leaf to the next.                            *)
HalvesPut(T, R, i, new, m, sib, T2) ==
  /\ Entries(T) /\ i \in Ids /\ InT(T, R, i) /\ new \in Ids /\ T[new].type = "none"
  /\ \A r \in R : r.id # new
  /\ T2 = [T EXCEPT ![new] = sib, ![i] = m] /\ m.type # "none" /\ sib.type # "none"
  /\ Live(m).leaf = N(T, i).leaf /\ Live(sib).leaf = N(T, i).leaf
  /\ Live(m).items \cup Live(sib).items = N(T, i).items
LEMMA HalvesHeld ==
  ASSUME NEW T, NEW R, NEW i, NEW new, NEW m, NEW sib, NEW T2, HalvesPut(T, R, i, new, m, sib, T2), NEW k
  PROVE  Holds(T2, R, k) <=> Holds(T, R, k)
<1> USE DEF HalvesPut
<1>1. i # new
  BY DEF InT
<1>2. /\ N(T2, new) = Live(sib) /\ T2[new] = sib /\ N(T2, i) = Live(m) /\ T2[i] = m
      /\ \A j \in Ids : j # new /\ j # i => T2[j] = T[j] /\ N(T2, j) = N(T, j)
  <2>1. T2[new] = sib /\ T2[i] = m /\ \A j \in Ids : j # new /\ j # i => T2[j] = T[j]
    BY <1>1 DEF Entries
  <2> QED BY <2>1 DEF N
<1>3. InT(T2, R, new) /\ InT(T2, R, i) /\ ~InT(T, R, new)
      /\ \A j \in Ids : j # new /\ j # i => (InT(T2, R, j) <=> InT(T, R, j))
  BY <1>2 DEF InT
<1>4. ASSUME Holds(T2, R, k) PROVE Holds(T, R, k)
  <2>1. PICK j \in Ids : InT(T2, R, j) /\ N(T2, j).leaf /\ k \in N(T2, j).items
    BY <1>4 DEF Holds
  <2>2. CASE j = i \/ j = new
    <3>1. N(T, i).leaf /\ k \in N(T, i).items
      BY <1>2, <2>1, <2>2
    <3> QED BY <3>1 DEF Holds
  <2>3. CASE j # i /\ j # new
    BY <1>2, <1>3, <2>1, <2>3 DEF Holds
  <2> QED BY <2>2, <2>3
<1>5. ASSUME Holds(T, R, k) PROVE Holds(T2, R, k)
  <2>1. PICK j \in Ids : InT(T, R, j) /\ N(T, j).leaf /\ k \in N(T, j).items
    BY <1>5 DEF Holds
  <2>2. CASE j = i
    <3>1. k \in N(T2, i).items \/ k \in N(T2, new).items
      BY <1>2, <2>1, <2>2
    <3>2. N(T2, i).leaf /\ N(T2, new).leaf
      BY <1>2, <2>1, <2>2
    <3> QED BY <1>3, <3>1, <3>2 DEF Holds
  <2>3. CASE j # i
    <3>1. j # new
      BY <1>3, <2>1
    <3> QED BY <1>2, <1>3, <2>1, <2>3, <3>1 DEF Holds
  <2> QED BY <2>2, <2>3
<1> QED BY <1>4, <1>5

(* SplitNode changes no keys.                                               *)
LEMMA SplitNodeKeeps ==
  ASSUME NEW z, NEW l, InvOf(z, l), NEW t \in Threads, SplitNode(t)
  PROVE  KeysKept
<1> DEFINE w == View(t)
           i == cur[t].id
           n == cur[t].node
           new == NewId
           sib == Sibling(cur[t].node, SplitKey(cur[t].node), Moved(cur[t].node))
           kept == cur[t].node.items \ Moved(cur[t].node)
           m == Split(cur[t].node, SplitKey(cur[t].node), NewId, kept)
<1>1. /\ (pc[t] = "fit" /\ TooLarge(n) /\ n.leaf) \/ pc[t] = "innersplit"
      /\ unused # {}
  BY DEF SplitNode, MustSplit
<1>2. /\ Walks(w) /\ w.pc = pc[t] /\ w.cur = cur[t]
      /\ Struct(table, retired, z, l, root) /\ ThreadOK(table, retired, z, l, t, w)
      /\ w.cur.node.type # "remove" /\ Whole(w.cur.node) /\ w.cur.id \in Ids /\ w.cur.id # Nil
      /\ HalvesOK(table, w)
  BY <1>1, AtWork
<1>3. TooLarge(n) /\ Whole(n) /\ i \in Ids /\ i # Nil /\ w.cur.node = n /\ w.cur.id = i
  BY <1>1, <1>2 DEF HalvesOK
<1>4. unused \subseteq Ids /\ unused = {j \in Ids : table[j].type = "none"}
  BY DEF InvOf, Free
<1>5. new \in Ids /\ table[new].type = "none"
  <2>1. new \in unused
    BY <1>1, <1>4, NewIdFree
  <2> QED BY <1>4, <2>1
<1>6. /\ sib = Sibling(n, SplitKey(n), Moved(n))
      /\ m = Split(n, SplitKey(n), new, kept) /\ kept = n.items \ Moved(n)
  OBVIOUS
<1>7. Entries(table) /\ RetiredOK(table, retired)
  BY <1>2 DEF Struct
<1>8. CASE ~Matches(cur[t])
  <2>1. /\ table' = [table EXCEPT ![new] = sib]
        /\ retired' = retired \cup {[id |-> new, until |-> Inside]}
    BY <1>8 DEF SplitNode, Retire
  <2> DEFINE U == Inside
  <2> HIDE DEF new, sib
  <2>2. NewPut(table, retired, new, sib, U, table', retired')
    BY <1>5, <1>7, <2>1 DEF NewPut
  <2> HIDE DEF U
  <2> QED BY <2>2, FreshHeld DEF KeysKept
<1>9. CASE Matches(cur[t])
  <2>1. table' = [table EXCEPT ![new] = sib, ![i] = m] /\ retired' = retired
    BY <1>9 DEF SplitNode
  <2>2. w.cur.is = "match"
    BY <1>2, <1>9 DEF Matches
  <2> HIDE DEF w, i, n, new, sib, m, kept
  <2>3. N(table, i) = n /\ InT(table, retired, i)
    BY <1>2, <1>3, <2>2, CurMatch
  <2>4. Whole(sib) /\ sib.type = "base" /\ sib.leaf = n.leaf /\ sib.items = Moved(n)
    BY <1>3, <1>6, SiblingWhole
  <2>5. Whole(m) /\ m.type = "split" /\ m.leaf = n.leaf /\ m.items = kept
    BY <1>3, <1>5, <1>6, SplitWhole
  <2>6. Live(sib) = sib /\ Live(m) = m
    BY <2>4, <2>5 DEF Live
  <2>7. Moved(n) \subseteq n.items
    BY <1>3, Halves
  <2>8. \A r \in retired : r.id # new
    BY <1>5, <1>7 DEF RetiredOK
  <2>9. /\ m.type # "none" /\ sib.type # "none"
        /\ Live(m).leaf = N(table, i).leaf /\ Live(sib).leaf = N(table, i).leaf
        /\ Live(m).items \cup Live(sib).items = N(table, i).items
    BY <1>6, <2>3, <2>4, <2>5, <2>6, <2>7
  <2>10. HalvesPut(table, retired, i, new, m, sib, table')
    BY <1>3, <1>5, <1>7, <2>1, <2>3, <2>8, <2>9 DEF HalvesPut
  <2>11. \A k : Holds(table', retired, k) <=> Holds(table, retired, k)
    BY <2>10, HalvesHeld
  <2> QED BY <2>1, <2>11 DEF KeysKept
<1> QED BY <1>8, <1>9

(* A node that takes up the keys of its right sibling.                      *)
JoinPut(T, R, i, d, m, T2) ==
  /\ Entries(T) /\ InT(T, R, i) /\ InT(T, R, d) /\ N(T, d).leaf = N(T, i).leaf /\ d # i
  /\ T2 = [T EXCEPT ![i] = m] /\ m.type # "none" /\ Live(m).leaf = N(T, i).leaf
  /\ Live(m).items = N(T, i).items \cup N(T, d).items
LEMMA JoinHeld ==
  ASSUME NEW T, NEW R, NEW i, NEW d, NEW m, NEW T2, JoinPut(T, R, i, d, m, T2), NEW k
  PROVE  Holds(T2, R, k) <=> Holds(T, R, k)
<1> USE DEF JoinPut
<1>1. i \in Ids /\ d \in Ids
  BY DEF InT
<1>2. /\ N(T2, i) = Live(m) /\ T2[i] = m
      /\ \A j \in Ids : j # i => T2[j] = T[j] /\ N(T2, j) = N(T, j)
  <2>1. T2[i] = m /\ \A j \in Ids : j # i => T2[j] = T[j]
    BY <1>1 DEF Entries
  <2> QED BY <2>1 DEF N
<1>3. \A j \in Ids : InT(T2, R, j) <=> InT(T, R, j)
  BY <1>2 DEF InT
<1>4. ASSUME Holds(T2, R, k) PROVE Holds(T, R, k)
  <2>1. PICK j \in Ids : InT(T2, R, j) /\ N(T2, j).leaf /\ k \in N(T2, j).items
    BY <1>4 DEF Holds
  <2>2. CASE j = i
    <3>1. N(T, i).leaf /\ N(T, d).leaf /\ (k \in N(T, i).items \/ k \in N(T, d).items)
      BY <1>2, <2>1, <2>2
    <3> QED BY <1>1, <3>1 DEF Holds
  <2>3. CASE j # i
    BY <1>2, <1>3, <2>1, <2>3 DEF Holds
  <2> QED BY <2>2, <2>3
<1>5. ASSUME Holds(T, R, k) PROVE Holds(T2, R, k)
  <2>1. PICK j \in Ids : InT(T, R, j) /\ N(T, j).leaf /\ k \in N(T, j).items
    BY <1>5 DEF Holds
  <2>2. N(T2, j).leaf /\ k \in N(T2, j).items
    BY <1>2, <2>1
  <2> QED BY <1>3, <2>1, <2>2 DEF Holds
<1> QED BY <1>4, <1>5

(* PostMergeNode changes no keys.                                           *)
LEMMA PostMergeKeeps ==
  ASSUME NEW z, NEW l, InvOf(z, l), NEW t \in Threads, PostMergeNode(t)
  PROVE  KeysKept
<1> DEFINE w == View(t)
           i == cur[t].id
           last == removed[t][Len(removed[t])]
           d == last.id
           m == Merge(cur[t].node, last.id, last.right)
<1>1. /\ AtNode(t) /\ removed[t] # <<>> /\ retired' = retired
  BY DEF PostMergeNode
<1>2. /\ w.pc \in {"fit", "ready"} /\ Walks(w) /\ w.cur = cur[t] /\ w.removed = removed[t]
      /\ Struct(table, retired, z, l, root) /\ ThreadOK(table, retired, z, l, t, w)
      /\ w.cur.node.type # "remove" /\ Whole(w.cur.node) /\ (~Gets(w) => w.cur.id # Nil)
  BY <1>1, At
<1>3. CASE ~(cur[t].node.next = last.id /\ Matches(cur[t]))
  BY <1>1, <1>3 DEF PostMergeNode, KeysKept
<1>4. CASE cur[t].node.next = last.id /\ Matches(cur[t])
  <2>1. table' = [table EXCEPT ![i] = m]
    BY <1>4 DEF PostMergeNode, SetCur, Write
  <2>2. /\ w.removed # <<>> /\ last = w.removed[Len(w.removed)] /\ i = w.cur.id
        /\ m = Merge(w.cur.node, d, last.right) /\ w.cur.node.next = d /\ w.cur.is = "match"
    BY <1>1, <1>2, <1>4 DEF Matches
  <2> HIDE DEF w, i, m
  <2>3. RemovedOK(table, retired, t, w) /\ Placed(w)
    BY <1>2 DEF ThreadOK
  <2>4. w.cur.id # Nil
    BY <1>2, <2>2, <2>3 DEF Placed
  <2>5. last \in Removal(table) /\ table[d].type = "remove"
    <3>1. w.removed \in Seq(Removal(table))
      BY <2>3 DEF RemovedOK
    <3>2. Len(w.removed) \in 1 .. Len(w.removed)
      BY <2>2, <3>1, EmptySeq
    <3> QED BY <2>2, <2>3, <3>1, <3>2 DEF RemovedOK
  <2>6. last.right = table[d].under[1] /\ d \in Ids /\ d # Nil
    BY <2>5, IdsNotNil DEF Removal
  <2> HIDE DEF last, d
  <2>7. /\ N(table, i) = w.cur.node /\ InT(table, retired, i)
        /\ table[i].type \notin {"remove", "abort", "none"}
    BY <1>2, <2>2, <2>4, CurMatch
  <2>8. InT(table, retired, d) /\ l[d] = l[i]
    <3>1. i \in Ids /\ N(table, i).next = d
      BY <2>2, <2>7 DEF InT
    <3> QED BY <1>2, <2>6, <2>7, <3>1 DEF Struct, Links, InC
  <2>9. N(table, d).leaf = N(table, i).leaf
    <3>1. (N(table, d).leaf <=> l[d] = 0) /\ (N(table, i).leaf <=> l[i] = 0) /\ i \in Ids
      BY <1>2, <2>6, <2>7, <2>8 DEF Struct, Levels, InT
    <3>2. Whole(N(table, d)) /\ Whole(N(table, i))
      BY <1>2, <2>6, <2>7, <2>8, <3>1, Alloc DEF Struct, InT
    <3> QED BY <2>8, <3>1, <3>2 DEF Whole
  <2>10. last.right = N(table, d)
    BY <2>5, <2>6 DEF N, Live
  <2>11. m.type = "merge" /\ m.leaf = w.cur.node.leaf /\ m.items = w.cur.node.items \cup last.right.items
    BY <1>2, <2>2, MergeFields
  <2>12. Live(m) = m /\ Entries(table) /\ d # i
    BY <1>2, <2>5, <2>7, <2>11 DEF Live, Struct
  <2>13. JoinPut(table, retired, i, d, m, table')
    BY <2>1, <2>7, <2>8, <2>9, <2>10, <2>11, <2>12 DEF JoinPut
  <2>14. \A k : Holds(table', retired, k) <=> Holds(table, retired, k)
    BY <2>13, JoinHeld
  <2> QED BY <1>1, <2>14 DEF KeysKept
<1> QED BY <1>3, <1>4

(* A thread that leaves changes no keys.                                    *)
LEMMA LeaveHeld ==
  ASSUME NEW T, NEW R, RetiredOK(T, R), NEW T2, NEW t, NEW k
  PROVE  Holds(T2, Without(R, t), k) <=> Holds(T2, R, k)
<1>1. \A j : (\A q \in Without(R, t) : q.id # j) <=> (\A r \in R : r.id # j)
  BY WithoutFrame
<1> QED BY <1>1 DEF Holds, InT

(* Nor does the cleaner: what it frees was retired.                         *)
LEMMA InvalidateKeeps ==
  ASSUME NEW z, NEW l, InvOf(z, l), InvalidateNodeID
  PROVE  KeysKept
<1>1. PICK r \in retired : retired' = retired \ {r} /\ table' = [table EXCEPT ![r.id] = None]
                           /\ r.until = {}
  BY DEF InvalidateNodeID, Write
<1>2. Struct(table, retired, z, l, root)
  BY DEF InvOf
<1>3. FreedWrite(table, retired, r, table', retired')
  BY <1>1 DEF FreedWrite
<1>4. /\ r.id \in Ids /\ table[r.id].type # "none" /\ z[r.id] = Nil /\ table'[r.id] = None
      /\ \A j \in Ids : j # r.id => table'[j] = table[j] /\ N(table', j) = N(table, j)
      /\ Entries(table')
      /\ \A q \in retired : r.id = q.id => r = q
      /\ \A q \in retired' : q \in retired /\ q.id # r.id
  BY <1>2, <1>3, FreedFrame
<1>5. None.type = "none"
  BY DEF None, Node
<1>6. ASSUME NEW j \in Ids PROVE InT(table', retired', j) <=> InT(table, retired, j)
  <2>1. CASE j = r.id
    BY <1>4, <1>5, <2>1 DEF InT
  <2>2. CASE j # r.id
    <3>1. (\A q \in retired' : q.id # j) <=> (\A q \in retired : q.id # j)
      BY <1>1, <2>2
    <3> QED BY <1>4, <2>2, <3>1 DEF InT
  <2> QED BY <2>1, <2>2
<1>7. \A j \in Ids : InT(table, retired, j) => N(table', j) = N(table, j)
  BY <1>4 DEF InT
<1>8. \A j \in Ids : InT(table', retired', j) /\ N(table', j).leaf <=> InT(table, retired, j) /\ N(table, j).leaf
  BY <1>6, <1>7
<1> QED BY <1>7, <1>8, SameHeld DEF KeysKept

(* A successful compare-and-swap of an Insert or a Delete changes its own   *)
(* key, from out of the leaves to in or from in to out, and no other.       *)
LEMMA PostDataChanges ==
  ASSUME NEW z, NEW l, InvOf(z, l), Inv', NEW t \in Threads, PostData(t), Matches(cur[t])
  PROVE  /\ Holds(table, retired, call[t].key) <=> Found(t)
         /\ Holds(table', retired', call[t].key) <=> ~Found(t)
         /\ \A k : k # call[t].key => (Holds(table', retired', k) <=> Holds(table, retired, k))
<1> DEFINE w == View(t)
           i == cur[t].id
           n == cur[t].node
           key == call[t].key
           items == IF Found(t) THEN cur[t].node.items \ {call[t].key}
                    ELSE cur[t].node.items \cup {call[t].key}
           m == Data(cur[t].node, items)
<1>1. /\ AtNode(t) /\ ~Beyond(t) /\ n.leaf /\ call[t].op # "get" /\ table' = [table EXCEPT ![i] = m]
      /\ retired' = Without(retired, t)
  BY DEF PostData, AtLeaf, Navigating, Write, Leave, Without
<1>2. /\ w.pc \in {"fit", "ready"} /\ Walks(w)
      /\ w.cur = cur[t] /\ w.call = call[t]
      /\ Struct(table, retired, z, l, root) /\ ThreadOK(table, retired, z, l, t, w)
      /\ w.cur.node.type # "remove" /\ Whole(w.cur.node)
      /\ (~Gets(w) => w.cur.id # Nil)
      /\ w.cur.node.low <= w.call.key /\ w.call.key \in Keys /\ w.call.key \in Nat
  BY <1>1, At
<1>3. w.cur.is = "match" /\ w.cur.id = i /\ i # Nil /\ w.cur.node = n /\ w.call.key = key
  BY <1>1, <1>2 DEF Matches, Gets
<1>4. n.next # Nil => key < n.high
  BY <1>1, <1>2 DEF Beyond, Whole
<1>5. m = Data(n, items) /\ (Found(t) <=> key \in n.items)
      /\ items = IF Found(t) THEN n.items \ {key} ELSE n.items \cup {key}
  BY DEF Found
<1> HIDE DEF w, i, n, key, items, m
<1>6. /\ i \in Ids /\ table[i] = w.cur.node /\ N(table, i) = w.cur.node
      /\ InC(table, retired, z, i) /\ InT(table, retired, i)
      /\ table[i].type \notin {"remove", "abort", "none"}
  BY <1>2, <1>3, CurMatch
<1>7. n.low <= key /\ key < n.high /\ key \in Keys /\ key \in Nat /\ Whole(n)
  <2>1. key < Inf
    BY <1>2, <1>3, SizeAssumption DEF Keys, Inf
  <2> QED BY <1>2, <1>3, <1>4, <2>1 DEF Whole
<1>8. \A k \in items : k \in Keys /\ n.low <= k /\ k < n.high
  BY <1>1, <1>5, <1>7 DEF Whole
<1>9. /\ Whole(m) /\ m.type = "delta" /\ m.leaf = n.leaf /\ m.low = n.low
      /\ m.high = n.high /\ m.next = n.next /\ m.items = items
  <2>1. n.leaf => \A k \in items : k \in Keys /\ n.low <= k /\ k < n.high
    BY <1>8
  <2>2. ~n.leaf => /\ \A x \in items : /\ x = <<x[1], x[2]>> /\ x[1] \in Nat /\ x[2] \in Ids
                                        /\ n.low <= x[1] /\ x[1] < n.high
                   /\ \A x, y \in items : x[1] = y[1] => x = y
                   /\ \E x \in items : x[1] = n.low
    BY <1>1
  <2> QED BY <1>5, <1>7, <2>1, <2>2, DataFields
<1>10. Live(m) = m
  BY <1>9 DEF Live
<1>11. Entries(table) /\ RetiredOK(table, retired)
  BY <1>2 DEF Struct
<1>12. /\ N(table', i) = m /\ table'[i] = m
       /\ \A j \in Ids : j # i => table'[j] = table[j] /\ N(table', j) = N(table, j)
  <2>1. table'[i] = m /\ \A j \in Ids : j # i => table'[j] = table[j]
    BY <1>1, <1>6, <1>11 DEF Entries
  <2> QED BY <1>10, <2>1 DEF N
<1>13. \A k : Holds(table', retired', k) <=> Holds(table', retired, k)
  BY <1>1, <1>11, LeaveHeld
<1>14. \A j \in Ids : InT(table', retired, j) <=> InT(table, retired, j)
  BY <1>6, <1>9, <1>12 DEF InT
<1>15. Holds(table, retired, key) <=> key \in n.items
  BY <1>1, <1>2, <1>3, <1>6, <1>7, LeafTells
<1>16. Holds(table', retired', key) <=> key \in items
  <2>1. PICK z2, l2 : Struct(table', retired', z2, l2, root')
    BY DEF Inv, InvOf
  <2>2. InT(table', retired', i)
    <3>1. \A q \in retired' : q.id # i
      BY <1>1, <1>6, <1>11, WithoutFrame DEF InT
    <3> QED BY <1>6, <1>9, <1>12, <3>1 DEF InT
  <2>3. InC(table', retired', z2, i)
    <3>1. table'[i].type # "remove"
      BY <1>9, <1>12
    <3>2. z2[i] # Nil => table'[i].type = "remove"
      BY <1>6, <2>1 DEF Struct, Zombies, Merged
    <3> QED BY <2>2, <3>1, <3>2 DEF InC
  <2>4. N(table', i).leaf /\ N(table', i).low <= key /\ key < N(table', i).high /\ N(table', i).items = items
    BY <1>1, <1>7, <1>9, <1>12
  <2> QED BY <1>7, <2>1, <2>3, <2>4, LeafTells
<1>17. ASSUME NEW k, k # key PROVE Holds(table', retired, k) <=> Holds(table, retired, k)
  <2>1. k \in items <=> k \in n.items
    BY <1>5, <1>17
  <2>2. \A j \in Ids : /\ N(table', j).leaf = N(table, j).leaf
                       /\ k \in N(table', j).items <=> k \in N(table, j).items
    BY <1>3, <1>6, <1>9, <1>12, <2>1
  <2> QED BY <1>14, <2>2 DEF Holds
<1>18. key \in items <=> ~Found(t)
  BY <1>5
<1> QED BY <1>5, <1>13, <1>15, <1>16, <1>17, <1>18 DEF key
-----------------------------------------------------------------------------
(* The keys of the leaves, step by step *)

(* No step but a successful compare-and-swap of an Insert or a Delete       *)
(* changes the keys the leaves hold.                                        *)
LEMMA StepKeeps ==
  ASSUME NEW z, NEW l, InvOf(z, l), NEW t \in Threads, Step(t), ~(PostData(t) /\ Matches(cur[t]))
  PROVE  KeysKept
<1>1. table' = table /\ retired' = retired => KeysKept
  BY DEF KeysKept
<1>2. CASE Call(t) \/ ReadRoot(t) \/ LoadRoot(t) \/ JumpToNodeID(t) \/ JumpToLeftSibling(t)
  BY <1>1, <1>2 DEF Call, ReadRoot, LoadRoot, JumpToNodeID, JumpToLeftSibling, treeVars
<1>3. CASE CheckSplitChild(t) \/ GoRight(t) \/ GoDown(t)
  BY <1>1, <1>3 DEF CheckSplitChild, GoRight, GoDown, treeVars
<1>4. CASE Answer(t)
  <2>1. table' = table /\ retired' = Without(retired, t)
    BY <1>4 DEF Answer, Leave, Without
  <2>2. RetiredOK(table, retired)
    BY DEF InvOf, Struct
  <2> QED BY <2>1, <2>2, LeaveHeld DEF KeysKept
<1>5. CASE PostData(t)
  BY <1>1, <1>5 DEF PostData
<1>6. CASE PostMergeNode(t)
  BY <1>6, PostMergeKeeps
<1>7. CASE FinishMerge(t)
  BY <1>7, FinishMergeKeeps
<1>8. CASE SplitRoot(t)
  BY <1>8, SplitRootKeeps
<1>9. CASE FinishSplit(t)
  BY <1>9, FinishSplitKeeps
<1>10. CASE ConsolidateNode(t)
  BY <1>10, ConsolidateKeeps
<1>11. CASE SplitNode(t)
  BY <1>11, SplitNodeKeeps
<1>12. CASE PostAbortOnParent(t)
  BY <1>12, PostAbortKeeps
<1>13. CASE PostRemoveNode(t)
  BY <1>13, PostRemoveKeeps
<1>14. CASE RemoveAbortOnParent(t)
  BY <1>14, RemoveAbortKeeps
<1> QED BY <1>2, <1>3, <1>4, <1>5, <1>6, <1>7, <1>8, <1>9, <1>10, <1>11, <1>12, <1>13, <1>14 DEF Step

(* The keys the leaves hold are what the walk along next finds, after the   *)
(* step as before it.                                                       *)
LEMMA ContentsAfter ==
  ASSUME Inv, Inv'
  PROVE  /\ \A k : k \in Contents <=> Holds(table, retired, k)
         /\ \A k : k \in Contents' <=> Holds(table', retired', k)
<1>1. \A k : k \in Contents <=> Holds(table, retired, k)
  BY ContentsAre
<1>2. (\A k : k \in Contents <=> Holds(table, retired, k))'
  BY ContentsAre, PTL
<1> QED BY <1>1, <1>2

(* A truth a call saw is in its history, whichever way it is put.           *)
LEMMA SameTruth ==
  ASSUME NEW P \in BOOLEAN, NEW Q \in BOOLEAN, P <=> Q, NEW S, P \in S
  PROVE  Q \in S
<1>1. P = Q
  OBVIOUS
<1> QED BY <1>1

(* What KeySet records of the calls in a step.                              *)
LEMMA Observed ==
  ASSUME Observe
  PROVE  /\ seen' = [t \in Threads |-> seen'[t]]
         /\ \A t \in Threads :
              /\ call'[t].op = "none" => seen'[t] = {}
              /\ call'[t].op # "none" =>
                   /\ (call'[t].key \in Contents') \in seen'[t]
                   /\ call[t] = call'[t] => seen'[t] = seen[t] \cup {call'[t].key \in Contents'}
<1>1. seen' = [t \in Threads |->
                 IF call'[t].op = "none" THEN {}
                 ELSE (IF call[t] = call'[t] THEN seen[t] ELSE {}) \cup {call'[t].key \in Contents'}]
  BY DEF Observe, KeySetOf!Observe
<1> QED BY <1>1
-----------------------------------------------------------------------------
(* What a thread saw of its key *)

AtStart(t) == pc[t] \in {"out", "root", "load"}

(* The leaf a thread is at covers the key of its call.                      *)
Covers(t) ==
  /\ ~AtStart(t) /\ cur[t].node.leaf /\ cur[t].node.type # "remove"
  /\ cur[t].node.low <= call[t].key /\ call[t].key < cur[t].node.high

(* What that leaf says of the key was true at some moment of the call.      *)
SeenOK ==
  /\ seen = [t \in Threads |-> seen[t]]
  /\ \A t \in Threads :
       /\ call[t].op = "none" => seen[t] = {}
       /\ call[t].op # "none" => (call[t].key \in Contents) \in seen[t]
       /\ Covers(t) => Found(t) \in seen[t]

(* A current snapshot tells the truth.                                      *)
LiveIsTrue ==
  \A t \in Threads : Covers(t) /\ Lives(cur[t]) => (Found(t) <=> call[t].key \in Contents)
LEMMA LiveTells == Inv => LiveIsTrue
<1> SUFFICES ASSUME Inv, NEW t \in Threads, Covers(t), Lives(cur[t])
             PROVE  Found(t) <=> call[t].key \in Contents
  BY DEF LiveIsTrue
<1>1. PICK z, l : InvOf(z, l)
  BY DEF Inv
<1> DEFINE w == View(t)
<1>2. /\ Struct(table, retired, z, l, root) /\ ThreadOK(table, retired, z, l, t, w)
      /\ w.pc = pc[t] /\ w.cur = cur[t] /\ w.call = call[t]
  BY <1>1, ViewFields DEF InvOf
<1> HIDE DEF w
<1>3. Walks(w) /\ Lives(w.cur) /\ w.cur.node.type # "remove"
  BY <1>2 DEF Walks, AtStart, Covers
<1>4. InC(table, retired, z, w.cur.id) /\ N(table, w.cur.id) = w.cur.node
  BY <1>2, <1>3, CurCurrent
<1>5. w.call.key \in Nat
  BY <1>2, <1>3, SizeAssumption DEF ThreadOK, Placed, Walks, Keys
<1>6. w.call.key \in w.cur.node.items <=> Holds(table, retired, w.call.key)
  BY <1>2, <1>4, <1>5, LeafTells DEF Covers
<1>7. w.call.key \in Contents <=> Holds(table, retired, w.call.key)
  BY ContentsAre
<1> QED BY <1>2, <1>6, <1>7 DEF Found

(* So does a leaf a GetValue has just read, whose NodeID it keeps no longer.*)
LEMMA ReadTells ==
  ASSUME Inv, NEW z, NEW l, InvOf(z, l), NEW t, NEW i, Guarded(table, retired, t, i),
         table[i].type # "remove", NEW n, n = Snapshot(i).node, n.leaf,
         NEW k \in Nat, n.low <= k, k < n.high
  PROVE  k \in n.items <=> k \in Contents
<1>1. n = N(table, i)
  BY DEF Snapshot, N, Live
<1>2. Struct(table, retired, z, l, root)
  BY DEF InvOf
<1>3. InC(table, retired, z, i)
  BY <1>2, GuardedInC
<1>4. k \in n.items <=> Holds(table, retired, k)
  BY <1>1, <1>2, <1>3, LeafTells
<1> QED BY <1>4, ContentsAre

(* The child a thread goes down to is one it may follow.                    *)
LEMMA ChildGuarded ==
  ASSUME NEW z, NEW l, InvOf(z, l), NEW t \in Threads, AtNode(t), ~cur[t].node.leaf
  PROVE  Guarded(table, retired, t, ChildFor(cur[t].node, call[t].key))
<1> DEFINE w == View(t)
           i == ChildFor(cur[t].node, call[t].key)
<1>1. /\ Walks(w) /\ w.cur = cur[t] /\ w.call = call[t]
      /\ ThreadOK(table, retired, z, l, t, w) /\ Whole(w.cur.node)
      /\ w.cur.node.low <= w.call.key /\ w.call.key \in Nat
  BY At
<1>2. i = ChildFor(w.cur.node, w.call.key) /\ ~w.cur.node.leaf
  BY <1>1
<1> HIDE DEF w, i
<1>3. PICK v \in Nat : NodeRefs(table, retired, l, t, w.cur.node, v)
  BY <1>1 DEF ThreadOK, CurOK
<1>4. PICK s \in w.cur.node.items : s[2] = i /\ s[1] <= w.call.key
  BY <1>1, <1>2, ChildForIs
<1>5. Ref(table, retired, l, t, i, s[1], v - 1)
  BY <1>2, <1>3, <1>4 DEF NodeRefs
<1> QED BY <1>5 DEF Ref, i
-----------------------------------------------------------------------------
(* Where a thread's current node comes from *)

(* Only GetValue walks without the NodeID it is at.                         *)
NilIsRead == \A t \in Threads : ~AtStart(t) /\ cur[t].id = Nil => pc[t] = "ready" /\ Reads(t)
LEMMA NilReads == Inv => NilIsRead
<1> SUFFICES ASSUME Inv, NEW t \in Threads, ~AtStart(t), cur[t].id = Nil
             PROVE  pc[t] = "ready" /\ Reads(t)
  BY DEF NilIsRead
<1>1. PICK z, l : InvOf(z, l)
  BY DEF Inv
<1>2. /\ ThreadOK(table, retired, z, l, t, View(t))
      /\ View(t).pc = pc[t] /\ View(t).cur = cur[t] /\ View(t).call = call[t]
  BY <1>1, ViewFields DEF InvOf
<1> QED BY <1>2 DEF ThreadOK, Walks, AtStart, CurOK, Gets, Reads

(* A write to a table entry leaves every snapshot its node.                 *)
LEMMA OutdateNode ==
  ASSUME NEW z, NEW l, InvOf(z, l), NEW t \in Threads, NEW i
  PROVE  Outdate(cur, i)[t].node = cur[t].node
<1>1. SnapOK(table, cur[t])
  BY ViewFields DEF InvOf, ThreadOK
<1>2. cur[t] = [id |-> cur[t].id, node |-> cur[t].node, is |-> cur[t].is]
  BY <1>1 DEF SnapOK
<1>3. Outdate(cur, i)[t] = IF cur[t].id = i THEN [cur[t] EXCEPT !.is = "stale"] ELSE cur[t]
  BY DEF Outdate
<1>4. [cur[t] EXCEPT !.is = "stale"].node = cur[t].node
  BY <1>2
<1> QED BY <1>3, <1>4

(* So does an abort record, put or taken off.                               *)
LEMMA RespellNode ==
  ASSUME NEW z, NEW l, InvOf(z, l), NEW t \in Threads, NEW p, NEW from, NEW to
  PROVE  Respell(cur[t], p, from, to).node = cur[t].node
<1>1. SnapOK(table, cur[t])
  BY ViewFields DEF InvOf, ThreadOK
<1>2. cur[t] = [id |-> cur[t].id, node |-> cur[t].node, is |-> cur[t].is]
  BY <1>1 DEF SnapOK
<1>3. [cur[t] EXCEPT !.is = to].node = cur[t].node
  BY <1>2
<1> QED BY <1>3 DEF Respell

(* What a step leaves to a thread: its node.                                *)
KeepsNodes(W) == \A t \in W : cur'[t].node = cur[t].node

(* A thread that goes to another node, or starts over, changes its own      *)
(* snapshot only.                                                           *)
LEMMA OwnMoves ==
  ASSUME NEW z, NEW l, InvOf(z, l), NEW u \in Threads
  PROVE  /\ Retry(u) => KeepsNodes(Threads \ {u})
         /\ \A id : TakeNodeSnapshot(u, id) => KeepsNodes(Threads \ {u})
         /\ \A id : UpdateNodeSnapshot(u, id) => KeepsNodes(Threads \ {u})
         /\ \A id : LoadNodeIDReadOptimized(u, id) => KeepsNodes(Threads \ {u})
         /\ \A i, n : SetCur(u, i, n) => KeepsNodes(Threads \ {u})
<1>1. cur = [t \in Threads |-> cur[t]]
  BY DEF InvOf, Shapes
<1>2. \A s : cur' = [cur EXCEPT ![u] = s] => KeepsNodes(Threads \ {u})
  BY <1>1 DEF KeepsNodes
<1>3. ASSUME NEW i, NEW n, SetCur(u, i, n) PROVE KeepsNodes(Threads \ {u})
  <2>1. cur' = [Outdate(cur, i) EXCEPT ![u] = Written(i, n)]
    BY <1>3 DEF SetCur
  <2>2. \A t \in Threads \ {u} : cur'[t] = Outdate(cur, i)[t]
    BY <2>1 DEF Outdate
  <2> QED BY <2>2, OutdateNode DEF KeepsNodes
<1>4. Retry(u) => KeepsNodes(Threads \ {u})
  BY <1>2 DEF Retry
<1> QED BY <1>2, <1>3, <1>4 DEF TakeNodeSnapshot, UpdateNodeSnapshot, LoadNodeIDReadOptimized

(* A step leaves the other threads their nodes and their calls.             *)
LEMMA OthersKeep ==
  ASSUME NEW z, NEW l, InvOf(z, l), NEW u \in Threads, Step(u)
  PROVE  KeepsNodes(Threads \ {u}) /\ \A t \in Threads \ {u} : call'[t] = call[t]
<1>1. /\ cur = [t \in Threads |-> cur[t]]
      /\ call = [t \in Threads |-> call[t]]
  BY DEF InvOf, Shapes
<1>2. cur' = cur => KeepsNodes(Threads \ {u})
  BY DEF KeepsNodes
<1>3. \A i : cur' = Outdate(cur, i) => KeepsNodes(Threads \ {u})
  BY OutdateNode DEF KeepsNodes
<1>4. ASSUME NEW i, cur' = [Outdate(cur, i) EXCEPT ![u] = NoSnapshot] PROVE KeepsNodes(Threads \ {u})
  <2>1. \A t \in Threads \ {u} : cur'[t] = Outdate(cur, i)[t]
    BY <1>4 DEF Outdate
  <2> QED BY <2>1, OutdateNode DEF KeepsNodes
<1>5. ASSUME Answer(u) \/ PostData(u) PROVE KeepsNodes(Threads \ {u})
  <2>1. CASE cur' = [cur EXCEPT ![u] = NoSnapshot]
    BY <1>1, <2>1 DEF KeepsNodes
  <2>2. CASE cur' # [cur EXCEPT ![u] = NoSnapshot]
    BY <1>4, <1>5, <2>2 DEF Answer, PostData, Retry
  <2> QED BY <2>1, <2>2
<1>6. CASE Call(u) \/ Answer(u) \/ PostData(u)
  <2>1. \A t \in Threads \ {u} : call'[t] = call[t]
    BY <1>1, <1>6 DEF Call, Answer, PostData, Leave
  <2> QED BY <1>2, <1>5, <1>6, <2>1 DEF Call
<1>7. CASE ReadRoot(u) \/ LoadRoot(u) \/ JumpToNodeID(u) \/ GoRight(u) \/ GoDown(u)
  BY <1>2, <1>7, OwnMoves DEF ReadRoot, LoadRoot, JumpToNodeID, GoRight, GoDown
<1>8. CASE JumpToLeftSibling(u) \/ PostMergeNode(u) \/ ConsolidateNode(u)
  BY <1>2, <1>8, OwnMoves DEF JumpToLeftSibling, PostMergeNode, ConsolidateNode
<1>9. CASE FinishMerge(u)
  BY <1>2, <1>3, <1>9, OwnMoves DEF FinishMerge, SetPar
<1>10. CASE FinishSplit(u)
  BY <1>2, <1>3, <1>10, OwnMoves DEF FinishSplit, SetPar
<1>11. CASE SplitRoot(u) \/ CheckSplitChild(u) \/ SplitNode(u)
  BY <1>2, <1>4, <1>11, OwnMoves DEF SplitRoot, CheckSplitChild, SplitNode
<1>12. CASE PostRemoveNode(u)
  BY <1>2, <1>3, <1>12 DEF PostRemoveNode
<1>13. CASE PostAbortOnParent(u)
  <2>1. call' = call /\ (Retry(u) => KeepsNodes(Threads \ {u}))
    BY <1>13, OwnMoves DEF PostAbortOnParent
  <2>2. CASE ~Retry(u)
    <3>1. cur' = [t \in Threads |-> Respell(cur[t], par[u].id, "match", "under")]
      BY <1>13, <2>2 DEF PostAbortOnParent, Respell
    <3> QED BY <2>1, <3>1, RespellNode DEF KeepsNodes
  <2> QED BY <2>1, <2>2
<1>14. CASE RemoveAbortOnParent(u)
  <2> DEFINE C == [t \in Threads |-> Respell(cur[t], par[u].id, "under", "match")]
  <2>1. call' = call /\ cur' = [C EXCEPT ![u] = NoSnapshot]
    BY <1>14 DEF RemoveAbortOnParent, Respell
  <2>2. \A t \in Threads \ {u} : cur'[t] = Respell(cur[t], par[u].id, "under", "match")
    BY <2>1
  <2> QED BY <2>1, <2>2, RespellNode DEF KeepsNodes
<1> QED BY <1>6, <1>7, <1>8, <1>9, <1>10, <1>11, <1>12, <1>13, <1>14 DEF Step

(* After a step of its own a thread is at the node it was at, at one the    *)
(* table has now, or it is a GetValue that just read one.                   *)
JustRead(t) ==
  /\ UNCHANGED <<table, retired>>
  /\ \E i : /\ Guarded(table, retired, t, i) /\ table[i].type # "remove"
            /\ cur'[t].node = Snapshot(i).node
Arrived(t) ==
  /\ call'[t] = call[t]
  /\ \/ ~AtStart(t) /\ cur'[t].node = cur[t].node
     \/ Lives(cur'[t])
     \/ JustRead(t)
LEMMA Arrives ==
  ASSUME NEW z, NEW l, InvOf(z, l), Inv', NEW t \in Threads, Step(t), ~AtStart(t)'
  PROVE  Arrived(t)
<1>1. /\ pc = [u \in Threads |-> pc[u]] /\ cur = [u \in Threads |-> cur[u]]
      /\ Inv
  BY DEF InvOf, Shapes, Inv
<1>2. pc'[t] \notin {"out", "root", "load"}
  BY DEF AtStart
<1>3. /\ ~Retry(t) /\ ~To(t, "root") /\ ~To(t, "out") /\ ~To(t, "load")
  BY <1>1, <1>2 DEF Retry, To
<1>4. cur'[t].id = Nil => pc'[t] = "ready"
  <2>1. NilIsRead'
    BY NilReads, PTL
  <2> QED BY <2>1 DEF NilIsRead
<1>5. ASSUME NEW i, cur'[t] = Snapshot(i), pc'[t] = Stage(Snapshot(i).node) PROVE Lives(cur'[t])
  <2>1. pc'[t] # "ready" /\ cur'[t].is # "stale"
    BY <1>5 DEF Stage, Snapshot
  <2> QED BY <1>4, <2>1 DEF Lives
<1>6. \A i : TakeNodeSnapshot(t, i) => Lives(cur'[t])
  BY <1>1, <1>5 DEF TakeNodeSnapshot, To
<1>7. \A i : UpdateNodeSnapshot(t, i) => Lives(cur'[t])
  BY <1>1, <1>5 DEF UpdateNodeSnapshot, To
<1>8. ASSUME NEW i, LoadNodeIDReadOptimized(t, i), Guarded(table, retired, t, i), UNCHANGED <<table, retired>>
      PROVE  JustRead(t)
  <2>1. table[i].type # "remove" /\ cur'[t] = [Snapshot(i) EXCEPT !.id = Nil]
    BY <1>1, <1>3, <1>8 DEF LoadNodeIDReadOptimized
  <2>2. cur'[t].node = Snapshot(i).node
    BY <2>1 DEF Snapshot
  <2> QED BY <1>8, <2>1, <2>2 DEF JustRead
<1>9. ASSUME NEW n, SetCur(t, cur[t].id, n), cur[t].id # Nil PROVE Lives(cur'[t])
  <2>1. cur'[t] = Written(cur[t].id, n)
    BY <1>1, <1>9 DEF SetCur, Outdate
  <2> QED BY <1>9, <2>1 DEF Written, Lives
<1>10. \A i : cur' = Outdate(cur, i) => cur'[t].node = cur[t].node
  BY OutdateNode
<1>11. CASE Call(t) \/ ReadRoot(t) \/ SplitRoot(t) \/ RemoveAbortOnParent(t) \/ Answer(t) \/ PostData(t)
  BY <1>3, <1>11 DEF Call, ReadRoot, SplitRoot, RemoveAbortOnParent, Answer, PostData, Leave
<1>12. CASE LoadRoot(t)
  <2>1. Guarded(table, retired, t, go[t])
    <3>1. ThreadOK(table, retired, z, l, t, View(t)) /\ View(t).go = go[t] /\ View(t).pc = "load"
      BY <1>12, ViewFields DEF InvOf, LoadRoot
    <3> QED BY <3>1 DEF ThreadOK, GoOK
  <2> QED BY <1>6, <1>8, <1>12, <2>1 DEF LoadRoot, Arrived, treeVars
<1>13. CASE GoDown(t)
  <2>1. Guarded(table, retired, t, ChildFor(cur[t].node, call[t].key))
    BY <1>13, ChildGuarded DEF GoDown, Navigating
  <2> QED BY <1>6, <1>8, <1>13, <2>1 DEF GoDown, Arrived, treeVars
<1>14. CASE JumpToNodeID(t) \/ GoRight(t)
  BY <1>7, <1>14 DEF JumpToNodeID, GoRight, Arrived
<1>15. CASE JumpToLeftSibling(t) \/ CheckSplitChild(t)
  BY <1>3, <1>15 DEF JumpToLeftSibling, CheckSplitChild, Arrived, AtStart
<1>16. CASE PostMergeNode(t)
  <2>1. AtNode(t) /\ removed[t] # <<>>
    BY <1>16 DEF PostMergeNode
  <2>2. cur[t].id # Nil
    <3>1. /\ ThreadOK(table, retired, z, l, t, View(t)) /\ View(t).cur = cur[t]
          /\ View(t).removed = removed[t] /\ (~Gets(View(t)) => View(t).cur.id # Nil)
      BY <2>1, At
    <3> QED BY <2>1, <3>1 DEF ThreadOK, Placed
  <2> QED BY <1>3, <1>9, <1>16, <2>2 DEF PostMergeNode, Arrived
<1>17. CASE ConsolidateNode(t)
  <2>1. pc[t] \in {"fit", "consolidate"}
    BY <1>17 DEF ConsolidateNode
  <2>2. cur[t].id # Nil /\ ~AtStart(t)
    BY <1>1, <2>1, NilReads DEF AtStart, NilIsRead
  <2> QED BY <1>9, <1>17, <2>2 DEF ConsolidateNode, Arrived
<1>18. CASE FinishMerge(t)
  BY <1>3, <1>10, <1>18 DEF FinishMerge, SetPar, Arrived, AtStart
<1>19. CASE FinishSplit(t)
  BY <1>3, <1>10, <1>19 DEF FinishSplit, SetPar, Arrived, AtStart
<1>20. CASE SplitNode(t)
  BY <1>3, <1>20 DEF SplitNode, Arrived, AtStart
<1>21. CASE PostRemoveNode(t)
  BY <1>10, <1>21 DEF PostRemoveNode, Arrived, AtStart
<1>22. CASE PostAbortOnParent(t)
  <2>1. cur' = [u \in Threads |-> Respell(cur[u], par[t].id, "match", "under")]
    BY <1>3, <1>22 DEF PostAbortOnParent, Respell
  <2>2. cur'[t].node = cur[t].node
    BY <2>1, RespellNode
  <2> QED BY <1>22, <2>2 DEF PostAbortOnParent, Arrived, AtStart
<1> QED BY <1>11, <1>12, <1>13, <1>14, <1>15, <1>16, <1>17, <1>18, <1>19, <1>20, <1>21, <1>22 DEF Step

(* A thread inside the tree is in a call, about a key.                      *)
Calling == \A t \in Threads : ~AtStart(t) => call[t].op # "none" /\ call[t].key \in Nat
LEMMA CallingFollows == Inv => Calling
<1> SUFFICES ASSUME Inv, NEW t \in Threads, ~AtStart(t)
             PROVE  call[t].op # "none" /\ call[t].key \in Nat
  BY DEF Calling
<1>1. PICK z, l : InvOf(z, l)
  BY DEF Inv
<1>2. Placed(View(t)) /\ View(t).pc = pc[t] /\ View(t).call = call[t]
  BY <1>1, ViewFields DEF InvOf, ThreadOK
<1> QED BY <1>2, SizeAssumption DEF Placed, AtStart, Keys

(* What a thread knew stays true of some moment of its call.                *)
LEMMA StaysSeen ==
  ASSUME SeenOK, Observe, NEW t \in Threads, call'[t] = call[t], call[t].op # "none",
         ~AtStart(t), pc'[t] = pc[t] \/ ~AtStart(t)', cur'[t].node = cur[t].node, Covers(t)'
  PROVE  Found(t)' \in seen'[t]
<1>1. Covers(t)
  BY DEF Covers
<1>2. Found(t) \in seen[t]
  BY <1>1 DEF SeenOK
<1>3. Found(t)' = Found(t)
  BY DEF Found
<1>4. seen'[t] = seen[t] \cup {call'[t].key \in Contents'}
  BY Observed
<1> QED BY <1>2, <1>3, <1>4

(* What is true after the step is seen in it.                               *)
LEMMA NowSeen ==
  ASSUME Observe, NEW t \in Threads, call'[t].op # "none", Found(t)' <=> call'[t].key \in Contents'
  PROVE  Found(t)' \in seen'[t]
<1>1. (call'[t].key \in Contents') \in seen'[t]
  BY Observed
<1>2. Found(t)' <=> (call'[t].key \in cur'[t].node.items)
  BY DEF Found
<1>3. (call'[t].key \in cur'[t].node.items) \in seen'[t]
  BY <1>1, <1>2, SameTruth
<1> QED BY <1>3 DEF Found

(* Every step keeps what the threads saw.                                   *)
LEMMA SeenStep ==
  ASSUME Inv, Inv', SeenOK, Next
  PROVE  SeenOK'
<1>1. PICK z, l : InvOf(z, l)
  BY DEF Inv
<1>2. Observe
  BY DEF Next
<1>3. Calling'
  BY CallingFollows, PTL
<1>4. ASSUME NEW t \in Threads, Covers(t)' PROVE Found(t)' \in seen'[t]
  <2>1. ~AtStart(t)' /\ call'[t].op # "none" /\ call'[t].key \in Nat
    BY <1>3, <1>4 DEF Covers, Calling
  <2>2. ASSUME call'[t] = call[t], ~AtStart(t), cur'[t].node = cur[t].node
        PROVE  Found(t)' \in seen'[t]
    BY <1>2, <1>4, <2>1, <2>2, StaysSeen
  <2>3. ASSUME pc'[t] = pc[t] PROVE ~AtStart(t)
    BY <2>1, <2>3 DEF AtStart
  <2>4. CASE InvalidateNodeID \/ AllReturned
    BY <2>2, <2>3, <2>4 DEF InvalidateNodeID, AllReturned, threadVars
  <2>5. ASSUME NEW u \in Threads, Step(u), u # t PROVE Found(t)' \in seen'[t]
    <3>1. pc'[t] = pc[t]
      BY <1>1, <2>5, OnlyMine DEF InvOf
    <3>2. cur'[t].node = cur[t].node /\ call'[t] = call[t]
      BY <1>1, <2>5, OthersKeep DEF KeepsNodes
    <3> QED BY <2>2, <2>3, <3>1, <3>2
  <2>6. ASSUME Step(t) PROVE Found(t)' \in seen'[t]
    <3>1. Arrived(t)
      BY <1>1, <2>1, <2>6, Arrives
    <3>2. CASE ~AtStart(t) /\ cur'[t].node = cur[t].node
      BY <2>2, <3>1, <3>2 DEF Arrived
    <3>3. CASE Lives(cur'[t])
      <4>1. LiveIsTrue'
        BY LiveTells, PTL
      <4>2. Found(t)' <=> call'[t].key \in Contents'
        BY <1>4, <3>3, <4>1 DEF LiveIsTrue
      <4> QED BY <1>2, <2>1, <4>2, NowSeen
    <3>4. CASE JustRead(t)
      <4>1. PICK i : /\ Guarded(table, retired, t, i) /\ table[i].type # "remove"
                     /\ cur'[t].node = Snapshot(i).node
        BY <3>4 DEF JustRead
      <4>2. /\ cur'[t].node.leaf /\ cur'[t].node.low <= call'[t].key
            /\ call'[t].key < cur'[t].node.high
        BY <1>4 DEF Covers
      <4>3. call'[t].key \in cur'[t].node.items <=> call'[t].key \in Contents
        BY <1>1, <2>1, <4>1, <4>2, ReadTells
      <4>4. call'[t].key \in Contents <=> call'[t].key \in Contents'
        BY <3>4, ContentsAfter DEF JustRead
      <4> QED BY <1>2, <2>1, <4>3, <4>4, NowSeen DEF Found
    <3> QED BY <3>1, <3>2, <3>3, <3>4 DEF Arrived
  <2> QED BY <2>4, <2>5, <2>6 DEF Next
<1>5. \A t \in Threads :
        /\ call'[t].op = "none" => seen'[t] = {}
        /\ call'[t].op # "none" => (call'[t].key \in Contents') \in seen'[t]
  BY <1>2, Observed
<1>6. seen' = [t \in Threads |-> seen'[t]]
  BY <1>2, Observed
<1> QED BY <1>4, <1>5, <1>6 DEF SeenOK
-----------------------------------------------------------------------------
(* The tree implements a set of keys *)

(* At a leaf, the thread is at the one that covers its key.                 *)
LEMMA LeafCovers ==
  ASSUME Inv, NEW t \in Threads, AtLeaf(t)
  PROVE  Covers(t) /\ call[t].op \in {"insert", "delete", "get"}
<1>1. PICK z, l : InvOf(z, l)
  BY DEF Inv
<1>2. AtNode(t) /\ ~Beyond(t) /\ cur[t].node.leaf
  BY DEF AtLeaf, Navigating
<1> DEFINE w == View(t)
<1>3. /\ w.pc \in {"fit", "ready"} /\ w.pc = pc[t] /\ w.cur = cur[t] /\ w.call = call[t]
      /\ w.cur.node.type # "remove" /\ Whole(w.cur.node)
      /\ w.cur.node.low <= w.call.key /\ w.call.key \in Keys
      /\ w.call.op \in {"insert", "delete", "get"}
  BY <1>1, <1>2, At
<1> HIDE DEF w
<1>4. w.call.key < w.cur.node.high
  <2>1. w.cur.node.high \in Nat /\ (w.cur.node.next = Nil => w.cur.node.high = Inf)
    BY <1>3 DEF Whole
  <2>2. w.cur.node.next = Nil \/ ~(w.call.key >= w.cur.node.high)
    BY <1>2, <1>3 DEF Beyond
  <2> QED BY <1>3, <2>1, <2>2, SizeAssumption DEF Keys, Inf
<1> QED BY <1>2, <1>3, <1>4 DEF Covers, AtStart

(* The trees to begin with are sets of keys nobody has called about.        *)
LEMMA StartsAsSet == Init => KeySetOf!Init /\ SeenOK
<1> SUFFICES ASSUME Init PROVE KeySetOf!Init /\ SeenOK
  OBVIOUS
<1>1. Inv
  BY InitInv
<1>2. Contents \in SUBSET Keys
  <2>1. PICK z, l : Struct(table, retired, z, l, root)
    BY <1>1 DEF Inv, InvOf
  <2> QED BY <1>1, <2>1, ContentsAre, HeldKeys
<1>3. /\ call = [t \in Threads |-> Idle(FALSE)] /\ seen = [t \in Threads |-> {}]
      /\ pc = [t \in Threads |-> "out"]
  BY DEF Init
<1>4. KeySetOf!Init
  BY <1>2, <1>3 DEF KeySetOf!Init, KeySetOf!Idle, Idle
<1>5. SeenOK
  BY <1>3 DEF SeenOK, Idle, Covers, AtStart
<1> QED BY <1>4, <1>5

(* A step that keeps the keys and the calls is none of the set's.           *)
LEMMA SetRests ==
  ASSUME Inv, Inv', SeenOK, Observe, KeysKept, call' = call
  PROVE  UNCHANGED KeySetOf!vars
<1>1. Contents' = Contents
  BY ContentsAfter DEF KeysKept
<1>2. ASSUME NEW t \in Threads PROVE seen'[t] = seen[t]
  <2>1. CASE call[t].op = "none"
    BY <2>1, Observed DEF SeenOK
  <2>2. CASE call[t].op # "none"
    <3>1. seen'[t] = seen[t] \cup {call[t].key \in Contents}
      BY <1>1, <2>2, Observed
    <3>2. (call[t].key \in Contents) \in seen[t]
      BY <2>2 DEF SeenOK
    <3> QED BY <3>1, <3>2
  <2> QED BY <2>1, <2>2
<1>3. seen' = seen
  BY <1>2, Observed DEF SeenOK
<1> QED BY <1>1, <1>3 DEF KeySetOf!vars

(* A successful compare-and-swap is the step that changes the set.          *)
LEMMA SetChanges ==
  ASSUME Inv, Inv', NEW t \in Threads, PostData(t), Matches(cur[t])
  PROVE  KeySetOf!Change(t)
<1>1. PICK z, l : InvOf(z, l)
  BY DEF Inv
<1> DEFINE k == call[t].key
<1>2. /\ Holds(table, retired, k) <=> Found(t)
      /\ Holds(table', retired', k) <=> ~Found(t)
      /\ \A x : x # k => (Holds(table', retired', x) <=> Holds(table, retired, x))
  BY <1>1, PostDataChanges
<1>3. /\ \A x : x \in Contents <=> Holds(table, retired, x)
      /\ \A x : x \in Contents' <=> Holds(table', retired', x)
  BY ContentsAfter
<1>4. (call[t].op = "insert" /\ ~Found(t)) \/ (call[t].op = "delete" /\ Found(t))
  BY Zenon DEF PostData
<1>5. KeySetOf!Return(t, FALSE)
  <2>1. (call[t].op = "get" /\ call[t].key \in cur[t].node.items) = FALSE
    BY <1>4
  <2>2. call' = [call EXCEPT ![t] = Idle(@.op = "get" /\ @.key \in cur[t].node.items)]
    BY DEF PostData, Leave
  <2> QED BY <2>1, <2>2 DEF KeySetOf!Return, KeySetOf!Idle, Idle
<1> HIDE DEF k
<1>6. CASE call[t].op = "insert" /\ ~Found(t)
  <2>1. k \notin Contents /\ Contents' = Contents \cup {k}
    BY <1>2, <1>3, <1>6
  <2> QED BY <1>5, <1>6, <2>1 DEF KeySetOf!Change, k
<1>7. CASE call[t].op = "delete" /\ Found(t)
  <2>1. k \in Contents /\ Contents' = Contents \ {k}
    BY <1>2, <1>3, <1>7
  <2> QED BY <1>5, <1>7, <2>1 DEF KeySetOf!Change, k
<1> QED BY <1>4, <1>6, <1>7

(* What a thread answers was so at some moment of its call.                 *)
LEMMA SetAnswers ==
  ASSUME Inv, Inv', SeenOK, NEW t \in Threads, Answer(t)
  PROVE  KeySetOf!Refuse(t) \/ KeySetOf!GetValue(t)
<1>1. PICK z, l : InvOf(z, l)
  BY DEF Inv
<1>2. Contents' = Contents
  <2>1. ~(PostData(t) /\ Matches(cur[t]))
    BY DEF Answer, PostData
  <2>2. KeysKept
    BY <1>1, <2>1, StepKeeps DEF Step
  <2> QED BY <2>2, ContentsAfter DEF KeysKept
<1>3. /\ AtLeaf(t) /\ (call[t].op = "insert" => Found(t)) /\ (call[t].op = "delete" => ~Found(t))
      /\ call' = [call EXCEPT ![t] = Idle(@.op = "get" /\ @.key \in cur[t].node.items)]
  BY DEF Answer, Leave
<1>4. Found(t) \in seen[t] /\ call[t].op \in {"insert", "delete", "get"}
  BY <1>3, LeafCovers DEF SeenOK
<1>5. CASE call[t].op = "get"
  <2>1. (call[t].op = "get" /\ call[t].key \in cur[t].node.items) = Found(t)
    BY <1>5 DEF Found
  <2>2. KeySetOf!Return(t, Found(t))
    BY <1>3, <2>1 DEF KeySetOf!Return, KeySetOf!Idle, Idle
  <2> QED BY <1>2, <1>4, <1>5, <2>2 DEF KeySetOf!GetValue
<1>6. CASE call[t].op # "get"
  <2>1. (call[t].op = "get" /\ call[t].key \in cur[t].node.items) = FALSE
    BY <1>6
  <2>2. KeySetOf!Return(t, FALSE)
    BY <1>3, <2>1 DEF KeySetOf!Return, KeySetOf!Idle, Idle
  <2>3. call[t].op = "insert" => TRUE \in seen[t]
    <3>1. ASSUME Found(t) PROVE TRUE \in seen[t]
      <4>1. Found(t) = TRUE
        BY <3>1 DEF Found
      <4> QED BY <1>4, <4>1
    <3> QED BY <1>3, <3>1
  <2>4. call[t].op = "delete" => FALSE \in seen[t]
    <3>1. ASSUME ~Found(t) PROVE FALSE \in seen[t]
      <4>1. Found(t) = FALSE
        BY <3>1 DEF Found
      <4> QED BY <1>4, <4>1
    <3> QED BY <1>3, <3>1
  <2> QED BY <1>2, <1>4, <1>6, <2>2, <2>3, <2>4 DEF KeySetOf!Refuse
<1> QED BY <1>5, <1>6

(* Every step of the tree is one of the set, or none.                       *)
LEMMA StepAsSet ==
  ASSUME Inv, Inv', SeenOK, Next
  PROVE  KeySetOf!Next \/ UNCHANGED KeySetOf!vars
<1>1. PICK z, l : InvOf(z, l)
  BY DEF Inv
<1>2. Observe /\ KeySetOf!Observe(Contents', call')
  BY DEF Next, Observe
<1>3. KeysKept /\ call' = call => UNCHANGED KeySetOf!vars
  BY <1>2, SetRests
<1>4. CASE InvalidateNodeID
  <2>1. call' = call
    BY <1>4 DEF InvalidateNodeID
  <2> QED BY <1>1, <1>3, <1>4, <2>1, InvalidateKeeps
<1>5. CASE AllReturned
  BY <1>3, <1>5 DEF AllReturned, treeVars, KeysKept
<1>6. ASSUME NEW t \in Threads, Step(t) PROVE KeySetOf!Next \/ UNCHANGED KeySetOf!vars
  <2>1. CASE PostData(t) /\ Matches(cur[t])
    BY <1>2, <2>1, SetChanges DEF KeySetOf!Next
  <2>2. CASE Answer(t)
    BY <1>2, <2>2, SetAnswers DEF KeySetOf!Next
  <2>3. CASE Call(t)
    <3>1. KeysKept
      BY <2>3 DEF Call, treeVars, KeysKept
    <3>2. Contents' = Contents
      BY <3>1, ContentsAfter DEF KeysKept
    <3>3. call[t].op = "none"
      <4>1. Placed(View(t)) /\ View(t).pc = "out" /\ View(t).call = call[t]
        BY <1>1, <2>3, ViewFields DEF InvOf, ThreadOK, Call
      <4> QED BY <4>1 DEF Placed
    <3>4. \E op \in {"insert", "delete", "get"}, k \in Keys :
            call' = [call EXCEPT ![t] = [op |-> op, key |-> k, found |-> FALSE]]
      BY <2>3, KeysAssumption DEF Call, Keys
    <3> QED BY <1>2, <3>2, <3>3, <3>4 DEF KeySetOf!Next, KeySetOf!Call
  <2>4. CASE ~Call(t) /\ ~Answer(t) /\ ~(PostData(t) /\ Matches(cur[t]))
    <3>1. KeysKept
      BY <1>1, <1>6, <2>4, StepKeeps
    <3>2. call' = call
      BY <1>6, <2>4 DEF Step, ReadRoot, LoadRoot, JumpToNodeID, JumpToLeftSibling, PostMergeNode,
         FinishMerge, SplitRoot, FinishSplit, ConsolidateNode, CheckSplitChild, SplitNode,
         PostAbortOnParent, PostRemoveNode, RemoveAbortOnParent, GoRight, GoDown, PostData
    <3> QED BY <1>3, <3>1, <3>2
  <2> QED BY <2>1, <2>2, <2>3, <2>4
<1> QED BY <1>2, <1>4, <1>5, <1>6 DEF Next

(* Insert, Delete and GetValue behave as on one set of keys, however their  *)
(* steps and the tree's own splits, removals, merges and consolidations     *)
(* fall between each other.                                                 *)
THEOREM KeySetImplemented == Spec /\ SplitsInserted => KeySetSpec
<1>1. Inv /\ Inv' /\ SeenOK /\ [Next]_vars => SeenOK'
  <2>1. ASSUME Inv, Inv', SeenOK, Next PROVE SeenOK'
    BY <2>1, SeenStep
  <2>2. ASSUME SeenOK, vars' = vars PROVE SeenOK'
    <3>1. /\ Contents' = Contents /\ seen' = seen /\ call' = call
          /\ \A t \in Threads : Covers(t)' = Covers(t) /\ Found(t)' = Found(t)
      BY <2>2 DEF vars, treeVars, threadVars, Covers, AtStart, Found, Contents, LeafIds
    <3> QED BY <2>2, <3>1 DEF SeenOK
  <2> QED BY <2>1, <2>2
<1>2. Inv /\ Inv' /\ SeenOK /\ [Next]_vars => [KeySetOf!Next]_(KeySetOf!vars)
  <2>1. ASSUME Inv, Inv', SeenOK, Next PROVE [KeySetOf!Next]_(KeySetOf!vars)
    BY <2>1, StepAsSet
  <2>2. ASSUME vars' = vars PROVE UNCHANGED KeySetOf!vars
    BY <2>2 DEF vars, treeVars, KeySetOf!vars, Contents, LeafIds
  <2> QED BY <2>1, <2>2
<1> QED BY <1>1, <1>2, ShapeKept, StartsAsSet, PTL DEF Spec, KeySetSpec, KeySetOf!Spec
=============================================================================
