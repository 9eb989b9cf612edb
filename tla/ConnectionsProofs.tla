-------------------------- MODULE ConnectionsProofs --------------------------
(* Connections for every number of clients, addresses, queues and workers:  *)
(* a request or its answer is in one place, a client that may ask is        *)
(* listened to, and the server ends in two ways only.                       *)
EXTENDS Connections, FiniteSetTheorems, TLAPS

-----------------------------------------------------------------------------
Events == {"CONNECT_REQUEST", "ESTABLISHED", "DISCONNECTED"}
QueuePairs  == [live : BOOLEAN, cq : Queues, recvs : Nat]
Kinds == {"recv", "send"}
Completions == [kind : Kinds, client : Clients, wr_id : Addrs \cup {None}]

ClientTypes ==
  /\ cpc \in [Clients -> {"start", "connect", "keys", "ready", "exchange", "closed"}]
  /\ posted \in [Clients -> Nat] /\ requests \in [Clients -> Nat]
  /\ ccq \in [Clients -> Seq(Kinds)]
  /\ up \in [Clients -> Nat] /\ down \in [Clients -> Nat]
ServerTypes ==
  /\ events \in Seq([type : Events, client : Clients])
  /\ aq \in Queues
  /\ object \in [Addrs -> Clients \cup {None}]
  /\ context \in [Clients -> Addrs \cup {None}]
  /\ qp \in [Clients -> QueuePairs]
  /\ cq \in [Queues -> Seq(Completions)]
  /\ ppc \in [Queues -> {"poll", "make", "post"}]
  /\ wr_id \in [Queues -> Addrs \cup {None}]
  /\ \A q \in Queues : ppc[q] = "poll" <=> wr_id[q] = None
TaskTypes ==
  /\ started \subseteq Workers /\ asleep \subseteq Workers
  /\ ctasks \in [Workers -> Seq(Clients)]
  /\ wtask \in [Workers -> Clients \cup {None}]
  /\ lost \subseteq Clients
  /\ fault \in {None, "queue not made", "receive on a deleted connection",
                "send on a destroyed queue pair"}
Typed == ClientTypes /\ ServerTypes /\ TaskTypes

(* A queue pair lives as long as its connection, which has an address of    *)
(* its own, and a client beyond the handshake has one.                      *)
Linked ==
  /\ \A c \in Clients :
       /\ qp[c].live <=> context[c] # None
       /\ context[c] # None => object[context[c]] = c
       /\ cpc[c] \in {"keys", "ready", "exchange"} => context[c] # None
       /\ cpc[c] = "start" => context[c] = None
  /\ \A a \in Addrs : object[a] # None => context[object[a]] = a

(* At most one event of a client waits, and it tells where the client is. *)
Fits(e) ==
  /\ e.type = "CONNECT_REQUEST" => cpc[e.client] = "connect" /\ context[e.client] = None
  /\ e.type = "ESTABLISHED" => cpc[e.client] = "keys"
  /\ e.type = "DISCONNECTED" => cpc[e.client] = "closed" /\ context[e.client] # None
EventsOK ==
  /\ \A i \in DOMAIN events : Fits(events[i])
  /\ \A i, j \in DOMAIN events : events[i].client = events[j].client => i = j

(* The completions of a connection go when it goes. *)
CompletionsOK ==
  \A q \in Queues : \A i \in DOMAIN cq[q] :
    cq[q][i].wr_id = context[cq[q][i].client] /\ cq[q][i].wr_id # None

(* What a poller is about to queue has its connection still. *)
PollersOK ==
  \A q \in Queues : ppc[q] = "make" => object[wr_id[q]] # None

(* The stages of a request, from the call to the completion of its answer; *)
(* the keys of the handshake come in at "agreed".                           *)
Lies(wc, c) == wc.kind = "recv" /\ wc.client = c

Sent(c)     == up[c] # 0
Answered(c) == down[c] # 0
Polled(c)   == \E i \in DOMAIN ccq[c] : ccq[c][i] = "recv"
Agreed(c)   == \E i \in DOMAIN events : events[i] = Event("ESTABLISHED", c)
Arrived(c)  == \E q \in Queues : \E i \in DOMAIN cq[q] : Lies(cq[q][i], c)
Made(c)     == \E q \in Queues : ppc[q] = "make" /\ wr_id[q] = context[c]
Queued(c)   == \E w \in Workers : \E i \in DOMAIN ctasks[w] : ctasks[w][i] = c
Run(c)      == \E w \in Workers : wtask[w] = c

Stages == {"sent", "answered", "polled", "agreed", "arrived", "made", "queued", "run"}
In(c, s) ==
  \/ (s = "sent" /\ Sent(c))
  \/ (s = "answered" /\ Answered(c))
  \/ (s = "polled" /\ Polled(c))
  \/ (s = "agreed" /\ Agreed(c))
  \/ (s = "arrived" /\ Arrived(c))
  \/ (s = "made" /\ Made(c))
  \/ (s = "queued" /\ Queued(c))
  \/ (s = "run" /\ Run(c))

Waits(c) == cpc[c] \in {"keys", "exchange"}

(* A request is in one stage, and in one place of it. *)
Staged(c) ==
  /\ (\E s \in Stages : In(c, s)) <=> Waits(c) /\ c \notin lost
  /\ \A s, r \in Stages : In(c, s) /\ In(c, r) => s = r
  /\ c \in lost => Waits(c)

OneSent(c)     == up[c] <= 1
OneAnswered(c) == down[c] <= 1
OnePolled(c)   ==
  \A i, j \in DOMAIN ccq[c] : ccq[c][i] = "recv" /\ ccq[c][j] = "recv" => i = j
OneArrived(c)  ==
  \A q, r \in Queues : \A i \in DOMAIN cq[q], j \in DOMAIN cq[r] :
    Lies(cq[q][i], c) /\ Lies(cq[r][j], c) => q = r /\ i = j
OneMade(c)     ==
  \A q, r \in Queues :
    ppc[q] = "make" /\ wr_id[q] = context[c] /\ ppc[r] = "make" /\ wr_id[r] = context[c] => q = r
OneQueued(c)   ==
  \A v, w \in Workers : \A i \in DOMAIN ctasks[v], j \in DOMAIN ctasks[w] :
    ctasks[v][i] = c /\ ctasks[w][j] = c => v = w /\ i = j
OneRun(c)      == \A v, w \in Workers : wtask[v] = c /\ wtask[w] = c => v = w

Once(c) == /\ OneSent(c) /\ OneAnswered(c) /\ OnePolled(c) /\ OneArrived(c)
           /\ OneMade(c) /\ OneQueued(c) /\ OneRun(c)

(* A receive is posted for a client, or about to be. *)
Served(c) == context[c] # None =>
  qp[c].recvs >= 1 \/ (\E q \in Queues : wr_id[q] = context[c]) \/ Arrived(c)

Sound ==
  /\ Linked /\ EventsOK /\ CompletionsOK /\ PollersOK
  /\ \A c \in Clients : Staged(c) /\ Once(c) /\ Served(c)

ConnInv == Typed /\ OnlyKnownFaults /\ (fault = None => Sound)

-----------------------------------------------------------------------------
(* Sequences that grow at their end and shrink at their head.               *)

LEMMA LeastOf ==
  ASSUME NEW S \in SUBSET Nat, S # {}
  PROVE  \E x \in S : \A y \in S : x <= y
<1>1. \E x \in S : \A y \in S : ~(<<y, x>> \in OpToRel(<, Nat))
  BY NatLessThanWellFounded, WFMin
<1>2. \A x, y \in Nat : y < x => <<y, x>> \in OpToRel(<, Nat)
  BY DEF OpToRel
<1>3. PICK x \in S : \A y \in S : ~(y < x)
  BY <1>1, <1>2
<1>4. \A y \in S : x <= y
  BY <1>3
<1> QED BY <1>4

LEMMA ElementsOf ==
  ASSUME NEW S, NEW s \in Seq(S)
  PROVE  \A i \in DOMAIN s : s[i] \in S
OBVIOUS

LEMMA TailIs ==
  ASSUME NEW S, NEW s \in Seq(S), s # <<>>
  PROVE  /\ Tail(s) \in Seq(S) /\ Head(s) = s[1] /\ 1 \in DOMAIN s /\ s[1] \in S
         /\ \A i \in DOMAIN Tail(s) :
              /\ i + 1 \in DOMAIN s /\ Tail(s)[i] = s[i + 1] /\ i + 1 # 1 /\ i \in Nat
         /\ \A i \in DOMAIN s : i # 1 => i - 1 \in DOMAIN Tail(s) /\ Tail(s)[i - 1] = s[i]
OBVIOUS

LEMMA AppendIs ==
  ASSUME NEW S, NEW s \in Seq(S), NEW x \in S
  PROVE  /\ Append(s, x) \in Seq(S)
         /\ Len(s) + 1 \in DOMAIN Append(s, x) /\ Append(s, x)[Len(s) + 1] = x
         /\ Len(s) + 1 \notin DOMAIN s
         /\ \A i \in DOMAIN s : i \in DOMAIN Append(s, x) /\ Append(s, x)[i] = s[i]
         /\ \A i \in DOMAIN Append(s, x) : i \in DOMAIN s \/ i = Len(s) + 1
OBVIOUS

(* g is f with x put at the end of the sequence at d, as number n.          *)
Appended(f, g, d, x, n) ==
  /\ n \in DOMAIN g[d] /\ g[d][n] = x /\ n \notin DOMAIN f[d]
  /\ \A e \in DOMAIN f : \A i \in DOMAIN f[e] : i \in DOMAIN g[e] /\ g[e][i] = f[e][i]
  /\ \A e \in DOMAIN f : \A i \in DOMAIN g[e] : i \in DOMAIN f[e] \/ (e = d /\ i = n)

(* g is f without the first of the sequence at d.                           *)
Taken(f, g, d) ==
  /\ 1 \in DOMAIN f[d]
  /\ \A i \in DOMAIN g[d] : i + 1 \in DOMAIN f[d] /\ g[d][i] = f[d][i + 1] /\ i + 1 # 1 /\ i \in Nat
  /\ \A i \in DOMAIN f[d] : i # 1 => i - 1 \in DOMAIN g[d] /\ g[d][i - 1] = f[d][i]
  /\ \A e \in DOMAIN f : e # d => g[e] = f[e]

LEMMA AppendedIs ==
  ASSUME NEW D, NEW S, NEW f \in [D -> Seq(S)], NEW d \in D, NEW x \in S
  PROVE  /\ [f EXCEPT ![d] = Append(@, x)] \in [D -> Seq(S)]
         /\ Appended(f, [f EXCEPT ![d] = Append(@, x)], d, x, Len(f[d]) + 1)
<1> DEFINE g == [f EXCEPT ![d] = Append(@, x)]
<1>1. g[d] = Append(f[d], x) /\ \A e \in D : e # d => g[e] = f[e]
  OBVIOUS
<1>2. f[d] \in Seq(S)
  OBVIOUS
<1>3. /\ Append(f[d], x) \in Seq(S)
      /\ Len(f[d]) + 1 \in DOMAIN Append(f[d], x) /\ Append(f[d], x)[Len(f[d]) + 1] = x
      /\ Len(f[d]) + 1 \notin DOMAIN f[d]
      /\ \A i \in DOMAIN f[d] : i \in DOMAIN Append(f[d], x) /\ Append(f[d], x)[i] = f[d][i]
      /\ \A i \in DOMAIN Append(f[d], x) : i \in DOMAIN f[d] \/ i = Len(f[d]) + 1
  BY <1>2, AppendIs
<1>4. g \in [D -> Seq(S)]
  BY <1>3
<1>5. DOMAIN f = D
  OBVIOUS
<1> HIDE DEF g
<1>6. Appended(f, g, d, x, Len(f[d]) + 1)
  <2>1. \A e \in D : \A i \in DOMAIN f[e] : i \in DOMAIN g[e] /\ g[e][i] = f[e][i]
    BY <1>1, <1>3
  <2>2. \A e \in D : \A i \in DOMAIN g[e] : i \in DOMAIN f[e] \/ (e = d /\ i = Len(f[d]) + 1)
    BY <1>1, <1>3
  <2>3. /\ Len(f[d]) + 1 \in DOMAIN g[d] /\ g[d][Len(f[d]) + 1] = x
        /\ Len(f[d]) + 1 \notin DOMAIN f[d]
    BY <1>1, <1>3
  <2> QED BY <1>5, <2>1, <2>2, <2>3 DEF Appended
<1> QED BY <1>4, <1>6 DEF g

LEMMA TakenIs ==
  ASSUME NEW D, NEW S, NEW f \in [D -> Seq(S)], NEW d \in D, f[d] # <<>>
  PROVE  /\ [f EXCEPT ![d] = Tail(@)] \in [D -> Seq(S)]
         /\ Taken(f, [f EXCEPT ![d] = Tail(@)], d)
         /\ Head(f[d]) = f[d][1] /\ f[d][1] \in S
<1> DEFINE g == [f EXCEPT ![d] = Tail(@)]
<1>1. g[d] = Tail(f[d]) /\ \A e \in D : e # d => g[e] = f[e]
  OBVIOUS
<1>2. f[d] \in Seq(S)
  OBVIOUS
<1>3. /\ Tail(f[d]) \in Seq(S) /\ Head(f[d]) = f[d][1] /\ 1 \in DOMAIN f[d] /\ f[d][1] \in S
      /\ \A i \in DOMAIN Tail(f[d]) :
           i + 1 \in DOMAIN f[d] /\ Tail(f[d])[i] = f[d][i + 1] /\ i + 1 # 1 /\ i \in Nat
      /\ \A i \in DOMAIN f[d] : i # 1 => i - 1 \in DOMAIN Tail(f[d]) /\ Tail(f[d])[i - 1] = f[d][i]
  BY <1>2, TailIs
<1>4. g \in [D -> Seq(S)]
  BY <1>3
<1>5. DOMAIN f = D
  OBVIOUS
<1> HIDE DEF g
<1>6. Taken(f, g, d)
  BY <1>1, <1>3, <1>5 DEF Taken
<1> QED BY <1>3, <1>4, <1>6 DEF g

-----------------------------------------------------------------------------
(* rdma_destroy_qp: what is left of a completion queue, and in what order.  *)

LEMMA NthIs ==
  ASSUME NEW n \in Nat, NEW S \in SUBSET (1 .. n), NEW k \in 1 .. Cardinality(S)
  PROVE  NthOf(S, k) \in S /\ Cardinality({j \in S : j <= NthOf(S, k)}) = k
<1> DEFINE Below(i) == {j \in S : j <= i}
<1>1. IsFiniteSet(S) /\ Cardinality(S) \in Nat /\ k \in Nat /\ k >= 1 /\ k <= Cardinality(S)
  <2>1. IsFiniteSet(1 .. n)
    BY FS_Interval
  <2>2. IsFiniteSet(S)
    BY <2>1, FS_Subset
  <2> QED BY <2>2, FS_CardinalityType
<1>2. \A i \in Nat : IsFiniteSet(Below(i)) /\ Cardinality(Below(i)) \in Nat
  <2> SUFFICES ASSUME NEW i \in Nat
               PROVE  IsFiniteSet(Below(i)) /\ Cardinality(Below(i)) \in Nat
    OBVIOUS
  <2>1. Below(i) \subseteq S
    OBVIOUS
  <2>2. IsFiniteSet(Below(i))
    BY <1>1, <2>1, FS_Subset
  <2> QED BY <2>2, FS_CardinalityType
<1>3. Below(0) = {} /\ Below(n) = S
  <2>1. \A j \in S : j \in Nat /\ j <= n /\ ~(j <= 0)
    OBVIOUS
  <2> QED BY <2>1
<1>4. \A i \in 1 .. n : Below(i) = IF i \in S THEN Below(i - 1) \cup {i} ELSE Below(i - 1)
  <2> SUFFICES ASSUME NEW i \in 1 .. n
               PROVE  Below(i) = IF i \in S THEN Below(i - 1) \cup {i} ELSE Below(i - 1)
    OBVIOUS
  <2>1. \A j \in S : j <= i <=> (j <= i - 1 \/ j = i)
    OBVIOUS
  <2> QED BY <2>1
<1>5. \A i \in 1 .. n : i \notin Below(i - 1)
  OBVIOUS
<1> DEFINE B == {i \in 0 .. n : k <= Cardinality(Below(i))}
<1>6. PICK m \in B : \A i \in B : m <= i
  <2>1. B \in SUBSET Nat /\ n \in B
    BY <1>1, <1>3
  <2> HIDE DEF B
  <2> QED BY <2>1, LeastOf
<1>7. m # 0
  BY <1>1, <1>3, <1>6, FS_EmptySet
<1>8. m \in 1 .. n /\ m - 1 \in Nat /\ m - 1 \notin B /\ m - 1 \in 0 .. n
  <2>1. m \in 0 .. n
    BY <1>6
  <2>2. m \in 1 .. n /\ m - 1 \in 0 .. n /\ m - 1 \in Nat /\ ~(m <= m - 1)
    BY <1>7, <2>1
  <2> HIDE DEF B
  <2> QED BY <1>6, <2>2
<1>9. Cardinality(Below(m - 1)) < k /\ k <= Cardinality(Below(m))
  <2>1. Cardinality(Below(m - 1)) \in Nat
    BY <1>2, <1>8
  <2> QED BY <1>1, <1>6, <1>8, <2>1
<1>10. m \in S
  <2> SUFFICES ASSUME m \notin S PROVE FALSE
    OBVIOUS
  <2>1. Below(m) = Below(m - 1)
    BY <1>4, <1>8
  <2>2. Cardinality(Below(m - 1)) \in Nat
    BY <1>2, <1>8
  <2> HIDE DEF Below
  <2> QED BY <1>1, <1>9, <2>1, <2>2
<1>11. Cardinality(Below(m)) = k
  <2>1. Below(m) = Below(m - 1) \cup {m} /\ m \notin Below(m - 1)
    BY <1>4, <1>5, <1>8, <1>10
  <2>2. IsFiniteSet(Below(m - 1)) /\ Cardinality(Below(m - 1)) \in Nat
    BY <1>2, <1>8
  <2> HIDE DEF Below
  <2>3. Cardinality(Below(m)) = Cardinality(Below(m - 1)) + 1
    BY <2>1, <2>2, FS_AddElement
  <2> QED BY <1>1, <1>9, <2>2, <2>3
<1>12. m \in S /\ Cardinality({j \in S : j <= m}) = k
  BY <1>10, <1>11
<1> QED BY <1>12 DEF NthOf

LEMMA NthOnto ==
  ASSUME NEW n \in Nat, NEW S \in SUBSET (1 .. n), NEW i \in S
  PROVE  \E k \in 1 .. Cardinality(S) : NthOf(S, k) = i
<1> DEFINE Below(x) == {j \in S : j <= x}
<1>1. IsFiniteSet(S) /\ Cardinality(S) \in Nat
  <2>1. IsFiniteSet(1 .. n)
    BY FS_Interval
  <2>2. IsFiniteSet(S)
    BY <2>1, FS_Subset
  <2> QED BY <2>2, FS_CardinalityType
<1>2. \A x : IsFiniteSet(Below(x)) /\ Cardinality(Below(x)) \in Nat /\ Cardinality(Below(x)) <= Cardinality(S)
  <2> SUFFICES ASSUME NEW x
               PROVE  /\ IsFiniteSet(Below(x)) /\ Cardinality(Below(x)) \in Nat
                      /\ Cardinality(Below(x)) <= Cardinality(S)
    OBVIOUS
  <2>1. Below(x) \subseteq S
    OBVIOUS
  <2>2. IsFiniteSet(Below(x)) /\ Cardinality(Below(x)) <= Cardinality(S)
    BY <1>1, <2>1, FS_Subset
  <2> QED BY <2>2, FS_CardinalityType
<1>3. Cardinality(Below(i)) >= 1
  <2>1. i \in Below(i)
    OBVIOUS
  <2>2. Cardinality(Below(i)) # 0
    BY <1>2, <2>1, FS_EmptySet
  <2> QED BY <1>2, <2>2
(* A later element has more of them up to itself.                           *)
<1>4. ASSUME NEW x \in S, NEW y \in S, x < y
      PROVE  Cardinality(Below(x)) # Cardinality(Below(y))
  <2>1. Below(x) \subseteq Below(y) /\ y \in Below(y) /\ y \notin Below(x)
    <3>1. x \in Nat /\ y \in Nat /\ \A j \in S : j \in Nat
      OBVIOUS
    <3>2. \A j \in S : j <= x => j <= y
      BY <1>4, <3>1
    <3>3. y <= y /\ ~(y <= x)
      BY <1>4, <3>1
    <3> QED BY <3>2, <3>3
  <2>2. Below(x) # Below(y)
    BY <2>1
  <2> HIDE DEF Below
  <2> QED BY <1>2, <2>1, <2>2, FS_Subset
<1>5. PICK k \in 1 .. Cardinality(S) : k = Cardinality(Below(i))
  BY <1>1, <1>2, <1>3
<1>6. NthOf(S, k) \in S /\ Cardinality(Below(NthOf(S, k))) = k
  BY NthIs
<1>7. NthOf(S, k) \in Nat /\ i \in Nat
  <2>1. \A j \in S : j \in Nat
    OBVIOUS
  <2> HIDE DEF Below
  <2> QED BY <1>6, <2>1
<1> HIDE DEF Below
<1>8. NthOf(S, k) = i
  BY <1>4, <1>5, <1>6, <1>7
<1> QED BY <1>8

Rest(wcs, c) == {i \in DOMAIN wcs : wcs[i].client # c}

LEMMA WithoutIs ==
  ASSUME NEW wcs \in Seq(Completions), NEW c
  PROVE  /\ Without(wcs, c) \in Seq(Completions)
         /\ \A k \in DOMAIN Without(wcs, c) :
              /\ NthOf(Rest(wcs, c), k) \in DOMAIN wcs
              /\ Without(wcs, c)[k] = wcs[NthOf(Rest(wcs, c), k)]
              /\ wcs[NthOf(Rest(wcs, c), k)].client # c
         /\ \A i \in DOMAIN wcs : wcs[i].client # c =>
              \E k \in DOMAIN Without(wcs, c) : Without(wcs, c)[k] = wcs[i]
         /\ \A k, l \in DOMAIN Without(wcs, c) :
              NthOf(Rest(wcs, c), k) = NthOf(Rest(wcs, c), l) => k = l
<1>1. PICK n \in Nat : n = Len(wcs) /\ DOMAIN wcs = 1 .. n
  OBVIOUS
<1>2. PICK S \in SUBSET (1 .. n) : S = Rest(wcs, c)
  BY <1>1 DEF Rest
<1>3. Cardinality(S) \in Nat
  <2>1. IsFiniteSet(1 .. n)
    BY FS_Interval
  <2>2. IsFiniteSet(S)
    BY <2>1, FS_Subset
  <2> QED BY <2>2, FS_CardinalityType
<1>4. Without(wcs, c) = [k \in 1 .. Cardinality(S) |-> wcs[NthOf(S, k)]]
  BY <1>2 DEF Without, Rest
<1>5. \A k \in 1 .. Cardinality(S) :
        NthOf(S, k) \in S /\ Cardinality({j \in S : j <= NthOf(S, k)}) = k
  BY NthIs
<1>6. \A i \in S : i \in DOMAIN wcs /\ wcs[i].client # c /\ wcs[i] \in Completions
  BY <1>1, <1>2 DEF Rest
<1>7. Without(wcs, c) \in Seq(Completions)
  <2>1. \A k \in 1 .. Cardinality(S) : wcs[NthOf(S, k)] \in Completions
    BY <1>5, <1>6
  <2> QED BY <1>3, <1>4, <2>1
<1>8. DOMAIN Without(wcs, c) = 1 .. Cardinality(S)
  BY <1>4
<1>9. \A k \in 1 .. Cardinality(S) :
        /\ NthOf(S, k) \in DOMAIN wcs /\ Without(wcs, c)[k] = wcs[NthOf(S, k)]
        /\ wcs[NthOf(S, k)].client # c
  BY <1>4, <1>5, <1>6
<1>10. ASSUME NEW i \in DOMAIN wcs, wcs[i].client # c
       PROVE  \E k \in 1 .. Cardinality(S) : Without(wcs, c)[k] = wcs[i]
  <2>1. i \in S
    BY <1>2, <1>10 DEF Rest
  <2>2. PICK k \in 1 .. Cardinality(S) : NthOf(S, k) = i
    BY <2>1, NthOnto
  <2> QED BY <1>9, <2>2
<1>11. \A k, l \in 1 .. Cardinality(S) : NthOf(S, k) = NthOf(S, l) => k = l
  BY <1>5
<1> QED BY <1>2, <1>7, <1>8, <1>9, <1>10, <1>11

-----------------------------------------------------------------------------
(* Types                                                                    *)

LEMMA Nones ==
  /\ \A c \in Clients : c # None
  /\ \A a \in Addrs : a # None
  /\ NumQueues \in Nat /\ NumQueues >= 1 /\ 0 \in Queues
  /\ None # "queue not made" /\ None # "receive on a deleted connection"
  /\ None # "send on a destroyed queue pair"
BY NoneAssumption, QueueAssumption DEF None, Queues

LEMMA InitConn == Init => ConnInv
<1> SUFFICES ASSUME Init PROVE ConnInv
  OBVIOUS
<1> USE DEF Init
<1>1. Typed
  <2>1. NoQp \in QueuePairs
    BY Nones DEF NoQp, QueuePairs
  <2>2. ClientTypes
    BY DEF ClientTypes
  <2>3. ServerTypes
    <3>1. \A S : <<>> \in Seq(S)
      OBVIOUS
    <3>2. /\ events \in Seq([type : Events, client : Clients]) /\ cq \in [Queues -> Seq(Completions)]
      BY <3>1
    <3>3. /\ qp \in [Clients -> QueuePairs] /\ aq \in Queues
          /\ object \in [Addrs -> Clients \cup {None}] /\ context \in [Clients -> Addrs \cup {None}]
      BY <2>1, Nones
    <3>4. /\ ppc \in [Queues -> {"poll", "make", "post"}]
          /\ wr_id \in [Queues -> Addrs \cup {None}]
          /\ \A q \in Queues : ppc[q] = "poll" <=> wr_id[q] = None
      OBVIOUS
    <3> QED BY <3>2, <3>3, <3>4 DEF ServerTypes
  <2>4. TaskTypes
    BY DEF TaskTypes
  <2> QED BY <2>2, <2>3, <2>4 DEF Typed
<1>2. OnlyKnownFaults
  BY Nones DEF OnlyKnownFaults
<1>3. Linked /\ EventsOK /\ CompletionsOK /\ PollersOK
  BY DEF Linked, EventsOK, CompletionsOK, PollersOK, NoQp
<1>4. ASSUME NEW c \in Clients PROVE Staged(c) /\ Once(c) /\ Served(c)
  <2>1. /\ ~Sent(c) /\ ~Answered(c) /\ ~Polled(c) /\ ~Agreed(c)
        /\ ~Arrived(c) /\ ~Made(c) /\ ~Queued(c) /\ ~Run(c)
    <3>1. ~Sent(c) /\ ~Answered(c)
      BY DEF Sent, Answered
    <3>2. ~Polled(c) /\ ~Agreed(c)
      BY DEF Polled, Agreed
    <3>3. ~Arrived(c) /\ ~Queued(c)
      BY DEF Arrived, Queued
    <3>4. ~Made(c) /\ ~Run(c)
      BY Nones DEF Made, Run
    <3> QED BY <3>1, <3>2, <3>3, <3>4
  <2>2. \A s \in Stages : ~In(c, s)
    BY <2>1 DEF In
  <2>3. Staged(c)
    BY <2>2 DEF Staged, Waits
  <2>4. Once(c)
    <3>1. OneSent(c) /\ OneAnswered(c)
      BY DEF OneSent, OneAnswered
    <3>2. OnePolled(c) /\ OneArrived(c) /\ OneQueued(c)
      BY DEF OnePolled, OneArrived, OneQueued
    <3>3. OneMade(c) /\ OneRun(c)
      BY Nones DEF OneMade, OneRun
    <3> QED BY <3>1, <3>2, <3>3 DEF Once
  <2> QED BY <2>3, <2>4 DEF Served
<1> QED BY <1>1, <1>2, <1>3, <1>4 DEF ConnInv, Sound

LEMMA EventTyped ==
  ASSUME Typed, NEW c \in Clients, NEW type \in Events
  PROVE  /\ Event(type, c) \in [type : Events, client : Clients]
         /\ Append(events, Event(type, c)) \in Seq([type : Events, client : Clients])
BY DEF Typed, ServerTypes, Event

LEMMA CompletionTyped ==
  ASSUME Typed, NEW c \in Clients, NEW kind \in Kinds
  PROVE  Completion(kind, c) \in Completions
BY DEF Typed, ServerTypes, Completion, Completions

LEMMA CountTyped ==
  ASSUME NEW D, NEW f \in [D -> Nat], NEW d \in D
  PROVE  /\ [f EXCEPT ![d] = @ + 1] \in [D -> Nat]
         /\ f[d] > 0 => [f EXCEPT ![d] = @ - 1] \in [D -> Nat]
<1>1. f[d] \in Nat
  OBVIOUS
<1>2. f[d] + 1 \in Nat /\ (f[d] > 0 => f[d] - 1 \in Nat)
  BY <1>1
<1> QED BY <1>2

LEMMA ReceivesTyped ==
  ASSUME NEW p \in QueuePairs
  PROVE  /\ p.live \in BOOLEAN /\ p.cq \in Queues /\ p.recvs \in Nat
         /\ [p EXCEPT !.recvs = @ + 1] \in QueuePairs
         /\ p.recvs > 0 => [p EXCEPT !.recvs = @ - 1] \in QueuePairs
<1>1. p.live \in BOOLEAN /\ p.cq \in Queues /\ p.recvs \in Nat
  BY DEF QueuePairs
<1>2. p.recvs + 1 \in Nat /\ (p.recvs > 0 => p.recvs - 1 \in Nat)
  BY <1>1
<1>3. ASSUME NEW n \in Nat PROVE [p EXCEPT !.recvs = n] \in QueuePairs
  BY <1>3 DEF QueuePairs
<1> QED BY <1>1, <1>2, <1>3

LEMMA NextQueue ==
  ASSUME NEW n \in Queues
  PROVE  (n + 1) % NumQueues \in Queues
<1>1. n + 1 \in Nat /\ NumQueues \in Nat /\ NumQueues > 0
  BY QueueAssumption DEF Queues
<1>2. \A x, y \in Nat : y > 0 => x % y \in 0 .. y - 1
  OBVIOUS
<1> QED BY <1>1, <1>2 DEF Queues

LEMMA NoneOf == \A S : <<>> \in Seq(S)
OBVIOUS

(* The three families of sequences that change at both ends.                *)
LEMMA CompletionQueue ==
  ASSUME cq \in [Queues -> Seq(Completions)], NEW q \in Queues
  PROVE  /\ \A x \in Completions :
              /\ [cq EXCEPT ![q] = Append(@, x)] \in [Queues -> Seq(Completions)]
              /\ Appended(cq, [cq EXCEPT ![q] = Append(@, x)], q, x, Len(cq[q]) + 1)
         /\ cq[q] # <<>> =>
              /\ [cq EXCEPT ![q] = Tail(@)] \in [Queues -> Seq(Completions)]
              /\ Taken(cq, [cq EXCEPT ![q] = Tail(@)], q)
              /\ Head(cq[q]) = cq[q][1] /\ cq[q][1] \in Completions
BY AppendedIs, TakenIs

LEMMA ClientQueue ==
  ASSUME ccq \in [Clients -> Seq(Kinds)], NEW c \in Clients
  PROVE  /\ \A x \in Kinds :
              /\ [ccq EXCEPT ![c] = Append(@, x)] \in [Clients -> Seq(Kinds)]
              /\ Appended(ccq, [ccq EXCEPT ![c] = Append(@, x)], c, x, Len(ccq[c]) + 1)
         /\ ccq[c] # <<>> =>
              /\ [ccq EXCEPT ![c] = Tail(@)] \in [Clients -> Seq(Kinds)]
              /\ Taken(ccq, [ccq EXCEPT ![c] = Tail(@)], c)
              /\ Head(ccq[c]) = ccq[c][1] /\ ccq[c][1] \in Kinds
BY AppendedIs, TakenIs

LEMMA TaskQueue ==
  ASSUME ctasks \in [Workers -> Seq(Clients)], NEW w \in Workers
  PROVE  /\ \A x \in Clients :
              /\ [ctasks EXCEPT ![w] = Append(@, x)] \in [Workers -> Seq(Clients)]
              /\ Appended(ctasks, [ctasks EXCEPT ![w] = Append(@, x)], w, x, Len(ctasks[w]) + 1)
         /\ ctasks[w] # <<>> =>
              /\ [ctasks EXCEPT ![w] = Tail(@)] \in [Workers -> Seq(Clients)]
              /\ Taken(ctasks, [ctasks EXCEPT ![w] = Tail(@)], w)
              /\ Head(ctasks[w]) = ctasks[w][1] /\ ctasks[w][1] \in Clients
BY AppendedIs, TakenIs

LEMMA TypedStep ==
  ASSUME Typed, fault = None => CompletionsOK, Next
  PROVE  Typed'
<1> USE DEF Typed, ClientTypes, ServerTypes, TaskTypes
<1>1. ASSUME NEW c \in Clients, Connect(c) PROVE Typed'
  <2>1. Append(events, Event("CONNECT_REQUEST", c)) \in Seq([type : Events, client : Clients])
    BY EventTyped DEF Events
  <2> QED BY <1>1, <2>1 DEF Connect, pollVars, taskVars, endVars
<1>2. ASSUME NEW c \in Clients, OnEstablished(c) PROVE Typed'
  <2>1. Append(events, Event("ESTABLISHED", c)) \in Seq([type : Events, client : Clients])
    BY EventTyped DEF Events
  <2> QED BY <1>2, <2>1 DEF OnEstablished, pollVars, taskVars, endVars
<1>3. ASSUME NEW c \in Clients, Exchange(c) PROVE Typed'
  BY <1>3, CountTyped DEF Exchange, connVars, pollVars, taskVars, endVars
<1>4. ASSUME NEW c \in Clients, PollOwn(c) PROVE Typed'
  <2>1. [ccq EXCEPT ![c] = Tail(@)] \in [Clients -> Seq(Kinds)]
    BY <1>4, ClientQueue DEF PollOwn
  <2>2. [ccq EXCEPT ![c] = <<>>] \in [Clients -> Seq(Kinds)]
    BY NoneOf
  <2> QED BY <1>4, <2>1, <2>2 DEF PollOwn, connVars, pollVars, taskVars, endVars
<1>5. ASSUME NEW c \in Clients, Disconnect(c) PROVE Typed'
  <2>1. Append(events, Event("DISCONNECTED", c)) \in Seq([type : Events, client : Clients])
    BY EventTyped DEF Events
  <2> QED BY <1>5, <2>1 DEF Disconnect, pollVars, taskVars, endVars
<1>6. ASSUME NEW c \in Clients, DeliverRequest(c) PROVE Typed'
  <2>1. [up EXCEPT ![c] = @ - 1] \in [Clients -> Nat]
    BY <1>6, CountTyped DEF DeliverRequest
  <2>2. qp[c] \in QueuePairs /\ qp[c].recvs > 0 /\ qp[c].cq \in Queues
    BY <1>6, ReceivesTyped DEF DeliverRequest
  <2>3. [qp EXCEPT ![c].recvs = @ - 1] \in [Clients -> QueuePairs]
    <3>1. [qp[c] EXCEPT !.recvs = @ - 1] \in QueuePairs
      BY <2>2, ReceivesTyped
    <3> QED BY <3>1
  <2>4. [cq EXCEPT ![qp[c].cq] = Append(@, Completion("recv", c))] \in [Queues -> Seq(Completions)]
    <3>1. Completion("recv", c) \in Completions
      BY CompletionTyped DEF Kinds
    <3> QED BY <2>2, <3>1, CompletionQueue
  <2>5. [ccq EXCEPT ![c] = Append(@, "send")] \in [Clients -> Seq(Kinds)]
    BY ClientQueue DEF Kinds
  <2> QED BY <1>6, <2>1, <2>3, <2>4, <2>5 DEF DeliverRequest, taskVars, endVars
<1>7. ASSUME NEW c \in Clients, DeliverAnswer(c) PROVE Typed'
  <2>1. /\ [down EXCEPT ![c] = @ - 1] \in [Clients -> Nat]
        /\ [posted EXCEPT ![c] = @ - 1] \in [Clients -> Nat]
    BY <1>7, CountTyped DEF DeliverAnswer
  <2>2. qp[c].cq \in Queues
    BY ReceivesTyped
  <2>3. [cq EXCEPT ![qp[c].cq] = Append(@, Completion("send", c))] \in [Queues -> Seq(Completions)]
    <3>1. Completion("send", c) \in Completions
      BY CompletionTyped DEF Kinds
    <3> QED BY <2>2, <3>1, CompletionQueue
  <2>4. [ccq EXCEPT ![c] = Append(@, "recv")] \in [Clients -> Seq(Kinds)]
    BY ClientQueue DEF Kinds
  <2> QED BY <1>7, <2>1, <2>3, <2>4 DEF DeliverAnswer, connVars, taskVars, endVars
<1>8. ASSUME NEW c \in Clients, OnConnectRequest(c) PROVE Typed'
  <2>1. Tail(events) \in Seq([type : Events, client : Clients])
    BY <1>8, TailIs DEF OnConnectRequest, Handle
  <2>2. NewQp \in QueuePairs
    BY DEF NewQp, QueuePairs
  <2>3. (aq + 1) % NumQueues \in Queues
    BY NextQueue
  <2>4. PICK a \in Addrs : object' = [object EXCEPT ![a] = c] /\ context' = [context EXCEPT ![c] = a]
    BY <1>8 DEF OnConnectRequest
  <2> QED BY <1>8, <2>1, <2>2, <2>3, <2>4
             DEF OnConnectRequest, Handle, clientVars, pollVars, taskVars, endVars
<1>9. ASSUME NEW c \in Clients, OnEstablishedServer(c) PROVE Typed'
  <2>1. Tail(events) \in Seq([type : Events, client : Clients])
    BY <1>9, TailIs DEF OnEstablishedServer, Handle
  <2> QED BY <1>9, <2>1, CountTyped
             DEF OnEstablishedServer, Handle, clientVars, pollVars, taskVars, endVars
<1>10. ASSUME NEW c \in Clients, OnDisconnected(c) PROVE Typed'
  <2>1. Tail(events) \in Seq([type : Events, client : Clients])
    BY <1>10, TailIs DEF OnDisconnected, Handle
  <2>2. NoQp \in QueuePairs
    BY Nones DEF NoQp, QueuePairs
  <2>3. [q \in Queues |-> Without(cq[q], c)] \in [Queues -> Seq(Completions)]
    <3>1. \A q \in Queues : Without(cq[q], c) \in Seq(Completions)
      BY WithoutIs
    <3> QED BY <3>1
  <2> QED BY <1>10, <2>1, <2>2, <2>3 DEF OnDisconnected, Handle, clientVars, taskVars, endVars
<1>11. ASSUME NEW q \in Queues, Poll(q) PROVE Typed'
  <2>1. /\ [cq EXCEPT ![q] = Tail(@)] \in [Queues -> Seq(Completions)]
        /\ Head(cq[q]) \in Completions
    BY <1>11, CompletionQueue DEF Poll
  <2>2. Head(cq[q]).wr_id \in Addrs
    <3>1. cq[q] # <<>> /\ cq[q] \in Seq(Completions)
      BY <1>11 DEF Poll
    <3>2. 1 \in DOMAIN cq[q] /\ Head(cq[q]) = cq[q][1]
      BY <3>1, TailIs
    <3>3. CompletionsOK
      BY <1>11 DEF Poll, Running
    <3>4. PICK wc \in Completions : wc = Head(cq[q])
      BY <2>1
    <3>5. wc.wr_id # None
      <4>1. \A i \in DOMAIN cq[q] : cq[q][i].wr_id # None
        BY <3>3 DEF CompletionsOK
      <4> QED BY <3>2, <3>4, <4>1
    <3>6. wc.wr_id \in Addrs \cup {None}
      BY DEF Completions
    <3> QED BY <3>4, <3>5, <3>6
  <2>3. CASE Head(cq[q]).kind = "recv"
    <3>1. PICK a \in Addrs : a = Head(cq[q]).wr_id
      BY <2>2
    <3>2. ppc' = [ppc EXCEPT ![q] = "make"] /\ wr_id' = [wr_id EXCEPT ![q] = a]
      BY <1>11, <2>3, <3>1 DEF Poll
    <3>3. \A r \in Queues : ppc'[r] = "poll" <=> wr_id'[r] = None
      BY <3>2, Nones
    <3> QED BY <1>11, <2>1, <3>2, <3>3 DEF Poll, clientVars, connVars, taskVars, endVars
  <2>4. CASE Head(cq[q]).kind # "recv"
    BY <1>11, <2>1, <2>4 DEF Poll, clientVars, connVars, taskVars, endVars
  <2> QED BY <2>3, <2>4
<1>12. ASSUME NEW q \in Queues, NEW w \in Workers, MakeProduct(q, w) PROVE Typed'
  <2>1. PICK c : c = object[wr_id[q]] /\ c # None
    BY <1>12 DEF MakeProduct
  <2>2. c \in Clients
    <3>1. wr_id[q] \in Addrs
      BY <1>12 DEF MakeProduct
    <3> QED BY <2>1, <3>1
  <2>3. [ctasks EXCEPT ![w] = AddTask(@, c)] \in [Workers -> Seq(Clients)]
    BY <2>2, TaskQueue DEF AddTask
  <2> QED BY <1>12, <2>1, <2>3 DEF MakeProduct, Signal, clientVars, connVars, endVars
<1>13. ASSUME NEW q \in Queues, NEW w \in Workers, MakeTooEarly(q, w) PROVE Typed'
  <2>1. wr_id[q] \in Addrs /\ object[wr_id[q]] \in Clients
    <3>1. wr_id[q] \in Addrs
      BY <1>13 DEF MakeTooEarly
    <3> QED BY <1>13, <3>1 DEF MakeTooEarly
  <2>2. fault' \in {None, "queue not made", "receive on a deleted connection",
                    "send on a destroyed queue pair"} /\ lost' \subseteq Clients
    BY <1>13, <2>1 DEF MakeTooEarly
  <2>3. /\ ppc' \in [Queues -> {"poll", "make", "post"}] /\ wr_id' = wr_id
        /\ \A r \in Queues : ppc'[r] = "poll" <=> wr_id'[r] = None
    BY <1>13 DEF MakeTooEarly
  <2> QED BY <1>13, <2>2, <2>3 DEF MakeTooEarly, clientVars, connVars, taskVars
<1>14. ASSUME NEW q \in Queues, PostReceive(q) PROVE Typed'
  <2>1. qp' \in [Clients -> QueuePairs]
    <3>1. CASE object[wr_id[q]] = None
      BY <1>14, <3>1 DEF PostReceive
    <3>2. CASE object[wr_id[q]] # None
      <4>1. PICK c : c = object[wr_id[q]]
        OBVIOUS
      <4>2. c \in Clients /\ qp' = [qp EXCEPT ![c].recvs = @ + 1]
        BY <1>14, <3>2, <4>1 DEF PostReceive
      <4>3. [qp[c] EXCEPT !.recvs = @ + 1] \in QueuePairs
        BY <4>2, ReceivesTyped
      <4> QED BY <4>2, <4>3
    <3> QED BY <3>1, <3>2
  <2>2. /\ ppc' \in [Queues -> {"poll", "make", "post"}]
        /\ wr_id' \in [Queues -> Addrs \cup {None}]
        /\ \A r \in Queues : ppc'[r] = "poll" <=> wr_id'[r] = None
    BY <1>14 DEF PostReceive
  <2>3. fault' \in {None, "queue not made", "receive on a deleted connection",
                    "send on a destroyed queue pair"}
    BY <1>14 DEF PostReceive
  <2> QED BY <1>14, <2>1, <2>2, <2>3 DEF PostReceive, clientVars, taskVars
<1>15. ASSUME NEW w \in Workers, StartQueue(w) PROVE Typed'
  BY <1>15 DEF StartQueue, clientVars, connVars, pollVars, endVars
<1>16. ASSUME NEW w \in Workers, Sleep(w) PROVE Typed'
  BY <1>16 DEF Sleep, clientVars, connVars, pollVars, endVars
<1>17. ASSUME NEW w \in Workers, TakeTask(w) PROVE Typed'
  <2>1. /\ [ctasks EXCEPT ![w] = GetTask(@)] \in [Workers -> Seq(Clients)]
        /\ Head(ctasks[w]) \in Clients
    <3>1. ctasks[w] # <<>> /\ ctasks \in [Workers -> Seq(Clients)]
      BY <1>17 DEF TakeTask
    <3> QED BY <3>1, TaskQueue DEF GetTask
  <2> QED BY <1>17, <2>1 DEF TakeTask, clientVars, connVars, pollVars, endVars
<1>18. ASSUME NEW w \in Workers, SendAnswer(w) PROVE Typed'
  <2>1. wtask[w] \in Clients
    BY <1>18 DEF SendAnswer
  <2>2. [down EXCEPT ![wtask[w]] = @ + 1] \in [Clients -> Nat]
    BY <2>1, CountTyped
  <2>3. down' \in [Clients -> Nat]
        /\ fault' \in {None, "queue not made", "receive on a deleted connection",
                       "send on a destroyed queue pair"}
    BY <1>18, <2>2 DEF SendAnswer
  <2> QED BY <1>18, <2>3 DEF SendAnswer, clientVars, connVars, pollVars
<1> QED BY <1>1, <1>2, <1>3, <1>4, <1>5, <1>6, <1>7, <1>8, <1>9, <1>10, <1>11, <1>12, <1>13,
           <1>14, <1>15, <1>16, <1>17, <1>18 DEF Next

-----------------------------------------------------------------------------
(* What sequences hold when they grow at the end and shrink at the head.    *)

Hit(f, X)    == \E d \in DOMAIN f : \E i \in DOMAIN f[d] : f[d][i] \in X
OneHit(f, X) ==
  \A d, e \in DOMAIN f : \A i \in DOMAIN f[d], j \in DOMAIN f[e] :
    f[d][i] \in X /\ f[e][j] \in X => d = e /\ i = j

LEMMA HitAppended ==
  ASSUME NEW f, NEW g, NEW d \in DOMAIN f, NEW x, NEW n, NEW X,
         DOMAIN g = DOMAIN f, Appended(f, g, d, x, n)
  PROVE  /\ Hit(g, X) <=> Hit(f, X) \/ x \in X
         /\ OneHit(f, X) /\ (x \notin X \/ ~Hit(f, X)) => OneHit(g, X)
<1>1. Hit(f, X) \/ x \in X => Hit(g, X)
  BY DEF Hit, Appended
<1>2. Hit(g, X) => Hit(f, X) \/ x \in X
  BY DEF Hit, Appended
<1>3. ASSUME OneHit(f, X), x \notin X \/ ~Hit(f, X) PROVE OneHit(g, X)
  <2> SUFFICES ASSUME NEW a \in DOMAIN g, NEW b \in DOMAIN g,
                      NEW i \in DOMAIN g[a], NEW j \in DOMAIN g[b], g[a][i] \in X, g[b][j] \in X
               PROVE  a = b /\ i = j
    BY DEF OneHit
  <2>1. /\ (i \in DOMAIN f[a] /\ g[a][i] = f[a][i]) \/ (a = d /\ i = n /\ g[a][i] = x)
        /\ (j \in DOMAIN f[b] /\ g[b][j] = f[b][j]) \/ (b = d /\ j = n /\ g[b][j] = x)
    BY DEF Appended
  <2>2. CASE x \notin X
    BY <1>3, <2>1, <2>2 DEF OneHit
  <2>3. CASE ~Hit(f, X)
    BY <2>1, <2>3 DEF Hit
  <2> QED BY <1>3, <2>2, <2>3
<1> QED BY <1>1, <1>2, <1>3

LEMMA HitTaken ==
  ASSUME NEW f, NEW g, NEW d \in DOMAIN f, NEW X, DOMAIN g = DOMAIN f, Taken(f, g, d)
  PROVE  /\ Hit(f, X) <=> Hit(g, X) \/ f[d][1] \in X
         /\ OneHit(f, X) => OneHit(g, X) /\ (f[d][1] \in X => ~Hit(g, X))
<1>1. Hit(g, X) \/ f[d][1] \in X => Hit(f, X)
  BY DEF Hit, Taken
<1>2. Hit(f, X) => Hit(g, X) \/ f[d][1] \in X
  BY DEF Hit, Taken
<1>3. ASSUME OneHit(f, X) PROVE OneHit(g, X)
  <2> SUFFICES ASSUME NEW a \in DOMAIN g, NEW b \in DOMAIN g,
                      NEW i \in DOMAIN g[a], NEW j \in DOMAIN g[b], g[a][i] \in X, g[b][j] \in X
               PROVE  a = b /\ i = j
    BY DEF OneHit
  <2>1. /\ IF a = d THEN i \in Nat /\ i + 1 \in DOMAIN f[a] /\ g[a][i] = f[a][i + 1] ELSE g[a] = f[a]
        /\ IF b = d THEN j \in Nat /\ j + 1 \in DOMAIN f[b] /\ g[b][j] = f[b][j + 1] ELSE g[b] = f[b]
    BY DEF Taken
  <2>2. a = b
    BY <1>3, <2>1 DEF OneHit
  <2>3. CASE a = d
    <3>1. i + 1 = j + 1
      BY <1>3, <2>1, <2>2, <2>3 DEF OneHit
    <3> QED BY <2>1, <2>2, <2>3, <3>1
  <2>4. CASE a # d
    BY <1>3, <2>1, <2>2, <2>4 DEF OneHit
  <2> QED BY <2>2, <2>3, <2>4
<1>4. ASSUME OneHit(f, X), f[d][1] \in X, Hit(g, X) PROVE FALSE
  <2>1. PICK e \in DOMAIN g : \E i \in DOMAIN g[e] : g[e][i] \in X
    BY <1>4 DEF Hit
  <2>2. PICK i \in DOMAIN g[e] : g[e][i] \in X
    BY <2>1
  <2>3. CASE e = d
    <3>1. i + 1 \in DOMAIN f[d] /\ f[d][i + 1] \in X /\ i + 1 # 1 /\ 1 \in DOMAIN f[d]
      BY <2>2, <2>3 DEF Taken
    <3> QED BY <1>4, <3>1 DEF OneHit
  <2>4. CASE e # d
    <3>1. i \in DOMAIN f[e] /\ f[e][i] \in X /\ 1 \in DOMAIN f[d]
      BY <2>2, <2>4 DEF Taken
    <3> QED BY <1>4, <2>4, <3>1 DEF OneHit
  <2> QED BY <2>3, <2>4
<1> QED BY <1>1, <1>2, <1>3, <1>4

Requests(c) == {wc \in Completions : Lies(wc, c)}

LEMMA RequestHit ==
  ASSUME NEW f \in [Queues -> Seq(Completions)], NEW c
  PROVE  /\ Hit(f, Requests(c)) <=> \E q \in Queues : \E i \in DOMAIN f[q] : Lies(f[q][i], c)
         /\ OneHit(f, Requests(c)) <=>
              \A q, r \in Queues : \A i \in DOMAIN f[q], j \in DOMAIN f[r] :
                Lies(f[q][i], c) /\ Lies(f[r][j], c) => q = r /\ i = j
<1>1. \A q \in Queues : \A i \in DOMAIN f[q] : f[q][i] \in Requests(c) <=> Lies(f[q][i], c)
  <2> SUFFICES ASSUME NEW q \in Queues, NEW i \in DOMAIN f[q]
               PROVE  f[q][i] \in Requests(c) <=> Lies(f[q][i], c)
    OBVIOUS
  <2>1. f[q] \in Seq(Completions)
    OBVIOUS
  <2>2. f[q][i] \in Completions
    BY <2>1
  <2> QED BY <2>2 DEF Requests
<1>2. DOMAIN f = Queues
  OBVIOUS
<1> QED BY <1>1, <1>2 DEF Hit, OneHit

LEMMA CompletionAdded ==
  ASSUME Typed, NEW q \in Queues, NEW x \in Completions, cq' = [cq EXCEPT ![q] = Append(@, x)]
  PROVE  /\ \A c \in Clients : Arrived(c)' <=> Arrived(c) \/ Lies(x, c)
         /\ \A c \in Clients : OneArrived(c) /\ (~Lies(x, c) \/ ~Arrived(c)) => OneArrived(c)'
         /\ \A r \in Queues : \A i \in DOMAIN cq'[r] :
              cq'[r][i] = x \/ (i \in DOMAIN cq[r] /\ cq'[r][i] = cq[r][i])
<1>1. cq \in [Queues -> Seq(Completions)]
  BY DEF Typed, ServerTypes
<1>2. cq' \in [Queues -> Seq(Completions)] /\ Appended(cq, cq', q, x, Len(cq[q]) + 1)
  BY <1>1, CompletionQueue
<1>3. DOMAIN cq = Queues /\ DOMAIN cq' = Queues
  BY <1>1, <1>2
<1>4. ASSUME NEW c \in Clients
      PROVE  /\ Arrived(c)' <=> Arrived(c) \/ Lies(x, c)
             /\ OneArrived(c) /\ (~Lies(x, c) \/ ~Arrived(c)) => OneArrived(c)'
  <2>1. /\ Hit(cq', Requests(c)) <=> Hit(cq, Requests(c)) \/ x \in Requests(c)
        /\ OneHit(cq, Requests(c)) /\ (x \notin Requests(c) \/ ~Hit(cq, Requests(c)))
             => OneHit(cq', Requests(c))
    <3>1. q \in DOMAIN cq /\ DOMAIN cq' = DOMAIN cq
      BY <1>3
    <3>2. PICK n : Appended(cq, cq', q, x, n)
      BY <1>2
    <3> QED BY ONLY <3>1, <3>2, HitAppended
  <2>2. /\ Hit(cq, Requests(c)) <=> Arrived(c)
        /\ OneHit(cq, Requests(c)) <=> OneArrived(c)
    BY <1>1, RequestHit DEF Arrived, OneArrived
  <2>3. /\ Hit(cq', Requests(c)) <=> Arrived(c)'
        /\ OneHit(cq', Requests(c)) <=> OneArrived(c)'
    BY <1>2, RequestHit DEF Arrived, OneArrived
  <2>4. x \in Requests(c) <=> Lies(x, c)
    BY DEF Requests
  <2> QED BY <2>1, <2>2, <2>3, <2>4
<1>5. \A r \in Queues : \A i \in DOMAIN cq'[r] :
        cq'[r][i] = x \/ (i \in DOMAIN cq[r] /\ cq'[r][i] = cq[r][i])
  BY <1>2, <1>3 DEF Appended
<1> QED BY <1>4, <1>5

LEMMA CompletionTaken ==
  ASSUME Typed, NEW q \in Queues, cq[q] # <<>>, cq' = [cq EXCEPT ![q] = Tail(@)]
  PROVE  /\ Head(cq[q]) \in Completions /\ 1 \in DOMAIN cq[q] /\ cq[q][1] = Head(cq[q])
         /\ \A c \in Clients : Arrived(c) <=> Arrived(c)' \/ Lies(Head(cq[q]), c)
         /\ \A c \in Clients : OneArrived(c) =>
              OneArrived(c)' /\ (Lies(Head(cq[q]), c) => ~Arrived(c)')
         /\ \A r \in Queues : \A i \in DOMAIN cq'[r] :
              \E j \in DOMAIN cq[r] : cq'[r][i] = cq[r][j]
<1>1. cq \in [Queues -> Seq(Completions)]
  BY DEF Typed, ServerTypes
<1>2. /\ cq' \in [Queues -> Seq(Completions)] /\ Taken(cq, cq', q)
      /\ Head(cq[q]) = cq[q][1] /\ cq[q][1] \in Completions
  BY <1>1, CompletionQueue
<1>3. DOMAIN cq = Queues /\ DOMAIN cq' = Queues
  BY <1>1, <1>2
<1>4. ASSUME NEW c \in Clients
      PROVE  /\ Arrived(c) <=> Arrived(c)' \/ Lies(Head(cq[q]), c)
             /\ OneArrived(c) => OneArrived(c)' /\ (Lies(Head(cq[q]), c) => ~Arrived(c)')
  <2>1. /\ Hit(cq, Requests(c)) <=> Hit(cq', Requests(c)) \/ cq[q][1] \in Requests(c)
        /\ OneHit(cq, Requests(c)) =>
             OneHit(cq', Requests(c)) /\ (cq[q][1] \in Requests(c) => ~Hit(cq', Requests(c)))
    <3>1. q \in DOMAIN cq /\ DOMAIN cq' = DOMAIN cq
      BY <1>3
    <3> QED BY ONLY <1>2, <3>1, HitTaken
  <2>2. /\ Hit(cq, Requests(c)) <=> Arrived(c)
        /\ OneHit(cq, Requests(c)) <=> OneArrived(c)
    BY <1>1, RequestHit DEF Arrived, OneArrived
  <2>3. /\ Hit(cq', Requests(c)) <=> Arrived(c)'
        /\ OneHit(cq', Requests(c)) <=> OneArrived(c)'
    BY <1>2, RequestHit DEF Arrived, OneArrived
  <2>4. cq[q][1] \in Requests(c) <=> Lies(Head(cq[q]), c)
    BY <1>2 DEF Requests
  <2> QED BY <2>1, <2>2, <2>3, <2>4
<1>5. \A r \in Queues : \A i \in DOMAIN cq'[r] : \E j \in DOMAIN cq[r] : cq'[r][i] = cq[r][j]
  BY <1>2, <1>3 DEF Taken
<1>6. 1 \in DOMAIN cq[q]
  BY <1>2 DEF Taken
<1> QED BY <1>2, <1>4, <1>5, <1>6

LEMMA TaskAdded ==
  ASSUME Typed, NEW w \in Workers, NEW x \in Clients, ctasks' = [ctasks EXCEPT ![w] = AddTask(@, x)]
  PROVE  /\ \A c \in Clients : Queued(c)' <=> Queued(c) \/ c = x
         /\ \A c \in Clients : OneQueued(c) /\ (c # x \/ ~Queued(c)) => OneQueued(c)'
<1>1. ctasks \in [Workers -> Seq(Clients)]
  BY DEF Typed, TaskTypes
<1>2. ctasks' \in [Workers -> Seq(Clients)] /\ Appended(ctasks, ctasks', w, x, Len(ctasks[w]) + 1)
  BY <1>1, TaskQueue DEF AddTask
<1>3. DOMAIN ctasks = Workers /\ DOMAIN ctasks' = Workers
  BY <1>1, <1>2
<1>4. ASSUME NEW c \in Clients
      PROVE  /\ Queued(c)' <=> Queued(c) \/ c = x
             /\ OneQueued(c) /\ (c # x \/ ~Queued(c)) => OneQueued(c)'
  <2>1. /\ Hit(ctasks', {c}) <=> Hit(ctasks, {c}) \/ x \in {c}
        /\ OneHit(ctasks, {c}) /\ (x \notin {c} \/ ~Hit(ctasks, {c})) => OneHit(ctasks', {c})
    <3>1. w \in DOMAIN ctasks /\ DOMAIN ctasks' = DOMAIN ctasks
      BY <1>3
    <3>2. PICK n : Appended(ctasks, ctasks', w, x, n)
      BY <1>2
    <3> QED BY ONLY <3>1, <3>2, HitAppended
  <2>2. (Hit(ctasks, {c}) <=> Queued(c)) /\ (OneHit(ctasks, {c}) <=> OneQueued(c))
    BY <1>3 DEF Hit, OneHit, Queued, OneQueued
  <2>3. (Hit(ctasks', {c}) <=> Queued(c)') /\ (OneHit(ctasks', {c}) <=> OneQueued(c)')
    BY <1>3 DEF Hit, OneHit, Queued, OneQueued
  <2> QED BY <2>1, <2>2, <2>3
<1> QED BY <1>4

LEMMA TaskTaken ==
  ASSUME Typed, NEW w \in Workers, ctasks[w] # <<>>, ctasks' = [ctasks EXCEPT ![w] = GetTask(@)]
  PROVE  /\ Head(ctasks[w]) \in Clients
         /\ \A c \in Clients : Queued(c) <=> Queued(c)' \/ c = Head(ctasks[w])
         /\ \A c \in Clients : OneQueued(c) =>
              OneQueued(c)' /\ (c = Head(ctasks[w]) => ~Queued(c)')
<1>1. ctasks \in [Workers -> Seq(Clients)]
  BY DEF Typed, TaskTypes
<1>2. /\ ctasks' \in [Workers -> Seq(Clients)] /\ Taken(ctasks, ctasks', w)
      /\ Head(ctasks[w]) = ctasks[w][1] /\ ctasks[w][1] \in Clients
  BY <1>1, TaskQueue DEF GetTask
<1>3. DOMAIN ctasks = Workers /\ DOMAIN ctasks' = Workers
  BY <1>1, <1>2
<1>4. ASSUME NEW c \in Clients
      PROVE  /\ Queued(c) <=> Queued(c)' \/ c = Head(ctasks[w])
             /\ OneQueued(c) => OneQueued(c)' /\ (c = Head(ctasks[w]) => ~Queued(c)')
  <2>1. /\ Hit(ctasks, {c}) <=> Hit(ctasks', {c}) \/ ctasks[w][1] \in {c}
        /\ OneHit(ctasks, {c}) =>
             OneHit(ctasks', {c}) /\ (ctasks[w][1] \in {c} => ~Hit(ctasks', {c}))
    <3>1. w \in DOMAIN ctasks /\ DOMAIN ctasks' = DOMAIN ctasks
      BY <1>3
    <3> QED BY ONLY <1>2, <3>1, HitTaken
  <2>2. (Hit(ctasks, {c}) <=> Queued(c)) /\ (OneHit(ctasks, {c}) <=> OneQueued(c))
    BY <1>3 DEF Hit, OneHit, Queued, OneQueued
  <2>3. (Hit(ctasks', {c}) <=> Queued(c)') /\ (OneHit(ctasks', {c}) <=> OneQueued(c)')
    BY <1>3 DEF Hit, OneHit, Queued, OneQueued
  <2> QED BY <1>2, <2>1, <2>2, <2>3
<1> QED BY <1>2, <1>4

LEMMA OwnAdded ==
  ASSUME Typed, NEW c \in Clients, NEW x \in Kinds, ccq' = [ccq EXCEPT ![c] = Append(@, x)]
  PROVE  /\ Polled(c)' <=> Polled(c) \/ x = "recv"
         /\ OnePolled(c) /\ (x # "recv" \/ ~Polled(c)) => OnePolled(c)'
         /\ \A d \in Clients \ {c} : ccq'[d] = ccq[d]
<1>1. ccq \in [Clients -> Seq(Kinds)]
  BY DEF Typed, ClientTypes
<1>2. PICK n : Appended(ccq, ccq', c, x, n)
  BY <1>1, ClientQueue
<1>3. /\ n \in DOMAIN ccq'[c] /\ ccq'[c][n] = x /\ n \notin DOMAIN ccq[c]
      /\ \A i \in DOMAIN ccq[c] : i \in DOMAIN ccq'[c] /\ ccq'[c][i] = ccq[c][i]
      /\ \A i \in DOMAIN ccq'[c] : i \in DOMAIN ccq[c] \/ i = n
  BY <1>1, <1>2 DEF Appended
<1>4. Polled(c)' <=> Polled(c) \/ x = "recv"
  BY <1>3 DEF Polled
<1>5. OnePolled(c) /\ (x # "recv" \/ ~Polled(c)) => OnePolled(c)'
  BY <1>3 DEF OnePolled, Polled
<1>6. \A d \in Clients \ {c} : ccq'[d] = ccq[d]
  BY <1>1
<1> QED BY <1>4, <1>5, <1>6

LEMMA OwnTaken ==
  ASSUME Typed, NEW c \in Clients, ccq[c] # <<>>,
         \/ Head(ccq[c]) # "recv" /\ ccq' = [ccq EXCEPT ![c] = Tail(@)]
         \/ Head(ccq[c]) = "recv" /\ ccq' = [ccq EXCEPT ![c] = <<>>]
  PROVE  /\ Head(ccq[c]) = "recv" => Polled(c) /\ ~Polled(c)'
         /\ Head(ccq[c]) # "recv" => (Polled(c)' <=> Polled(c))
         /\ OnePolled(c) => OnePolled(c)'
         /\ \A d \in Clients \ {c} : ccq'[d] = ccq[d]
<1>1. ccq \in [Clients -> Seq(Kinds)]
  BY DEF Typed, ClientTypes
<1>2. \A d \in Clients \ {c} : ccq'[d] = ccq[d]
  BY <1>1
<1>3. CASE Head(ccq[c]) = "recv" /\ ccq' = [ccq EXCEPT ![c] = <<>>]
  <2>1. Head(ccq[c]) = ccq[c][1] /\ Taken(ccq, [ccq EXCEPT ![c] = Tail(@)], c)
    BY <1>1, ClientQueue
  <2>2. 1 \in DOMAIN ccq[c] /\ ccq[c][1] = "recv"
    BY <1>3, <2>1 DEF Taken
  <2>3. ccq'[c] = <<>>
    BY <1>1, <1>3
  <2>4. Polled(c) /\ ~Polled(c)' /\ OnePolled(c)'
    BY <2>2, <2>3 DEF Polled, OnePolled
  <2> QED BY <1>2, <1>3, <2>4
<1>4. CASE Head(ccq[c]) # "recv" /\ ccq' = [ccq EXCEPT ![c] = Tail(@)]
  <2>1. Head(ccq[c]) = ccq[c][1] /\ Taken(ccq, ccq', c)
    BY <1>1, <1>4, ClientQueue
  <2>2. /\ \A i \in DOMAIN ccq'[c] :
             /\ i + 1 \in DOMAIN ccq[c] /\ ccq'[c][i] = ccq[c][i + 1] /\ i \in Nat
        /\ \A i \in DOMAIN ccq[c] : i # 1 => i - 1 \in DOMAIN ccq'[c] /\ ccq'[c][i - 1] = ccq[c][i]
    BY <2>1 DEF Taken
  <2>3. Polled(c)' <=> Polled(c)
    BY <1>4, <2>1, <2>2 DEF Polled
  <2>4. OnePolled(c) => OnePolled(c)'
    <3> SUFFICES ASSUME OnePolled(c), NEW i \in DOMAIN ccq'[c], NEW j \in DOMAIN ccq'[c],
                        ccq'[c][i] = "recv", ccq'[c][j] = "recv"
                 PROVE  i = j
      BY DEF OnePolled
    <3>1. i + 1 = j + 1 /\ i \in Nat /\ j \in Nat
      BY <2>2 DEF OnePolled
    <3> QED BY <3>1
  <2> QED BY <1>2, <1>4, <2>3, <2>4
<1> QED BY <1>3, <1>4

(* No event of c waits. *)
NoEvent(c) == \A i \in DOMAIN events : events[i].client # c

LEMMA EventAdded ==
  ASSUME Typed, EventsOK, NEW c \in Clients, NEW type \in Events, NoEvent(c),
         events' = Append(events, Event(type, c))
  PROVE  /\ \A i \in DOMAIN events' :
              \/ events'[i] = Event(type, c)
              \/ i \in DOMAIN events /\ events'[i] = events[i] /\ events[i].client # c
         /\ \A i, j \in DOMAIN events' : events'[i].client = events'[j].client => i = j
         /\ \A d \in Clients \ {c} : Agreed(d)' <=> Agreed(d)
         /\ ~Agreed(c) /\ (Agreed(c)' <=> type = "ESTABLISHED")
<1>1. events \in Seq([type : Events, client : Clients]) /\ Event(type, c) \in [type : Events, client : Clients]
  BY EventTyped DEF Typed, ServerTypes
<1>2. PICK n : /\ n \in DOMAIN events' /\ events'[n] = Event(type, c) /\ n \notin DOMAIN events
               /\ \A i \in DOMAIN events : i \in DOMAIN events' /\ events'[i] = events[i]
               /\ \A i \in DOMAIN events' : i \in DOMAIN events \/ i = n
  BY <1>1, AppendIs
<1>3. \A i \in DOMAIN events' :
        \/ i = n /\ events'[i] = Event(type, c)
        \/ i \in DOMAIN events /\ events'[i] = events[i] /\ events[i].client # c
  BY <1>2 DEF NoEvent
<1>4. Event(type, c).client = c /\ Event(type, c).type = type
  BY DEF Event
<1>5. \A i, j \in DOMAIN events' : events'[i].client = events'[j].client => i = j
  BY <1>3, <1>4 DEF EventsOK
<1>6. \A d : Event("ESTABLISHED", d).client = d /\ Event("ESTABLISHED", d).type = "ESTABLISHED"
  BY DEF Event
<1>7. \A d \in Clients \ {c} : Agreed(d)' <=> Agreed(d)
  <2> SUFFICES ASSUME NEW d \in Clients \ {c} PROVE Agreed(d)' <=> Agreed(d)
    OBVIOUS
  <2>1. Event(type, c) # Event("ESTABLISHED", d)
    BY <1>4, <1>6
  <2> QED BY <1>2, <1>3, <2>1 DEF Agreed
<1>8. ~Agreed(c)
  BY <1>6 DEF Agreed, NoEvent
<1>9. Agreed(c)' <=> type = "ESTABLISHED"
  <2>1. CASE type = "ESTABLISHED"
    BY <1>2, <2>1 DEF Agreed
  <2>2. CASE type # "ESTABLISHED"
    <3>1. \A i \in DOMAIN events' : events'[i].client # c \/ events'[i].type # "ESTABLISHED"
      BY <1>3, <1>4, <2>2
    <3> QED BY <1>6, <2>2, <3>1 DEF Agreed
  <2> QED BY <2>1, <2>2
<1> QED BY <1>3, <1>5, <1>7, <1>8, <1>9

LEMMA EventTaken ==
  ASSUME Typed, EventsOK, NEW c \in Clients, NEW type \in Events, Handle(type, c)
  PROVE  /\ \A i \in DOMAIN events' :
              \E j \in DOMAIN events : events'[i] = events[j] /\ events[j].client # c
         /\ \A i, j \in DOMAIN events' : events'[i].client = events'[j].client => i = j
         /\ \A d \in Clients \ {c} : Agreed(d)' <=> Agreed(d)
         /\ ~Agreed(c)' /\ (Agreed(c) <=> type = "ESTABLISHED")
         /\ Fits(Event(type, c))
<1>1. events \in Seq([type : Events, client : Clients]) /\ events # <<>> /\ events' = Tail(events)
  BY DEF Typed, ServerTypes, Handle
<1>2. /\ events[1] = Event(type, c) /\ 1 \in DOMAIN events
      /\ \A i \in DOMAIN events' :
           /\ i + 1 \in DOMAIN events /\ events'[i] = events[i + 1] /\ i + 1 # 1 /\ i \in Nat
      /\ \A i \in DOMAIN events : i # 1 => i - 1 \in DOMAIN events' /\ events'[i - 1] = events[i]
  <2>1. Head(events) = Event(type, c)
    BY DEF Handle
  <2> QED BY <1>1, <2>1, TailIs
<1>3. /\ Event(type, c).client = c /\ Event(type, c).type = type
      /\ \A d : Event("ESTABLISHED", d).client = d /\ Event("ESTABLISHED", d).type = "ESTABLISHED"
  BY DEF Event
<1>4. \A i \in DOMAIN events' : i + 1 \in DOMAIN events /\ events'[i] = events[i + 1] /\ events[i + 1].client # c
  BY <1>2, <1>3 DEF EventsOK
<1>5. ASSUME NEW i \in DOMAIN events', NEW j \in DOMAIN events', events'[i].client = events'[j].client
      PROVE  i = j
  <2>1. i + 1 = j + 1 /\ i \in Nat /\ j \in Nat
    BY <1>2, <1>5 DEF EventsOK
  <2> QED BY <2>1
<1>6. ASSUME NEW d \in Clients \ {c} PROVE Agreed(d)' <=> Agreed(d)
  <2>1. Event(type, c) # Event("ESTABLISHED", d)
    BY <1>3
  <2> QED BY <1>2, <2>1 DEF Agreed
<1>7. ~Agreed(c)'
  BY <1>3, <1>4 DEF Agreed
<1>8. Agreed(c) <=> type = "ESTABLISHED"
  <2>1. CASE type = "ESTABLISHED"
    BY <1>2, <2>1 DEF Agreed
  <2>2. ASSUME Agreed(c) PROVE type = "ESTABLISHED"
    <3>1. PICK i \in DOMAIN events : events[i] = Event("ESTABLISHED", c)
      BY <2>2 DEF Agreed
    <3>2. i = 1
      BY <1>2, <1>3, <3>1 DEF EventsOK
    <3> QED BY <1>2, <1>3, <3>1, <3>2
  <2> QED BY <2>1, <2>2
<1>9. Fits(Event(type, c))
  BY <1>2 DEF EventsOK
<1>10. \A i \in DOMAIN events' :
         \E j \in DOMAIN events : events'[i] = events[j] /\ events[j].client # c
  BY <1>4
<1> QED BY <1>5, <1>6, <1>7, <1>8, <1>9, <1>10

-----------------------------------------------------------------------------
(* What a step leaves alone                                                 *)

LEMMA Frame ==
  ASSUME NEW c
  PROVE  /\ up'[c] = up[c] => (Sent(c)' <=> Sent(c)) /\ (OneSent(c)' <=> OneSent(c))
         /\ down'[c] = down[c] => (Answered(c)' <=> Answered(c)) /\ (OneAnswered(c)' <=> OneAnswered(c))
         /\ ccq'[c] = ccq[c] => (Polled(c)' <=> Polled(c)) /\ (OnePolled(c)' <=> OnePolled(c))
         /\ events' = events => (Agreed(c)' <=> Agreed(c))
         /\ cq' = cq => (Arrived(c)' <=> Arrived(c)) /\ (OneArrived(c)' <=> OneArrived(c))
         /\ ppc' = ppc /\ wr_id' = wr_id /\ context'[c] = context[c] =>
              (Made(c)' <=> Made(c)) /\ (OneMade(c)' <=> OneMade(c))
         /\ ctasks' = ctasks => (Queued(c)' <=> Queued(c)) /\ (OneQueued(c)' <=> OneQueued(c))
         /\ wtask' = wtask => (Run(c)' <=> Run(c)) /\ (OneRun(c)' <=> OneRun(c))
<1>1. up'[c] = up[c] => (Sent(c)' <=> Sent(c)) /\ (OneSent(c)' <=> OneSent(c))
  BY DEF Sent, OneSent
<1>2. down'[c] = down[c] => (Answered(c)' <=> Answered(c)) /\ (OneAnswered(c)' <=> OneAnswered(c))
  BY DEF Answered, OneAnswered
<1>3. ccq'[c] = ccq[c] => (Polled(c)' <=> Polled(c)) /\ (OnePolled(c)' <=> OnePolled(c))
  BY DEF Polled, OnePolled
<1>4. events' = events => (Agreed(c)' <=> Agreed(c))
  BY DEF Agreed
<1>5. cq' = cq => (Arrived(c)' <=> Arrived(c)) /\ (OneArrived(c)' <=> OneArrived(c))
  BY DEF Arrived, OneArrived
<1>6. ppc' = ppc /\ wr_id' = wr_id /\ context'[c] = context[c] =>
        (Made(c)' <=> Made(c)) /\ (OneMade(c)' <=> OneMade(c))
  BY DEF Made, OneMade
<1>7. ctasks' = ctasks => (Queued(c)' <=> Queued(c)) /\ (OneQueued(c)' <=> OneQueued(c))
  BY DEF Queued, OneQueued
<1>8. wtask' = wtask => (Run(c)' <=> Run(c)) /\ (OneRun(c)' <=> OneRun(c))
  BY DEF Run, OneRun
<1> QED BY <1>1, <1>2, <1>3, <1>4, <1>5, <1>6, <1>7, <1>8

LEMMA LinkedFrame ==
  ASSUME Linked, object' = object, context' = context,
         \A c \in Clients : qp'[c].live = qp[c].live,
         \A c \in Clients : cpc'[c] \in {"keys", "ready", "exchange"} => context[c] # None,
         \A c \in Clients : cpc'[c] = "start" => cpc[c] = "start"
  PROVE  Linked'
BY DEF Linked

LEMMA EventsFrame ==
  ASSUME Typed, EventsOK, events' = events, context' = context,
         \A c \in Clients : cpc'[c] = cpc[c] \/ NoEvent(c)
  PROVE  EventsOK'
<1>1. events \in Seq([type : Events, client : Clients])
  BY DEF Typed, ServerTypes
<1>2. \A i \in DOMAIN events : events[i].client \in Clients
  <2>1. \A i \in DOMAIN events : events[i] \in [type : Events, client : Clients]
    BY <1>1, ElementsOf
  <2> QED BY <2>1
<1>3. \A i \in DOMAIN events : cpc'[events[i].client] = cpc[events[i].client]
  BY <1>2 DEF NoEvent
<1> QED BY <1>3 DEF EventsOK, Fits

LEMMA EventsGrow ==
  ASSUME Typed, EventsOK, NEW c \in Clients, NEW type \in Events, NoEvent(c),
         events' = Append(events, Event(type, c)), Fits(Event(type, c))',
         \A d \in Clients \ {c} : cpc'[d] = cpc[d] /\ context'[d] = context[d]
  PROVE  EventsOK'
<1>1. /\ \A i \in DOMAIN events' :
           \/ events'[i] = Event(type, c)
           \/ i \in DOMAIN events /\ events'[i] = events[i] /\ events[i].client # c
      /\ \A i, j \in DOMAIN events' : events'[i].client = events'[j].client => i = j
  BY EventAdded
<1> SUFFICES ASSUME NEW i \in DOMAIN events' PROVE Fits(events[i])'
  BY <1>1 DEF EventsOK
<1>2. CASE events'[i] = Event(type, c)
  BY <1>2 DEF Fits, Event
<1>3. CASE i \in DOMAIN events /\ events'[i] = events[i] /\ events[i].client # c
  <2>1. events[i] \in [type : Events, client : Clients] /\ Fits(events[i])
    BY <1>3, ElementsOf DEF Typed, ServerTypes, EventsOK
  <2> QED BY <1>3, <2>1 DEF Fits
<1> QED BY <1>1, <1>2, <1>3

LEMMA EventsShrink ==
  ASSUME Typed, EventsOK, NEW c \in Clients, NEW type \in Events, Handle(type, c),
         \A d \in Clients \ {c} : cpc'[d] = cpc[d] /\ context'[d] = context[d]
  PROVE  EventsOK'
<1>1. /\ \A i \in DOMAIN events' :
           \E j \in DOMAIN events : events'[i] = events[j] /\ events[j].client # c
      /\ \A i, j \in DOMAIN events' : events'[i].client = events'[j].client => i = j
  BY EventTaken
<1> SUFFICES ASSUME NEW i \in DOMAIN events' PROVE Fits(events[i])'
  BY <1>1 DEF EventsOK
<1>2. PICK j \in DOMAIN events : events'[i] = events[j] /\ events[j].client # c
  BY <1>1
<1>3. events[j] \in [type : Events, client : Clients] /\ Fits(events[j])
  BY ElementsOf DEF Typed, ServerTypes, EventsOK
<1> QED BY <1>2, <1>3 DEF Fits

LEMMA Quiet ==
  ASSUME Typed, EventsOK, NEW c \in Clients,
         cpc[c] \in {"start", "ready"} \/ (cpc[c] = "connect" /\ context[c] # None)
  PROVE  NoEvent(c)
<1>1. \A i \in DOMAIN events : events[i] \in [type : Events, client : Clients] /\ Fits(events[i])
  BY ElementsOf DEF Typed, ServerTypes, EventsOK
<1> QED BY <1>1 DEF NoEvent, Fits, Events

LEMMA CompletionsFrame ==
  ASSUME CompletionsOK, context' = context, cq' = cq
  PROVE  CompletionsOK'
BY DEF CompletionsOK

LEMMA PollersFrame ==
  ASSUME PollersOK, object' = object, ppc' = ppc, wr_id' = wr_id
  PROVE  PollersOK'
BY DEF PollersOK

LEMMA ServedFrame ==
  ASSUME NEW c, Served(c), context'[c] = context[c], qp'[c] = qp[c], wr_id' = wr_id,
         Arrived(c) => Arrived(c)'
  PROVE  Served(c)'
BY DEF Served

(* Which stages a request is in.                                            *)
LEMMA InIs ==
  ASSUME NEW c
  PROVE  /\ In(c, "sent") <=> Sent(c)
         /\ In(c, "answered") <=> Answered(c)
         /\ In(c, "polled") <=> Polled(c)
         /\ In(c, "agreed") <=> Agreed(c)
         /\ In(c, "arrived") <=> Arrived(c)
         /\ In(c, "made") <=> Made(c)
         /\ In(c, "queued") <=> Queued(c)
         /\ In(c, "run") <=> Run(c)
BY DEF In

(* The stage of a request, if it is in one.                                 *)
OnlyIn(c, s) == \A r \in Stages : In(c, r) <=> r = s

LEMMA Alone ==
  ASSUME NEW c, Staged(c), NEW s \in Stages, In(c, s)
  PROVE  OnlyIn(c, s) /\ Waits(c) /\ c \notin lost
BY DEF Staged, OnlyIn

LEMMA Nowhere ==
  ASSUME NEW c, Staged(c), ~Waits(c)
  PROVE  /\ \A s \in Stages : ~In(c, s)
         /\ c \notin lost
BY DEF Staged

LEMMA StagedIn ==
  ASSUME NEW c, NEW s \in Stages, OnlyIn(c, s)', Waits(c)', c \notin lost'
  PROVE  Staged(c)'
BY DEF Staged, OnlyIn

LEMMA StagedOut ==
  ASSUME NEW c, \A s \in Stages : ~In(c, s)', c \in lost' <=> Waits(c)'
  PROVE  Staged(c)'
BY DEF Staged

SameStages(c) ==
  /\ Sent(c)' <=> Sent(c)
  /\ Answered(c)' <=> Answered(c)
  /\ Polled(c)' <=> Polled(c)
  /\ Agreed(c)' <=> Agreed(c)
  /\ Arrived(c)' <=> Arrived(c)
  /\ Made(c)' <=> Made(c)
  /\ Queued(c)' <=> Queued(c)
  /\ Run(c)' <=> Run(c)

LEMMA StagedFrame ==
  ASSUME NEW c, Staged(c), SameStages(c), Waits(c)' <=> Waits(c), c \in lost' <=> c \in lost
  PROVE  Staged(c)'
<1>1. \A s \in Stages : In(c, s)' <=> In(c, s)
  BY DEF In, SameStages
<1> QED BY <1>1 DEF Staged

-----------------------------------------------------------------------------
(* The client                                                               *)

LEMMA ConnectStep ==
  ASSUME Typed, Sound, NEW c \in Clients, Connect(c)
  PROVE  Sound'
<1>1. /\ cpc[c] = "start" /\ cpc' = [cpc EXCEPT ![c] = "connect"]
      /\ events' = Append(events, Event("CONNECT_REQUEST", c))
      /\ ccq' = ccq /\ up' = up /\ down' = down /\ object' = object /\ context' = context
      /\ qp' = qp /\ cq' = cq /\ ppc' = ppc /\ wr_id' = wr_id /\ ctasks' = ctasks
      /\ wtask' = wtask /\ lost' = lost
  BY DEF Connect, pollVars, taskVars, endVars
<1>2. /\ cpc'[c] = "connect" /\ \A d \in Clients \ {c} : cpc'[d] = cpc[d]
      /\ \A d \in Clients : Waits(d)' <=> Waits(d)
  BY <1>1 DEF Typed, ClientTypes, Waits
<1>3. context[c] = None
  BY <1>1 DEF Sound, Linked
<1>4. NoEvent(c)
  BY <1>1, Quiet DEF Sound
<1>5. \A d \in Clients : Agreed(d)' <=> Agreed(d)
  BY <1>1, <1>4, EventAdded DEF Events, Sound
<1>6. EventsOK'
  BY <1>1, <1>2, <1>3, <1>4, EventsGrow DEF Sound, Events, Fits, Event
<1>7. Linked' /\ CompletionsOK' /\ PollersOK'
  BY <1>1, <1>2, LinkedFrame, CompletionsFrame, PollersFrame DEF Sound, Linked
<1>8. ASSUME NEW d \in Clients PROVE Staged(d)' /\ Once(d)' /\ Served(d)'
  <2>1. SameStages(d) /\ (Once(d)' <=> Once(d))
    BY <1>1, <1>5, Frame DEF SameStages, Once
  <2> QED BY <1>1, <1>2, <2>1, StagedFrame, ServedFrame DEF Sound, SameStages
<1> QED BY <1>6, <1>7, <1>8 DEF Sound

LEMMA OnEstablishedStep ==
  ASSUME Typed, Sound, NEW c \in Clients, OnEstablished(c)
  PROVE  Sound'
<1>1. /\ cpc[c] = "connect" /\ qp[c].live /\ cpc' = [cpc EXCEPT ![c] = "keys"]
      /\ events' = Append(events, Event("ESTABLISHED", c))
      /\ ccq' = ccq /\ up' = up /\ down' = down /\ object' = object /\ context' = context
      /\ qp' = qp /\ cq' = cq /\ ppc' = ppc /\ wr_id' = wr_id /\ ctasks' = ctasks
      /\ wtask' = wtask /\ lost' = lost
  BY DEF OnEstablished, pollVars, taskVars, endVars
<1>2. cpc'[c] = "keys" /\ \A d \in Clients \ {c} : cpc'[d] = cpc[d]
  BY <1>1 DEF Typed, ClientTypes
<1>3. context[c] # None
  BY <1>1 DEF Sound, Linked
<1>4. NoEvent(c)
  BY <1>1, <1>3, Quiet DEF Sound
<1>5. Agreed(c)' /\ \A d \in Clients \ {c} : Agreed(d)' <=> Agreed(d)
  BY <1>1, <1>4, EventAdded DEF Events, Sound
<1>6. EventsOK'
  BY <1>1, <1>2, <1>4, EventsGrow DEF Sound, Events, Fits, Event
<1>7. Linked' /\ CompletionsOK' /\ PollersOK'
  BY <1>1, <1>2, <1>3, LinkedFrame, CompletionsFrame, PollersFrame DEF Sound, Linked
<1>8. ASSUME NEW d \in Clients PROVE Once(d)' /\ Served(d)'
  BY <1>1, Frame, ServedFrame DEF Sound, Once
<1>9. Staged(c)'
  <2>1. (\A s \in Stages : ~In(c, s)) /\ c \notin lost
    BY <1>1, Nowhere DEF Sound, Waits
  <2>2. /\ ~Sent(c)' /\ ~Answered(c)' /\ ~Polled(c)' /\ ~Arrived(c)'
        /\ ~Made(c)' /\ ~Queued(c)' /\ ~Run(c)'
    BY <1>1, <2>1, Frame, InIs DEF Stages
  <2>3. OnlyIn(c, "agreed")'
    BY <1>5, <2>2 DEF OnlyIn, In, Stages
  <2>4. Waits(c)' /\ c \notin lost' /\ "agreed" \in Stages
    BY <1>1, <1>2, <2>1 DEF Waits, Stages
  <2> QED BY <2>3, <2>4, StagedIn
<1>10. ASSUME NEW d \in Clients \ {c} PROVE Staged(d)'
  <2>1. SameStages(d) /\ (Waits(d)' <=> Waits(d))
    BY <1>1, <1>2, <1>5, Frame DEF SameStages, Waits
  <2> QED BY <1>1, <2>1, StagedFrame DEF Sound
<1> QED BY <1>6, <1>7, <1>8, <1>9, <1>10 DEF Sound

LEMMA ExchangeStep ==
  ASSUME Typed, Sound, NEW c \in Clients, Exchange(c)
  PROVE  Sound'
<1>1. /\ cpc[c] = "ready" /\ cpc' = [cpc EXCEPT ![c] = "exchange"]
      /\ up' = [up EXCEPT ![c] = @ + 1]
      /\ events' = events /\ ccq' = ccq /\ down' = down /\ object' = object /\ context' = context
      /\ qp' = qp /\ cq' = cq /\ ppc' = ppc /\ wr_id' = wr_id /\ ctasks' = ctasks
      /\ wtask' = wtask /\ lost' = lost
  BY DEF Exchange, connVars, pollVars, taskVars, endVars
<1>2. /\ cpc'[c] = "exchange" /\ \A d \in Clients \ {c} : cpc'[d] = cpc[d]
      /\ up'[c] = up[c] + 1 /\ \A d \in Clients \ {c} : up'[d] = up[d]
  BY <1>1 DEF Typed, ClientTypes
<1>3. context[c] # None
  BY <1>1 DEF Sound, Linked
<1>4. NoEvent(c)
  BY <1>1, Quiet DEF Sound
<1>5. (\A s \in Stages : ~In(c, s)) /\ c \notin lost
  BY <1>1, Nowhere DEF Sound, Waits
<1>6. Linked' /\ CompletionsOK' /\ PollersOK' /\ EventsOK'
  BY <1>1, <1>2, <1>3, <1>4, LinkedFrame, CompletionsFrame, PollersFrame, EventsFrame DEF Sound, Linked
<1>7. up[c] = 0
  BY <1>5, InIs DEF Stages, Sent, Typed, ClientTypes
<1>8. ASSUME NEW d \in Clients PROVE Served(d)' /\ Once(d)'
  <2>1. Served(d)'
    BY <1>1, Frame, ServedFrame DEF Sound
  <2>2. OneSent(d)'
    <3>1. CASE d = c
      BY <1>2, <1>7, <3>1 DEF OneSent
    <3>2. CASE d # c
      BY <1>2, <3>2, Frame DEF Sound, Once
    <3> QED BY <3>1, <3>2
  <2> QED BY <1>1, <2>1, <2>2, Frame DEF Sound, Once
<1>9. Staged(c)'
  <2>1. Sent(c)'
    BY <1>2, <1>7 DEF Sent
  <2>2. /\ ~Agreed(c)' /\ ~Answered(c)' /\ ~Polled(c)' /\ ~Arrived(c)'
        /\ ~Made(c)' /\ ~Queued(c)' /\ ~Run(c)'
    BY <1>1, <1>5, Frame, InIs DEF Stages
  <2>3. OnlyIn(c, "sent")'
    BY <2>1, <2>2 DEF OnlyIn, In, Stages
  <2>4. Waits(c)' /\ c \notin lost' /\ "sent" \in Stages
    BY <1>1, <1>2, <1>5 DEF Waits, Stages
  <2> QED BY <2>3, <2>4, StagedIn
<1>10. ASSUME NEW d \in Clients \ {c} PROVE Staged(d)'
  <2>1. SameStages(d) /\ (Waits(d)' <=> Waits(d))
    BY <1>1, <1>2, Frame DEF SameStages, Waits
  <2> QED BY <1>1, <2>1, StagedFrame DEF Sound
<1> QED BY <1>6, <1>8, <1>9, <1>10 DEF Sound

LEMMA PollOwnStep ==
  ASSUME Typed, Sound, NEW c \in Clients, PollOwn(c)
  PROVE  Sound'
<1>1. /\ Waits(c) /\ ccq[c] # <<>>
      /\ up' = up /\ events' = events /\ down' = down /\ object' = object /\ context' = context
      /\ qp' = qp /\ cq' = cq /\ ppc' = ppc /\ wr_id' = wr_id /\ ctasks' = ctasks
      /\ wtask' = wtask /\ lost' = lost
  BY DEF PollOwn, Waits, connVars, pollVars, taskVars, endVars
<1>2. IF Head(ccq[c]) = "recv"
      THEN ccq' = [ccq EXCEPT ![c] = <<>>] /\ cpc' = [cpc EXCEPT ![c] = "ready"]
      ELSE ccq' = [ccq EXCEPT ![c] = Tail(@)] /\ cpc' = cpc
  BY DEF PollOwn, Completes
<1>3. /\ Head(ccq[c]) = "recv" => Polled(c) /\ ~Polled(c)'
      /\ Head(ccq[c]) # "recv" => (Polled(c)' <=> Polled(c))
      /\ OnePolled(c) => OnePolled(c)'
      /\ \A d \in Clients \ {c} : ccq'[d] = ccq[d]
  BY <1>1, <1>2, OwnTaken
<1>4. /\ \A d \in Clients \ {c} : cpc'[d] = cpc[d]
      /\ IF Head(ccq[c]) = "recv" THEN cpc'[c] = "ready" ELSE cpc'[c] = cpc[c]
  BY <1>2 DEF Typed, ClientTypes
<1>5. context[c] # None
  BY <1>1 DEF Sound, Linked, Waits
<1>6. Linked' /\ CompletionsOK' /\ PollersOK'
  BY <1>1, <1>4, <1>5, LinkedFrame, CompletionsFrame, PollersFrame DEF Sound, Linked
<1>7. ASSUME NEW d \in Clients PROVE Served(d)' /\ Once(d)'
  <2>1. Served(d)'
    BY <1>1, Frame, ServedFrame DEF Sound
  <2>2. OnePolled(d)'
    BY <1>3, Frame DEF Sound, Once
  <2> QED BY <1>1, <2>1, <2>2, Frame DEF Sound, Once
<1>8. ASSUME NEW d \in Clients \ {c} PROVE Staged(d)'
  <2>1. SameStages(d) /\ (Waits(d)' <=> Waits(d))
    BY <1>1, <1>3, <1>4, Frame DEF SameStages, Waits
  <2> QED BY <1>1, <2>1, StagedFrame DEF Sound
<1>9. CASE Head(ccq[c]) # "recv"
  <2>1. SameStages(c) /\ (Waits(c)' <=> Waits(c))
    BY <1>1, <1>3, <1>4, <1>9, Frame DEF SameStages, Waits
  <2>2. Staged(c)'
    BY <1>1, <2>1, StagedFrame DEF Sound
  <2>3. EventsOK'
    BY <1>1, <1>4, <1>9, EventsFrame DEF Sound
  <2> QED BY <1>6, <1>7, <1>8, <2>2, <2>3 DEF Sound
<1>10. CASE Head(ccq[c]) = "recv"
  <2>1. OnlyIn(c, "polled") /\ c \notin lost
    BY <1>3, <1>10, Alone, InIs DEF Stages, Sound
  <2>2. /\ ~Sent(c)' /\ ~Agreed(c)' /\ ~Answered(c)' /\ ~Polled(c)' /\ ~Arrived(c)'
        /\ ~Made(c)' /\ ~Queued(c)' /\ ~Run(c)'
    BY <1>1, <1>3, <1>10, <2>1, Frame, InIs DEF Stages, OnlyIn
  <2>3. Staged(c)'
    <3>1. \A s \in Stages : ~In(c, s)'
      BY <2>2 DEF In, Stages
    <3>2. c \in lost' <=> Waits(c)'
      BY <1>1, <1>4, <1>10, <2>1 DEF Waits
    <3> QED BY <3>1, <3>2, StagedOut
  <2>4. NoEvent(c)
    <3>1. \A i \in DOMAIN events : events[i] \in [type : Events, client : Clients] /\ Fits(events[i])
      BY ElementsOf DEF Typed, ServerTypes, Sound, EventsOK
    <3>2. ~Agreed(c)
      BY <2>1, InIs DEF OnlyIn, Stages
    <3>3. ASSUME NEW i \in DOMAIN events, events[i].client = c PROVE events[i].type = "ESTABLISHED"
      BY <1>1, <3>1, <3>3 DEF Fits, Waits, Events
    <3>4. ASSUME NEW i \in DOMAIN events, events[i].client = c PROVE FALSE
      <4>1. events[i] = Event("ESTABLISHED", c)
        BY <3>1, <3>3, <3>4 DEF Event
      <4> QED BY <3>2, <4>1 DEF Agreed
    <3> QED BY <3>4 DEF NoEvent
  <2>5. EventsOK'
    BY <1>1, <1>4, <2>4, EventsFrame DEF Sound
  <2> QED BY <1>6, <1>7, <1>8, <2>3, <2>5 DEF Sound
<1> QED BY <1>9, <1>10

LEMMA DisconnectStep ==
  ASSUME Typed, Sound, NEW c \in Clients, Disconnect(c)
  PROVE  Sound'
<1>1. /\ cpc[c] = "ready" /\ cpc' = [cpc EXCEPT ![c] = "closed"]
      /\ events' = Append(events, Event("DISCONNECTED", c))
      /\ ccq' = ccq /\ up' = up /\ down' = down /\ object' = object /\ context' = context
      /\ qp' = qp /\ cq' = cq /\ ppc' = ppc /\ wr_id' = wr_id /\ ctasks' = ctasks
      /\ wtask' = wtask /\ lost' = lost
  BY DEF Disconnect, pollVars, taskVars, endVars
<1>2. /\ cpc'[c] = "closed" /\ \A d \in Clients \ {c} : cpc'[d] = cpc[d]
      /\ \A d \in Clients : Waits(d)' <=> Waits(d)
  BY <1>1 DEF Typed, ClientTypes, Waits
<1>3. context[c] # None
  BY <1>1 DEF Sound, Linked
<1>4. NoEvent(c)
  BY <1>1, Quiet DEF Sound
<1>5. \A d \in Clients : Agreed(d)' <=> Agreed(d)
  BY <1>1, <1>4, EventAdded DEF Events, Sound
<1>6. EventsOK'
  BY <1>1, <1>2, <1>3, <1>4, EventsGrow DEF Sound, Events, Fits, Event
<1>7. Linked' /\ CompletionsOK' /\ PollersOK'
  BY <1>1, <1>2, LinkedFrame, CompletionsFrame, PollersFrame DEF Sound, Linked
<1>8. ASSUME NEW d \in Clients PROVE Staged(d)' /\ Once(d)' /\ Served(d)'
  <2>1. SameStages(d) /\ (Once(d)' <=> Once(d))
    BY <1>1, <1>5, Frame DEF SameStages, Once
  <2> QED BY <1>1, <1>2, <2>1, StagedFrame, ServedFrame DEF Sound, SameStages
<1> QED BY <1>6, <1>7, <1>8 DEF Sound

-----------------------------------------------------------------------------
(* The network                                                              *)

LEMMA CompletionsGrow ==
  ASSUME Typed, CompletionsOK, NEW q \in Queues, NEW c \in Clients, NEW kind \in Kinds,
         context[c] # None, context' = context,
         cq' = [cq EXCEPT ![q] = Append(@, Completion(kind, c))]
  PROVE  CompletionsOK'
<1>1. Completion(kind, c) \in Completions
  BY CompletionTyped
<1>2. \A r \in Queues : \A i \in DOMAIN cq'[r] :
        cq'[r][i] = Completion(kind, c) \/ (i \in DOMAIN cq[r] /\ cq'[r][i] = cq[r][i])
  BY <1>1, CompletionAdded
<1>3. Completion(kind, c).wr_id = context[c] /\ Completion(kind, c).client = c
  BY DEF Completion
<1> QED BY <1>2, <1>3 DEF CompletionsOK

LEMMA DeliverRequestStep ==
  ASSUME Typed, Sound, NEW c \in Clients, DeliverRequest(c)
  PROVE  Sound'
<1>1. /\ up[c] > 0 /\ qp[c].live /\ qp[c].recvs > 0
      /\ up' = [up EXCEPT ![c] = @ - 1] /\ qp' = [qp EXCEPT ![c].recvs = @ - 1]
      /\ cq' = [cq EXCEPT ![qp[c].cq] = Append(@, Completion("recv", c))]
      /\ ccq' = [ccq EXCEPT ![c] = Append(@, "send")]
      /\ cpc' = cpc /\ down' = down /\ events' = events /\ object' = object /\ context' = context
      /\ ppc' = ppc /\ wr_id' = wr_id /\ ctasks' = ctasks /\ wtask' = wtask /\ lost' = lost
  BY DEF DeliverRequest, taskVars, endVars
<1>2. /\ up[c] \in Nat /\ up'[c] = up[c] - 1 /\ \A d \in Clients \ {c} : up'[d] = up[d]
      /\ \A d \in Clients \ {c} : qp'[d] = qp[d]
      /\ \A d \in Clients : qp'[d].live = qp[d].live
      /\ qp[c].cq \in Queues
  <2>1. qp[c] \in QueuePairs /\ qp \in [Clients -> QueuePairs]
    BY DEF Typed, ServerTypes
  <2>2. qp'[c] = [qp[c] EXCEPT !.recvs = @ - 1] /\ \A d \in Clients \ {c} : qp'[d] = qp[d]
    BY <1>1, <2>1
  <2>3. qp'[c].live = qp[c].live
    BY <2>1, <2>2 DEF QueuePairs
  <2>4. up \in [Clients -> Nat]
    BY DEF Typed, ClientTypes
  <2> QED BY <1>1, <2>1, <2>2, <2>3, <2>4, ReceivesTyped
<1>3. context[c] # None
  BY <1>1 DEF Sound, Linked
<1>4. PICK q \in Queues : q = qp[c].cq
  BY <1>2
<1>5. PICK wc \in Completions : wc = Completion("recv", c)
  BY CompletionTyped DEF Kinds
<1>6. wc.kind = "recv" /\ wc.client = c
  BY <1>5 DEF Completion
<1>7. /\ \A d \in Clients : Arrived(d)' <=> Arrived(d) \/ d = c
      /\ \A d \in Clients : OneArrived(d) /\ (d # c \/ ~Arrived(d)) => OneArrived(d)'
  <2>1. \A d : Lies(wc, d) <=> d = c
    BY <1>6 DEF Lies
  <2> QED BY <1>1, <1>4, <1>5, <2>1, CompletionAdded
<1>8. /\ Polled(c)' <=> Polled(c)
      /\ OnePolled(c) => OnePolled(c)'
      /\ \A d \in Clients \ {c} : ccq'[d] = ccq[d]
  <2>1. "send" \in Kinds
    BY DEF Kinds
  <2> QED BY <1>1, <2>1, OwnAdded
<1>9. In(c, "sent")
  BY <1>1, <1>2, InIs DEF Sent
<1>10. OnlyIn(c, "sent") /\ Waits(c) /\ c \notin lost /\ OneSent(c)
  BY <1>9, Alone DEF Sound, Stages, Once
<1>11. up'[c] = 0
  BY <1>1, <1>2, <1>10 DEF OneSent
<1>12. CompletionsOK'
  BY <1>1, <1>3, <1>4, CompletionsGrow DEF Sound, Kinds
<1>13. Linked' /\ PollersOK' /\ EventsOK'
  BY <1>1, <1>2, LinkedFrame, PollersFrame, EventsFrame DEF Sound, Linked
<1>14. Staged(c)'
  <2>1. ~Sent(c)' /\ Arrived(c)'
    BY <1>7, <1>11 DEF Sent
  <2>2. /\ ~Agreed(c)' /\ ~Answered(c)' /\ ~Polled(c)'
        /\ ~Made(c)' /\ ~Queued(c)' /\ ~Run(c)'
    BY <1>1, <1>8, <1>10, Frame, InIs DEF Stages, OnlyIn
  <2>3. OnlyIn(c, "arrived")'
    BY <2>1, <2>2 DEF OnlyIn, In, Stages
  <2>4. Waits(c)' /\ c \notin lost' /\ "arrived" \in Stages
    BY <1>1, <1>10 DEF Waits, Stages
  <2> QED BY <2>3, <2>4, StagedIn
<1>15. ASSUME NEW d \in Clients \ {c} PROVE Staged(d)'
  <2>1. SameStages(d) /\ (Waits(d)' <=> Waits(d))
    BY <1>1, <1>2, <1>7, <1>8, Frame DEF SameStages, Waits
  <2> QED BY <1>1, <2>1, StagedFrame DEF Sound
<1>16. ASSUME NEW d \in Clients PROVE Served(d)' /\ Once(d)'
  <2>1. Served(d)'
    <3>1. CASE d = c
      BY <1>7, <3>1 DEF Served
    <3>2. CASE d # c
      BY <1>1, <1>2, <1>7, <3>2, ServedFrame DEF Sound
    <3> QED BY <3>1, <3>2
  <2>2. OneSent(d)'
    <3>1. CASE d = c
      BY <1>11, <3>1 DEF OneSent
    <3>2. CASE d # c
      BY <1>2, <3>2, Frame DEF Sound, Once
    <3> QED BY <3>1, <3>2
  <2>3. OnePolled(d)'
    BY <1>8, Frame DEF Sound, Once
  <2>4. OneArrived(d)'
    BY <1>7, <1>10, InIs DEF Sound, Once, OnlyIn, Stages
  <2> QED BY <1>1, <2>1, <2>2, <2>3, <2>4, Frame DEF Sound, Once
<1> QED BY <1>12, <1>13, <1>14, <1>15, <1>16 DEF Sound

LEMMA DeliverAnswerStep ==
  ASSUME Typed, Sound, NEW c \in Clients, DeliverAnswer(c)
  PROVE  Sound'
<1>1. /\ down[c] > 0 /\ down' = [down EXCEPT ![c] = @ - 1]
      /\ ccq' = [ccq EXCEPT ![c] = Append(@, "recv")]
      /\ cq' = [cq EXCEPT ![qp[c].cq] = Append(@, Completion("send", c))]
      /\ cpc' = cpc /\ up' = up /\ events' = events /\ object' = object /\ context' = context
      /\ qp' = qp /\ ppc' = ppc /\ wr_id' = wr_id /\ ctasks' = ctasks /\ wtask' = wtask /\ lost' = lost
  BY DEF DeliverAnswer, connVars, taskVars, endVars
<1>2. /\ down[c] \in Nat /\ down'[c] = down[c] - 1 /\ \A d \in Clients \ {c} : down'[d] = down[d]
      /\ qp[c].cq \in Queues
  <2>1. qp[c] \in QueuePairs
    BY DEF Typed, ServerTypes
  <2>2. down \in [Clients -> Nat]
    BY DEF Typed, ClientTypes
  <2> QED BY <1>1, <2>1, <2>2, ReceivesTyped
<1>3. In(c, "answered")
  BY <1>1, <1>2, InIs DEF Answered
<1>4. OnlyIn(c, "answered") /\ Waits(c) /\ c \notin lost /\ OneAnswered(c)
  BY <1>3, Alone DEF Sound, Stages, Once
<1>5. context[c] # None
  BY <1>4 DEF Sound, Linked, Waits
<1>6. down'[c] = 0
  BY <1>1, <1>2, <1>4 DEF OneAnswered
<1>7. PICK q \in Queues : q = qp[c].cq
  BY <1>2
<1>8. PICK wc \in Completions : wc = Completion("send", c)
  BY CompletionTyped DEF Kinds
<1>9. /\ \A d \in Clients : Arrived(d)' <=> Arrived(d)
      /\ \A d \in Clients : OneArrived(d) => OneArrived(d)'
  <2>1. \A d : ~Lies(wc, d)
    BY <1>8 DEF Lies, Completion
  <2> QED BY <1>1, <1>7, <1>8, <2>1, CompletionAdded
<1>10. /\ Polled(c)'
       /\ OnePolled(c) /\ ~Polled(c) => OnePolled(c)'
       /\ \A d \in Clients \ {c} : ccq'[d] = ccq[d]
  <2>1. "recv" \in Kinds
    BY DEF Kinds
  <2> QED BY <1>1, <2>1, OwnAdded
<1>11. CompletionsOK'
  BY <1>1, <1>5, <1>7, CompletionsGrow DEF Sound, Kinds
<1>12. Linked' /\ PollersOK' /\ EventsOK'
  BY <1>1, LinkedFrame, PollersFrame, EventsFrame DEF Sound, Linked
<1>13. Staged(c)'
  <2>1. ~Answered(c)'
    BY <1>6 DEF Answered
  <2>2. /\ ~Agreed(c)' /\ ~Sent(c)' /\ ~Arrived(c)'
        /\ ~Made(c)' /\ ~Queued(c)' /\ ~Run(c)'
    BY <1>1, <1>4, <1>9, Frame, InIs DEF Stages, OnlyIn
  <2>3. OnlyIn(c, "polled")'
    BY <1>10, <2>1, <2>2 DEF OnlyIn, In, Stages
  <2>4. Waits(c)' /\ c \notin lost' /\ "polled" \in Stages
    BY <1>1, <1>4 DEF Waits, Stages
  <2> QED BY <2>3, <2>4, StagedIn
<1>14. ASSUME NEW d \in Clients \ {c} PROVE Staged(d)'
  <2>1. SameStages(d) /\ (Waits(d)' <=> Waits(d))
    BY <1>1, <1>2, <1>9, <1>10, Frame DEF SameStages, Waits
  <2> QED BY <1>1, <2>1, StagedFrame DEF Sound
<1>15. ASSUME NEW d \in Clients PROVE Served(d)' /\ Once(d)'
  <2>1. Served(d)'
    BY <1>1, <1>9, ServedFrame DEF Sound
  <2>2. OneAnswered(d)'
    <3>1. CASE d = c
      BY <1>6, <3>1 DEF OneAnswered
    <3>2. CASE d # c
      BY <1>2, <3>2, Frame DEF Sound, Once
    <3> QED BY <3>1, <3>2
  <2>3. OnePolled(d)'
    <3>1. ~Polled(c)
      BY <1>4, InIs DEF OnlyIn, Stages
    <3> QED BY <1>10, <3>1, Frame DEF Sound, Once
  <2> QED BY <1>1, <1>9, <2>1, <2>2, <2>3, Frame DEF Sound, Once
<1> QED BY <1>11, <1>12, <1>13, <1>14, <1>15 DEF Sound

-----------------------------------------------------------------------------
(* process_conn_req                                                         *)

LEMMA OnConnectRequestStep ==
  ASSUME Typed, Sound, NEW c \in Clients, OnConnectRequest(c)
  PROVE  Sound'
<1>1. PICK a \in Addrs :
        object[a] = None /\ object' = [object EXCEPT ![a] = c] /\ context' = [context EXCEPT ![c] = a]
  BY DEF OnConnectRequest
<1>2. /\ Handle("CONNECT_REQUEST", c) /\ qp' = [qp EXCEPT ![c] = NewQp]
      /\ cpc' = cpc /\ ccq' = ccq /\ up' = up /\ down' = down /\ cq' = cq /\ ppc' = ppc
      /\ wr_id' = wr_id /\ ctasks' = ctasks /\ wtask' = wtask /\ lost' = lost
  BY DEF OnConnectRequest, clientVars, pollVars, taskVars, endVars
<1>3. "CONNECT_REQUEST" \in Events /\ a # None /\ c # None
  BY Nones DEF Events
<1>4. /\ \A d \in Clients : Agreed(d)' <=> Agreed(d)
      /\ cpc[c] = "connect" /\ context[c] = None
  <2>1. /\ \A d \in Clients \ {c} : Agreed(d)' <=> Agreed(d)
        /\ ~Agreed(c)' /\ ~Agreed(c) /\ Fits(Event("CONNECT_REQUEST", c))
    BY <1>2, <1>3, EventTaken DEF Sound
  <2> QED BY <2>1 DEF Fits, Event
<1>5. /\ context'[c] = a /\ \A d \in Clients \ {c} : context'[d] = context[d]
      /\ object'[a] = c /\ \A b \in Addrs \ {a} : object'[b] = object[b]
      /\ qp'[c] = NewQp /\ \A d \in Clients \ {c} : qp'[d] = qp[d]
  BY <1>1, <1>2 DEF Typed, ServerTypes
<1>6. /\ context \in [Clients -> Addrs \cup {None}] /\ object \in [Addrs -> Clients \cup {None}]
      /\ wr_id \in [Queues -> Addrs \cup {None}] /\ ppc \in [Queues -> {"poll", "make", "post"}]
      /\ \A r \in Queues : ppc[r] = "poll" <=> wr_id[r] = None
  BY DEF Typed, ServerTypes
<1>7. \A d \in Clients : context[d] # a
  BY <1>1, <1>3, Nones DEF Sound, Linked
<1>8. Linked'
  <2>1. NewQp.live = TRUE
    BY DEF NewQp
  <2>2. ASSUME NEW d \in Clients
        PROVE  /\ qp'[d].live <=> context'[d] # None
               /\ context'[d] # None => object'[context'[d]] = d
               /\ cpc'[d] \in {"keys", "ready", "exchange"} => context'[d] # None
               /\ cpc'[d] = "start" => context'[d] = None
    <3>1. CASE d = c
      BY <1>2, <1>3, <1>4, <1>5, <2>1, <3>1
    <3>2. CASE d # c
      <4>1. context[d] # None => context[d] \in Addrs \ {a}
        BY <1>6, <1>7
      <4> QED BY <1>2, <1>5, <3>2, <4>1 DEF Sound, Linked
    <3> QED BY <3>1, <3>2
  <2>3. ASSUME NEW b \in Addrs, object'[b] # None PROVE context'[object'[b]] = b
    <3>1. CASE b = a
      BY <1>5, <3>1
    <3>2. CASE b # a
      <4>1. object[b] \in Clients /\ context[object[b]] = b
        BY <1>5, <1>6, <2>3, <3>2 DEF Sound, Linked
      <4>2. object[b] # c
        BY <1>4, <4>1, Nones
      <4> QED BY <1>5, <3>2, <4>1, <4>2
    <3> QED BY <3>1, <3>2
  <2> QED BY <2>2, <2>3 DEF Linked
<1>9. EventsOK'
  BY <1>2, <1>3, <1>5, EventsShrink DEF Sound
<1>10. CompletionsOK'
  <2>1. ASSUME NEW r \in Queues, NEW i \in DOMAIN cq[r]
        PROVE  cq[r][i].wr_id = context'[cq[r][i].client] /\ cq[r][i].wr_id # None
    <3>1. cq[r][i] \in Completions
      <4>1. cq[r] \in Seq(Completions)
        BY DEF Typed, ServerTypes
      <4> QED BY <4>1, ElementsOf
    <3>2. cq[r][i].client \in Clients
      BY <3>1 DEF Completions
    <3>3. cq[r][i].wr_id = context[cq[r][i].client] /\ cq[r][i].wr_id # None
      BY DEF Sound, CompletionsOK
    <3>4. cq[r][i].client # c
      BY <1>4, <3>3
    <3> QED BY <1>5, <3>2, <3>3, <3>4
  <2> QED BY <1>2, <2>1 DEF CompletionsOK
<1>11. PollersOK'
  <2>1. ASSUME NEW r \in Queues, ppc[r] = "make" PROVE object'[wr_id[r]] # None
    <3>1. wr_id[r] \in Addrs /\ object[wr_id[r]] # None
      BY <1>6, <2>1 DEF Sound, PollersOK
    <3>2. wr_id[r] # a
      BY <1>1, <3>1
    <3> QED BY <1>5, <3>1, <3>2
  <2> QED BY <1>2, <2>1 DEF PollersOK
<1>12. ASSUME NEW d \in Clients
       PROVE  (Made(d)' <=> Made(d)) /\ (OneMade(d) => OneMade(d)')
  <2>1. CASE d = c
    <3>1. \A r \in Queues : ppc[r] = "make" => wr_id[r] # a /\ wr_id[r] # None
      BY <1>1, <1>6 DEF Sound, PollersOK
    <3> QED BY <1>2, <1>4, <1>5, <2>1, <3>1 DEF Made, OneMade
  <2>2. CASE d # c
    BY <1>2, <1>5, <2>2, Frame
  <2> QED BY <2>1, <2>2
<1>13. ASSUME NEW d \in Clients PROVE Staged(d)' /\ Once(d)' /\ Served(d)'
  <2>1. Once(d)'
    BY <1>2, <1>12, Frame DEF Sound, Once
  <2>2. SameStages(d) /\ (Waits(d)' <=> Waits(d))
    BY <1>2, <1>4, <1>12, Frame DEF SameStages, Waits
  <2>3. Staged(d)'
    BY <1>2, <2>2, StagedFrame DEF Sound
  <2>4. Served(d)'
    <3>1. CASE d = c
      <4>1. qp'[c].recvs = 1
        BY <1>5 DEF NewQp
      <4> QED BY <3>1, <4>1 DEF Served
    <3>2. CASE d # c
      BY <1>2, <1>5, <3>2, Frame, ServedFrame DEF Sound
    <3> QED BY <3>1, <3>2
  <2> QED BY <2>1, <2>3, <2>4
<1> QED BY <1>8, <1>9, <1>10, <1>11, <1>13 DEF Sound

LEMMA OnEstablishedServerStep ==
  ASSUME Typed, Sound, NEW c \in Clients, OnEstablishedServer(c)
  PROVE  Sound'
<1>1. /\ Handle("ESTABLISHED", c) /\ down' = [down EXCEPT ![c] = @ + 1]
      /\ cpc' = cpc /\ ccq' = ccq /\ up' = up /\ object' = object /\ context' = context
      /\ qp' = qp /\ cq' = cq /\ ppc' = ppc /\ wr_id' = wr_id /\ ctasks' = ctasks
      /\ wtask' = wtask /\ lost' = lost
  BY DEF OnEstablishedServer, clientVars, pollVars, taskVars, endVars
<1>2. "ESTABLISHED" \in Events
  BY DEF Events
<1>3. /\ \A d \in Clients \ {c} : Agreed(d)' <=> Agreed(d)
      /\ ~Agreed(c)' /\ Agreed(c)
  BY <1>1, <1>2, EventTaken DEF Sound
<1>4. OnlyIn(c, "agreed") /\ Waits(c) /\ c \notin lost
  BY <1>3, Alone, InIs DEF Sound, Stages
<1>5. down[c] \in Nat /\ down'[c] = down[c] + 1 /\ \A d \in Clients \ {c} : down'[d] = down[d]
  BY <1>1 DEF Typed, ClientTypes
<1>6. down[c] = 0
  BY <1>4, InIs DEF OnlyIn, Stages, Answered
<1>7. Linked' /\ CompletionsOK' /\ PollersOK' /\ EventsOK'
  BY <1>1, <1>2, LinkedFrame, CompletionsFrame, PollersFrame, EventsShrink DEF Sound, Linked
<1>8. ASSUME NEW d \in Clients PROVE Served(d)' /\ Once(d)'
  <2>1. Served(d)'
    BY <1>1, Frame, ServedFrame DEF Sound
  <2>2. OneAnswered(d)'
    <3>1. CASE d = c
      BY <1>5, <1>6, <3>1 DEF OneAnswered
    <3>2. CASE d # c
      BY <1>5, <3>2, Frame DEF Sound, Once
    <3> QED BY <3>1, <3>2
  <2> QED BY <1>1, <2>1, <2>2, Frame DEF Sound, Once
<1>9. Staged(c)'
  <2>1. Answered(c)'
    BY <1>5, <1>6 DEF Answered
  <2>2. /\ ~Sent(c)' /\ ~Polled(c)' /\ ~Arrived(c)' /\ ~Made(c)' /\ ~Queued(c)' /\ ~Run(c)'
    BY <1>1, <1>4, Frame, InIs DEF Stages, OnlyIn
  <2>3. OnlyIn(c, "answered")'
    BY <1>3, <2>1, <2>2 DEF OnlyIn, In, Stages
  <2>4. Waits(c)' /\ c \notin lost' /\ "answered" \in Stages
    BY <1>1, <1>4 DEF Waits, Stages
  <2> QED BY <2>3, <2>4, StagedIn
<1>10. ASSUME NEW d \in Clients \ {c} PROVE Staged(d)'
  <2>1. SameStages(d) /\ (Waits(d)' <=> Waits(d))
    BY <1>1, <1>3, <1>5, Frame DEF SameStages, Waits
  <2> QED BY <1>1, <2>1, StagedFrame DEF Sound
<1> QED BY <1>7, <1>8, <1>9, <1>10 DEF Sound

LEMMA CompletionsDropped ==
  ASSUME Typed, NEW c \in Clients, cq' = [q \in Queues |-> Without(cq[q], c)]
  PROVE  /\ \A r \in Queues : \A i \in DOMAIN cq'[r] :
              \E j \in DOMAIN cq[r] : cq'[r][i] = cq[r][j] /\ cq[r][j].client # c
         /\ \A d \in Clients \ {c} :
              (Arrived(d)' <=> Arrived(d)) /\ (OneArrived(d) => OneArrived(d)')
         /\ ~Arrived(c)' /\ OneArrived(c)'
<1>1. \A r \in Queues : cq[r] \in Seq(Completions) /\ cq'[r] = Without(cq[r], c)
  BY DEF Typed, ServerTypes
<1>2. \A r \in Queues :
        /\ \A k \in DOMAIN cq'[r] :
             /\ NthOf(Rest(cq[r], c), k) \in DOMAIN cq[r]
             /\ cq'[r][k] = cq[r][NthOf(Rest(cq[r], c), k)]
             /\ cq[r][NthOf(Rest(cq[r], c), k)].client # c
        /\ \A i \in DOMAIN cq[r] : cq[r][i].client # c =>
             \E k \in DOMAIN cq'[r] : cq'[r][k] = cq[r][i]
        /\ \A k, l \in DOMAIN cq'[r] :
             NthOf(Rest(cq[r], c), k) = NthOf(Rest(cq[r], c), l) => k = l
  BY <1>1, WithoutIs
<1>3. \A r \in Queues : \A i \in DOMAIN cq'[r] :
        \E j \in DOMAIN cq[r] : cq'[r][i] = cq[r][j] /\ cq[r][j].client # c
  BY <1>2
<1>4. ~Arrived(c)' /\ OneArrived(c)'
  BY <1>3 DEF Arrived, OneArrived, Lies
<1>5. ASSUME NEW d \in Clients \ {c} PROVE Arrived(d)' <=> Arrived(d)
  <2>1. Arrived(d)' => Arrived(d)
    BY <1>3 DEF Arrived
  <2>2. Arrived(d) => Arrived(d)'
    <3> SUFFICES ASSUME NEW r \in Queues, NEW i \in DOMAIN cq[r], Lies(cq[r][i], d)
                 PROVE  Arrived(d)'
      BY DEF Arrived
    <3>1. PICK k \in DOMAIN cq'[r] : cq'[r][k] = cq[r][i]
      BY <1>2 DEF Lies
    <3> QED BY <3>1 DEF Arrived
  <2> QED BY <2>1, <2>2
<1>6. ASSUME NEW d \in Clients \ {c}, OneArrived(d) PROVE OneArrived(d)'
  <2> SUFFICES ASSUME NEW q \in Queues, NEW r \in Queues, NEW i \in DOMAIN cq'[q],
                      NEW j \in DOMAIN cq'[r], Lies(cq'[q][i], d), Lies(cq'[r][j], d)
               PROVE  q = r /\ i = j
    BY DEF OneArrived
  <2>1. q = r /\ NthOf(Rest(cq[q], c), i) = NthOf(Rest(cq[r], c), j)
    BY <1>2, <1>6 DEF OneArrived
  <2> QED BY <1>2, <2>1
<1> QED BY <1>3, <1>4, <1>5, <1>6

LEMMA OnDisconnectedStep ==
  ASSUME Typed, Sound, NEW c \in Clients, OnDisconnected(c)
  PROVE  Sound'
<1>1. /\ Handle("DISCONNECTED", c) /\ qp' = [qp EXCEPT ![c] = NoQp]
      /\ cq' = [q \in Queues |-> Without(cq[q], c)]
      /\ object' = [object EXCEPT ![context[c]] = None]
      /\ context' = [context EXCEPT ![c] = None]
      /\ cpc' = cpc /\ ccq' = ccq /\ up' = up /\ down' = down /\ ppc' = ppc
      /\ wr_id' = wr_id /\ ctasks' = ctasks /\ wtask' = wtask /\ lost' = lost
  BY DEF OnDisconnected, clientVars, taskVars, endVars
<1>2. "DISCONNECTED" \in Events
  BY DEF Events
<1>3. /\ \A d \in Clients : Agreed(d)' <=> Agreed(d)
      /\ cpc[c] = "closed" /\ context[c] # None
  <2>1. /\ \A d \in Clients \ {c} : Agreed(d)' <=> Agreed(d)
        /\ ~Agreed(c)' /\ ~Agreed(c) /\ Fits(Event("DISCONNECTED", c))
    BY <1>1, <1>2, EventTaken DEF Sound
  <2> QED BY <2>1 DEF Fits, Event
<1>4. /\ context \in [Clients -> Addrs \cup {None}] /\ object \in [Addrs -> Clients \cup {None}]
      /\ wr_id \in [Queues -> Addrs \cup {None}]
      /\ \A r \in Queues : ppc[r] = "poll" <=> wr_id[r] = None
  BY DEF Typed, ServerTypes
<1>5. PICK a \in Addrs : a = context[c]
  BY <1>3, <1>4
<1>6. /\ context'[c] = None /\ \A d \in Clients \ {c} : context'[d] = context[d]
      /\ object'[a] = None /\ \A b \in Addrs \ {a} : object'[b] = object[b]
      /\ qp'[c] = NoQp /\ \A d \in Clients \ {c} : qp'[d] = qp[d]
  BY <1>1, <1>4, <1>5 DEF Typed, ServerTypes
<1>7. object[a] = c /\ \A d \in Clients \ {c} : context[d] # a
  BY <1>3, <1>5, Nones DEF Sound, Linked
<1>8. \A s \in Stages : ~In(c, s)
  BY <1>3, Nowhere DEF Sound, Waits
<1>9. Linked'
  <2>1. NoQp.live = FALSE
    BY DEF NoQp
  <2>2. ASSUME NEW d \in Clients
        PROVE  /\ qp'[d].live <=> context'[d] # None
               /\ context'[d] # None => object'[context'[d]] = d
               /\ cpc'[d] \in {"keys", "ready", "exchange"} => context'[d] # None
               /\ cpc'[d] = "start" => context'[d] = None
    <3>1. CASE d = c
      BY <1>1, <1>3, <1>6, <2>1, <3>1
    <3>2. CASE d # c
      <4>1. context[d] # None => context[d] \in Addrs \ {a}
        BY <1>4, <1>7, <3>2
      <4> QED BY <1>1, <1>6, <3>2, <4>1 DEF Sound, Linked
    <3> QED BY <3>1, <3>2
  <2>3. ASSUME NEW b \in Addrs, object'[b] # None PROVE context'[object'[b]] = b
    <3>1. b # a
      BY <1>6, <2>3
    <3>2. object[b] \in Clients /\ context[object[b]] = b
      BY <1>4, <1>6, <2>3, <3>1 DEF Sound, Linked
    <3>3. object[b] # c
      BY <1>5, <3>1, <3>2
    <3> QED BY <1>6, <3>1, <3>2, <3>3
  <2> QED BY <2>2, <2>3 DEF Linked
<1>10. EventsOK'
  BY <1>1, <1>2, <1>6, EventsShrink DEF Sound
<1>11. /\ \A r \in Queues : \A i \in DOMAIN cq'[r] :
            \E j \in DOMAIN cq[r] : cq'[r][i] = cq[r][j] /\ cq[r][j].client # c
       /\ \A d \in Clients : OneArrived(d)' /\ (Arrived(d)' <=> Arrived(d))
  <2>1. /\ \A r \in Queues : \A i \in DOMAIN cq'[r] :
             \E j \in DOMAIN cq[r] : cq'[r][i] = cq[r][j] /\ cq[r][j].client # c
        /\ \A d \in Clients \ {c} :
             (Arrived(d)' <=> Arrived(d)) /\ (OneArrived(d) => OneArrived(d)')
        /\ ~Arrived(c)' /\ OneArrived(c)'
    BY <1>1, CompletionsDropped
  <2>2. ~Arrived(c)
    BY <1>8, InIs DEF Stages
  <2> QED BY <2>1, <2>2 DEF Sound, Once
<1>12. CompletionsOK'
  <2> SUFFICES ASSUME NEW r \in Queues, NEW i \in DOMAIN cq'[r]
               PROVE  cq'[r][i].wr_id = context'[cq'[r][i].client] /\ cq'[r][i].wr_id # None
    BY DEF CompletionsOK
  <2>1. PICK j \in DOMAIN cq[r] : cq'[r][i] = cq[r][j] /\ cq[r][j].client # c
    BY <1>11
  <2>2. cq[r][j].client \in Clients
    <3>1. cq[r] \in Seq(Completions)
      BY DEF Typed, ServerTypes
    <3>2. cq[r][j] \in Completions
      BY <3>1, ElementsOf
    <3> QED BY <3>2 DEF Completions
  <2>3. cq[r][j].wr_id = context[cq[r][j].client] /\ cq[r][j].wr_id # None
    BY DEF Sound, CompletionsOK
  <2> QED BY <1>6, <2>1, <2>2, <2>3
<1>13. \A r \in Queues : ppc[r] = "make" => wr_id[r] \in Addrs /\ wr_id[r] # a
  <2>1. ~Made(c)
    BY <1>8, InIs DEF Stages
  <2> QED BY <1>4, <1>5, <2>1 DEF Made
<1>14. PollersOK'
  BY <1>1, <1>6, <1>13 DEF Sound, PollersOK
<1>15. ASSUME NEW d \in Clients
       PROVE  (Made(d)' <=> Made(d)) /\ (OneMade(d) => OneMade(d)')
  <2>1. CASE d = c
    <3>1. \A r \in Queues : ppc'[r] = "make" => wr_id'[r] # context'[c]
      BY <1>1, <1>4, <1>6
    <3>2. ~Made(c)
      BY <1>8, InIs DEF Stages
    <3> QED BY <2>1, <3>1, <3>2 DEF Made, OneMade
  <2>2. CASE d # c
    BY <1>1, <1>6, <2>2, Frame
  <2> QED BY <2>1, <2>2
<1>16. ASSUME NEW d \in Clients PROVE Staged(d)' /\ Once(d)' /\ Served(d)'
  <2>1. Once(d)'
    BY <1>1, <1>11, <1>15, Frame DEF Sound, Once
  <2>2. SameStages(d) /\ (Waits(d)' <=> Waits(d))
    BY <1>1, <1>3, <1>11, <1>15, Frame DEF SameStages, Waits
  <2>3. Staged(d)'
    BY <1>1, <2>2, StagedFrame DEF Sound
  <2>4. Served(d)'
    <3>1. CASE d = c
      BY <1>6, <3>1 DEF Served
    <3>2. CASE d # c
      BY <1>1, <1>6, <1>11, <3>2, ServedFrame DEF Sound
    <3> QED BY <3>1, <3>2
  <2> QED BY <2>1, <2>3, <2>4
<1> QED BY <1>9, <1>10, <1>12, <1>14, <1>16 DEF Sound

-----------------------------------------------------------------------------
(* process_data_req                                                         *)

LEMMA PollStep ==
  ASSUME Typed, Sound, NEW q \in Queues, Poll(q)
  PROVE  Sound'
<1>1. /\ ppc[q] = "poll" /\ cq[q] # <<>> /\ cq' = [cq EXCEPT ![q] = Tail(@)]
      /\ cpc' = cpc /\ ccq' = ccq /\ up' = up /\ down' = down /\ events' = events
      /\ object' = object /\ context' = context /\ qp' = qp /\ ctasks' = ctasks /\ wtask' = wtask
      /\ lost' = lost
  BY DEF Poll, clientVars, connVars, taskVars, endVars
<1>2. PICK wc \in Completions : wc = Head(cq[q])
  BY <1>1, CompletionTaken
<1>3. IF wc.kind = "recv"
      THEN ppc' = [ppc EXCEPT ![q] = "make"] /\ wr_id' = [wr_id EXCEPT ![q] = wc.wr_id]
      ELSE ppc' = ppc /\ wr_id' = wr_id
  BY <1>2 DEF Poll
<1>4. /\ 1 \in DOMAIN cq[q] /\ cq[q][1] = wc
      /\ \A d \in Clients : Arrived(d) <=> Arrived(d)' \/ Lies(wc, d)
      /\ \A d \in Clients : OneArrived(d) => OneArrived(d)' /\ (Lies(wc, d) => ~Arrived(d)')
      /\ \A r \in Queues : \A i \in DOMAIN cq'[r] : \E j \in DOMAIN cq[r] : cq'[r][i] = cq[r][j]
  BY <1>1, <1>2, CompletionTaken
<1>5. CompletionsOK'
  BY <1>1, <1>4 DEF Sound, CompletionsOK
<1>6. Linked' /\ EventsOK'
  BY <1>1, LinkedFrame, EventsFrame DEF Sound, Linked
<1>7. PICK c \in Clients : c = wc.client
  BY DEF Completions
<1>8. wc.wr_id = context[c] /\ context[c] # None /\ object[context[c]] = c
  <2>1. wc.wr_id = context[c] /\ wc.wr_id # None
    BY <1>4, <1>7 DEF Sound, CompletionsOK
  <2> QED BY <2>1 DEF Sound, Linked
<1>9. CASE wc.kind # "recv"
  <2>1. \A d : ~Lies(wc, d)
    BY <1>9 DEF Lies
  <2>2. PollersOK'
    BY <1>1, <1>3, <1>9, PollersFrame DEF Sound
  <2>3. ASSUME NEW d \in Clients PROVE Staged(d)' /\ Once(d)' /\ Served(d)'
    <3>1. Once(d)'
      BY <1>1, <1>3, <1>4, <1>9, Frame DEF Sound, Once
    <3>2. SameStages(d) /\ (Waits(d)' <=> Waits(d))
      BY <1>1, <1>3, <1>4, <1>9, <2>1, Frame DEF SameStages, Waits
    <3>3. Staged(d)' /\ Served(d)'
      BY <1>1, <1>3, <1>4, <1>9, <2>1, <3>2, StagedFrame, ServedFrame DEF Sound
    <3> QED BY <3>1, <3>3
  <2> QED BY <1>5, <1>6, <2>2, <2>3 DEF Sound
<1>10. CASE wc.kind = "recv"
  <2>1. /\ ppc'[q] = "make" /\ wr_id'[q] = context[c]
        /\ \A r \in Queues \ {q} : ppc'[r] = ppc[r] /\ wr_id'[r] = wr_id[r]
        /\ wr_id[q] = None
    BY <1>1, <1>3, <1>8, <1>10 DEF Typed, ServerTypes
  <2>2. \A d : Lies(wc, d) <=> d = c
    BY <1>7, <1>10 DEF Lies
  <2>3. OnlyIn(c, "arrived") /\ Waits(c) /\ c \notin lost /\ ~Arrived(c)'
    <3>1. Arrived(c) /\ ~Arrived(c)'
      BY <1>4, <2>2 DEF Sound, Once
    <3> QED BY <3>1, Alone, InIs DEF Sound, Stages
  <2>4. PollersOK'
    BY <1>1, <1>8, <2>1, Nones DEF Sound, PollersOK
  <2>5. ASSUME NEW d \in Clients \ {c}
        PROVE  (Made(d)' <=> Made(d)) /\ (OneMade(d) => OneMade(d)')
    <3>1. context[d] # context[c]
      BY <1>8 DEF Sound, Linked
    <3> QED BY <1>1, <2>1, <3>1 DEF Made, OneMade
  <2>6. Made(c)' /\ OneMade(c)'
    <3>1. ~Made(c)
      BY <2>3, InIs DEF OnlyIn, Stages
    <3> QED BY <1>1, <2>1, <3>1 DEF Made, OneMade
  <2>7. Staged(c)'
    <3>1. /\ ~Sent(c)' /\ ~Answered(c)' /\ ~Polled(c)' /\ ~Agreed(c)' /\ ~Queued(c)' /\ ~Run(c)'
      BY <1>1, <2>3, Frame, InIs DEF Stages, OnlyIn
    <3>2. OnlyIn(c, "made")'
      BY <2>3, <2>6, <3>1 DEF OnlyIn, In, Stages
    <3>3. Waits(c)' /\ c \notin lost' /\ "made" \in Stages
      BY <1>1, <2>3 DEF Waits, Stages
    <3> QED BY <3>2, <3>3, StagedIn
  <2>8. ASSUME NEW d \in Clients \ {c} PROVE Staged(d)'
    <3>1. SameStages(d) /\ (Waits(d)' <=> Waits(d))
      BY <1>1, <1>4, <2>2, <2>5, Frame DEF SameStages, Waits
    <3> QED BY <1>1, <3>1, StagedFrame DEF Sound
  <2>9. ASSUME NEW d \in Clients PROVE Once(d)' /\ Served(d)'
    <3>1. Once(d)'
      BY <1>1, <1>4, <2>5, <2>6, Frame DEF Sound, Once
    <3>2. Served(d)'
      <4>1. CASE d = c
        BY <1>1, <2>1, <4>1 DEF Served
      <4>2. CASE d # c
        <5>1. \A r \in Queues : wr_id[r] # None => wr_id'[r] = wr_id[r]
          BY <2>1
        <5>2. Arrived(d) => Arrived(d)'
          BY <1>4, <2>2, <4>2
        <5> QED BY <1>1, <5>1, <5>2 DEF Sound, Served
      <4> QED BY <4>1, <4>2
    <3> QED BY <3>1, <3>2
  <2> QED BY <1>5, <1>6, <2>4, <2>7, <2>8, <2>9 DEF Sound
<1> QED BY <1>9, <1>10

LEMMA MadeDone ==
  ASSUME Typed, Sound, NEW q \in Queues, ppc[q] = "make",
         ppc' = [ppc EXCEPT ![q] = "post"], wr_id' = wr_id, context' = context, object' = object
  PROVE  \E c \in Clients :
           /\ c = object[wr_id[q]] /\ Made(c) /\ ~Made(c)'
           /\ \A d \in Clients \ {c} : Made(d)' <=> Made(d)
           /\ \A d \in Clients : OneMade(d)'
           /\ PollersOK'
<1>1. /\ wr_id[q] \in Addrs /\ object[wr_id[q]] \in Clients \cup {None}
      /\ ppc'[q] = "post" /\ \A r \in Queues \ {q} : ppc'[r] = ppc[r]
  BY DEF Typed, ServerTypes
<1>2. PICK c \in Clients : c = object[wr_id[q]]
  BY <1>1 DEF Sound, PollersOK
<1>3. context[c] = wr_id[q]
  BY <1>1, <1>2, Nones DEF Sound, Linked
<1>4. Made(c)
  BY <1>3 DEF Made
<1>5. ~Made(c)'
  BY <1>1, <1>3 DEF Sound, Once, OneMade, Made
<1>6. \A d \in Clients \ {c} : Made(d)' <=> Made(d)
  <2>1. \A d \in Clients \ {c} : context[d] # wr_id[q]
    BY <1>1, <1>2, Nones DEF Sound, Linked
  <2> QED BY <1>1, <2>1 DEF Made
<1>7. \A d \in Clients : OneMade(d)'
  BY <1>1 DEF Sound, Once, OneMade
<1>8. PollersOK'
  BY <1>1 DEF Sound, PollersOK
<1> QED BY <1>2, <1>4, <1>5, <1>6, <1>7, <1>8

LEMMA MakeProductStep ==
  ASSUME Typed, Sound, NEW q \in Queues, NEW w \in Workers, MakeProduct(q, w)
  PROVE  Sound'
<1>1. /\ ppc[q] = "make" /\ ppc' = [ppc EXCEPT ![q] = "post"]
      /\ ctasks' = [ctasks EXCEPT ![w] = AddTask(@, object[wr_id[q]])]
      /\ cpc' = cpc /\ ccq' = ccq /\ up' = up /\ down' = down /\ events' = events
      /\ object' = object /\ context' = context /\ qp' = qp /\ cq' = cq /\ wr_id' = wr_id
      /\ wtask' = wtask /\ lost' = lost
  BY DEF MakeProduct, clientVars, connVars, endVars
<1>2. PICK c \in Clients :
        /\ c = object[wr_id[q]] /\ Made(c) /\ ~Made(c)'
        /\ \A d \in Clients \ {c} : Made(d)' <=> Made(d)
        /\ \A d \in Clients : OneMade(d)'
        /\ PollersOK'
  BY <1>1, MadeDone
<1>3. /\ \A d \in Clients : Queued(d)' <=> Queued(d) \/ d = c
      /\ \A d \in Clients : OneQueued(d) /\ (d # c \/ ~Queued(d)) => OneQueued(d)'
  BY <1>1, <1>2, TaskAdded
<1>4. OnlyIn(c, "made") /\ Waits(c) /\ c \notin lost
  BY <1>2, Alone, InIs DEF Sound, Stages
<1>5. Linked' /\ EventsOK' /\ CompletionsOK'
  BY <1>1, LinkedFrame, EventsFrame, CompletionsFrame DEF Sound, Linked
<1>6. Staged(c)'
  <2>1. /\ ~Sent(c)' /\ ~Answered(c)' /\ ~Polled(c)' /\ ~Agreed(c)' /\ ~Arrived(c)' /\ ~Run(c)'
    BY <1>1, <1>4, Frame, InIs DEF Stages, OnlyIn
  <2>2. OnlyIn(c, "queued")'
    BY <1>2, <1>3, <2>1 DEF OnlyIn, In, Stages
  <2>3. Waits(c)' /\ c \notin lost' /\ "queued" \in Stages
    BY <1>1, <1>4 DEF Waits, Stages
  <2> QED BY <2>2, <2>3, StagedIn
<1>7. ASSUME NEW d \in Clients \ {c} PROVE Staged(d)'
  <2>1. SameStages(d) /\ (Waits(d)' <=> Waits(d))
    BY <1>1, <1>2, <1>3, Frame DEF SameStages, Waits
  <2> QED BY <1>1, <2>1, StagedFrame DEF Sound
<1>8. ASSUME NEW d \in Clients PROVE Once(d)' /\ Served(d)'
  <2>1. Served(d)'
    BY <1>1, Frame, ServedFrame DEF Sound
  <2>2. OneQueued(d)'
    BY <1>3, <1>4, InIs DEF OnlyIn, Stages, Sound, Once
  <2> QED BY <1>1, <1>2, <2>1, <2>2, Frame DEF Sound, Once
<1> QED BY <1>2, <1>5, <1>6, <1>7, <1>8 DEF Sound

LEMMA MakeTooEarlyStep ==
  ASSUME Typed, Sound, NEW q \in Queues, NEW w \in Workers, MakeTooEarly(q, w), fault' = fault
  PROVE  Sound'
<1>1. /\ ppc[q] = "make" /\ ppc' = [ppc EXCEPT ![q] = "post"]
      /\ cpc' = cpc /\ ccq' = ccq /\ up' = up /\ down' = down /\ events' = events
      /\ object' = object /\ context' = context /\ qp' = qp /\ cq' = cq /\ wr_id' = wr_id
      /\ ctasks' = ctasks /\ wtask' = wtask
  BY DEF MakeTooEarly, clientVars, connVars, taskVars
<1>2. lost' = lost \cup {object[wr_id[q]]}
  <2>1. fault = None /\ None # "queue not made"
    BY Nones DEF MakeTooEarly, Running
  <2> QED BY <2>1 DEF MakeTooEarly
<1>3. PICK c \in Clients :
        /\ c = object[wr_id[q]] /\ Made(c) /\ ~Made(c)'
        /\ \A d \in Clients \ {c} : Made(d)' <=> Made(d)
        /\ \A d \in Clients : OneMade(d)'
        /\ PollersOK'
  BY <1>1, MadeDone
<1>4. OnlyIn(c, "made") /\ Waits(c)
  BY <1>3, Alone, InIs DEF Sound, Stages
<1>5. Linked' /\ EventsOK' /\ CompletionsOK'
  BY <1>1, LinkedFrame, EventsFrame, CompletionsFrame DEF Sound, Linked
<1>6. Staged(c)'
  <2>1. /\ ~Sent(c)' /\ ~Answered(c)' /\ ~Polled(c)' /\ ~Agreed(c)' /\ ~Arrived(c)'
        /\ ~Queued(c)' /\ ~Run(c)'
    BY <1>1, <1>4, Frame, InIs DEF Stages, OnlyIn
  <2>2. \A s \in Stages : ~In(c, s)'
    BY <1>3, <2>1 DEF In, Stages
  <2>3. c \in lost' <=> Waits(c)'
    BY <1>1, <1>2, <1>3, <1>4 DEF Waits
  <2> QED BY <2>2, <2>3, StagedOut
<1>7. ASSUME NEW d \in Clients \ {c} PROVE Staged(d)'
  <2>1. SameStages(d) /\ (Waits(d)' <=> Waits(d)) /\ (d \in lost' <=> d \in lost)
    BY <1>1, <1>2, <1>3, Frame DEF SameStages, Waits
  <2> QED BY <2>1, StagedFrame DEF Sound
<1>8. ASSUME NEW d \in Clients PROVE Once(d)' /\ Served(d)'
  <2>1. Served(d)'
    BY <1>1, Frame, ServedFrame DEF Sound
  <2> QED BY <1>1, <1>3, <2>1, Frame DEF Sound, Once
<1> QED BY <1>3, <1>5, <1>6, <1>7, <1>8 DEF Sound

LEMMA PostReceiveStep ==
  ASSUME Typed, Sound, NEW q \in Queues, PostReceive(q), fault' = fault
  PROVE  Sound'
<1>1. /\ ppc[q] = "post" /\ ppc' = [ppc EXCEPT ![q] = "poll"] /\ wr_id' = [wr_id EXCEPT ![q] = None]
      /\ cpc' = cpc /\ ccq' = ccq /\ up' = up /\ down' = down /\ events' = events
      /\ object' = object /\ context' = context /\ cq' = cq
      /\ ctasks' = ctasks /\ wtask' = wtask /\ lost' = lost
  BY DEF PostReceive, clientVars, taskVars
<1>2. /\ wr_id[q] \in Addrs
      /\ ppc'[q] = "poll" /\ \A r \in Queues \ {q} : ppc'[r] = ppc[r]
      /\ wr_id'[q] = None /\ \A r \in Queues \ {q} : wr_id'[r] = wr_id[r]
  BY <1>1 DEF Typed, ServerTypes
<1>3. PICK c \in Clients : c = object[wr_id[q]] /\ qp' = [qp EXCEPT ![c].recvs = @ + 1]
  <2>1. fault = None /\ None # "receive on a deleted connection"
    BY Nones DEF PostReceive, Running
  <2>2. object[wr_id[q]] # None
    BY <2>1 DEF PostReceive
  <2>3. object[wr_id[q]] \in Clients
    BY <1>2, <2>2 DEF Typed, ServerTypes
  <2> QED BY <2>2, <2>3 DEF PostReceive
<1>4. /\ \A d \in Clients \ {c} : qp'[d] = qp[d] /\ context[d] # wr_id[q]
      /\ \A d \in Clients : qp'[d].live = qp[d].live
      /\ qp'[c].recvs >= 1
  <2>1. qp[c] \in QueuePairs /\ qp \in [Clients -> QueuePairs]
    BY DEF Typed, ServerTypes
  <2>2. qp'[c] = [qp[c] EXCEPT !.recvs = @ + 1] /\ \A d \in Clients \ {c} : qp'[d] = qp[d]
    BY <1>3, <2>1
  <2>3. qp'[c].live = qp[c].live /\ qp'[c].recvs = qp[c].recvs + 1
    BY <2>1, <2>2 DEF QueuePairs
  <2>4. qp[c].recvs \in Nat
    BY <2>1, ReceivesTyped
  <2>5. \A d \in Clients \ {c} : context[d] # wr_id[q]
    BY <1>2, <1>3, Nones DEF Sound, Linked
  <2>6. qp'[c].recvs >= 1
    BY <2>3, <2>4
  <2>7. \A d \in Clients : qp'[d].live = qp[d].live
    BY <2>2, <2>3
  <2> QED BY <2>2, <2>5, <2>6, <2>7
<1>5. Linked' /\ EventsOK' /\ CompletionsOK'
  BY <1>1, <1>4, LinkedFrame, EventsFrame, CompletionsFrame DEF Sound, Linked
<1>6. PollersOK'
  BY <1>1, <1>2 DEF Sound, PollersOK
<1>7. ASSUME NEW d \in Clients PROVE Staged(d)' /\ Once(d)' /\ Served(d)'
  <2>1. (Made(d)' <=> Made(d)) /\ (OneMade(d) => OneMade(d)')
    BY <1>1, <1>2 DEF Made, OneMade
  <2>2. SameStages(d) /\ (Waits(d)' <=> Waits(d))
    BY <1>1, <2>1, Frame DEF SameStages, Waits
  <2>3. Once(d)' /\ Staged(d)'
    BY <1>1, <2>1, <2>2, Frame, StagedFrame DEF Sound, Once
  <2>4. Served(d)'
    <3>1. CASE d = c
      BY <1>4, <3>1 DEF Served
    <3>2. CASE d # c
      <4>1. \A r \in Queues : wr_id[r] = context[d] => wr_id'[r] = context[d]
        BY <1>2, <1>4, <3>2
      <4>2. Arrived(d)' <=> Arrived(d)
        BY <1>1, Frame
      <4> QED BY <1>1, <1>4, <3>2, <4>1, <4>2 DEF Sound, Served
    <3> QED BY <3>1, <3>2
  <2> QED BY <2>3, <2>4
<1> QED BY <1>5, <1>6, <1>7 DEF Sound

-----------------------------------------------------------------------------
(* process_task                                                             *)

LEMMA IdleStep ==
  ASSUME Typed, Sound, NEW w \in Workers, StartQueue(w) \/ Sleep(w)
  PROVE  Sound'
<1>1. /\ cpc' = cpc /\ ccq' = ccq /\ up' = up /\ down' = down /\ events' = events
      /\ object' = object /\ context' = context /\ qp' = qp /\ cq' = cq /\ ppc' = ppc
      /\ wr_id' = wr_id /\ ctasks' = ctasks /\ wtask' = wtask /\ lost' = lost
  BY DEF StartQueue, Sleep, clientVars, connVars, pollVars, endVars
<1>2. Linked' /\ EventsOK' /\ CompletionsOK' /\ PollersOK'
  BY <1>1, LinkedFrame, EventsFrame, CompletionsFrame, PollersFrame DEF Sound, Linked
<1>3. ASSUME NEW d \in Clients PROVE Staged(d)' /\ Once(d)' /\ Served(d)'
  <2>1. SameStages(d) /\ (Once(d)' <=> Once(d)) /\ (Waits(d)' <=> Waits(d))
    BY <1>1, Frame DEF SameStages, Once, Waits
  <2> QED BY <1>1, <2>1, StagedFrame, ServedFrame DEF Sound, SameStages
<1> QED BY <1>2, <1>3 DEF Sound

LEMMA TakeTaskStep ==
  ASSUME Typed, Sound, NEW w \in Workers, TakeTask(w)
  PROVE  Sound'
<1>1. /\ wtask[w] = None /\ ctasks[w] # <<>>
      /\ wtask' = [wtask EXCEPT ![w] = Head(ctasks[w])]
      /\ ctasks' = [ctasks EXCEPT ![w] = GetTask(@)]
      /\ cpc' = cpc /\ ccq' = ccq /\ up' = up /\ down' = down /\ events' = events
      /\ object' = object /\ context' = context /\ qp' = qp /\ cq' = cq /\ ppc' = ppc
      /\ wr_id' = wr_id /\ lost' = lost
  BY DEF TakeTask, Idle, clientVars, connVars, pollVars, endVars
<1>2. PICK c \in Clients : c = Head(ctasks[w])
  BY <1>1, TaskTaken
<1>3. /\ \A d \in Clients : Queued(d) <=> Queued(d)' \/ d = c
      /\ \A d \in Clients : OneQueued(d) => OneQueued(d)' /\ (d = c => ~Queued(d)')
  BY <1>1, <1>2, TaskTaken
<1>4. OnlyIn(c, "queued") /\ Waits(c) /\ c \notin lost
  BY <1>3, Alone, InIs DEF Sound, Stages
<1>5. wtask'[w] = c /\ \A v \in Workers \ {w} : wtask'[v] = wtask[v]
  BY <1>1, <1>2 DEF Typed, TaskTypes
<1>6. ~Run(c)
  BY <1>4, InIs DEF OnlyIn, Stages
<1>7. /\ \A d \in Clients : Run(d)' <=> Run(d) \/ d = c
      /\ \A d \in Clients : OneRun(d)'
  <2>1. \A d \in Clients : Run(d)' <=> Run(d) \/ d = c
    BY <1>1, <1>5, Nones DEF Run
  <2>2. \A d \in Clients : OneRun(d)'
    BY <1>5, <1>6 DEF Sound, Once, OneRun, Run
  <2> QED BY <2>1, <2>2
<1>8. Linked' /\ EventsOK' /\ CompletionsOK' /\ PollersOK'
  BY <1>1, LinkedFrame, EventsFrame, CompletionsFrame, PollersFrame DEF Sound, Linked
<1>9. Staged(c)'
  <2>1. /\ ~Sent(c)' /\ ~Answered(c)' /\ ~Polled(c)' /\ ~Agreed(c)' /\ ~Arrived(c)' /\ ~Made(c)'
    BY <1>1, <1>4, Frame, InIs DEF Stages, OnlyIn
  <2>2. ~Queued(c)' /\ Run(c)'
    BY <1>3, <1>7 DEF Sound, Once
  <2>3. OnlyIn(c, "run")'
    BY <2>1, <2>2 DEF OnlyIn, In, Stages
  <2>4. Waits(c)' /\ c \notin lost' /\ "run" \in Stages
    BY <1>1, <1>4 DEF Waits, Stages
  <2> QED BY <2>3, <2>4, StagedIn
<1>10. ASSUME NEW d \in Clients \ {c} PROVE Staged(d)'
  <2>1. SameStages(d) /\ (Waits(d)' <=> Waits(d))
    BY <1>1, <1>3, <1>7, Frame DEF SameStages, Waits
  <2> QED BY <1>1, <2>1, StagedFrame DEF Sound
<1>11. ASSUME NEW d \in Clients PROVE Once(d)' /\ Served(d)'
  BY <1>1, <1>3, <1>7, Frame, ServedFrame DEF Sound, Once
<1> QED BY <1>8, <1>9, <1>10, <1>11 DEF Sound

(* A worker answers a client that waits, whose queue pair is live.          *)
LEMMA RunIsLive ==
  ASSUME Typed, Sound, NEW w \in Workers, wtask[w] # None
  PROVE  /\ wtask[w] \in Clients /\ qp[wtask[w]].live
         /\ OnlyIn(wtask[w], "run") /\ Waits(wtask[w]) /\ wtask[w] \notin lost
<1>1. PICK c \in Clients : c = wtask[w]
  BY DEF Typed, TaskTypes
<1>2. OnlyIn(c, "run") /\ Waits(c) /\ c \notin lost
  <2>1. Run(c)
    BY <1>1 DEF Run
  <2> QED BY <2>1, Alone, InIs DEF Sound, Stages
<1>3. qp[c].live
  BY <1>2 DEF Sound, Linked, Waits
<1> QED BY <1>1, <1>2, <1>3

LEMMA SendAnswerStep ==
  ASSUME Typed, Sound, NEW w \in Workers, SendAnswer(w)
  PROVE  Sound' /\ fault' = fault
<1>1. PICK c \in Clients : c = wtask[w] /\ qp[c].live /\ OnlyIn(c, "run") /\ Waits(c) /\ c \notin lost
  BY RunIsLive DEF SendAnswer
<1>2. /\ down' = [down EXCEPT ![c] = @ + 1] /\ wtask' = [wtask EXCEPT ![w] = None] /\ fault' = fault
      /\ cpc' = cpc /\ ccq' = ccq /\ up' = up /\ events' = events
      /\ object' = object /\ context' = context /\ qp' = qp /\ cq' = cq /\ ppc' = ppc
      /\ wr_id' = wr_id /\ ctasks' = ctasks /\ lost' = lost
  BY <1>1 DEF SendAnswer, clientVars, connVars, pollVars
<1>3. down[c] \in Nat /\ down'[c] = down[c] + 1 /\ \A d \in Clients \ {c} : down'[d] = down[d]
  BY <1>2 DEF Typed, ClientTypes
<1>4. down[c] = 0
  BY <1>1, InIs DEF OnlyIn, Stages, Answered
<1>5. wtask'[w] = None /\ \A v \in Workers \ {w} : wtask'[v] = wtask[v]
  BY <1>2 DEF Typed, TaskTypes
<1>6. /\ \A d \in Clients : Run(d)' <=> Run(d) /\ d # c
      /\ \A d \in Clients : OneRun(d)'
  <2>1. \A d \in Clients : d # None
    BY Nones
  <2>2. \A d \in Clients : Run(d)' <=> Run(d) /\ d # c
    BY <1>1, <1>5, <2>1 DEF Run, Sound, Once, OneRun
  <2>3. \A d \in Clients : OneRun(d)'
    BY <1>5, <2>1 DEF Sound, Once, OneRun
  <2> QED BY <2>2, <2>3
<1>7. Linked' /\ EventsOK' /\ CompletionsOK' /\ PollersOK'
  BY <1>2, LinkedFrame, EventsFrame, CompletionsFrame, PollersFrame DEF Sound, Linked
<1>8. Staged(c)'
  <2>1. /\ ~Sent(c)' /\ ~Polled(c)' /\ ~Agreed(c)' /\ ~Arrived(c)' /\ ~Made(c)' /\ ~Queued(c)'
    BY <1>1, <1>2, Frame, InIs DEF Stages, OnlyIn
  <2>2. ~Run(c)' /\ Answered(c)'
    BY <1>3, <1>4, <1>6 DEF Answered
  <2>3. OnlyIn(c, "answered")'
    BY <2>1, <2>2 DEF OnlyIn, In, Stages
  <2>4. Waits(c)' /\ c \notin lost' /\ "answered" \in Stages
    BY <1>1, <1>2 DEF Waits, Stages
  <2> QED BY <2>3, <2>4, StagedIn
<1>9. ASSUME NEW d \in Clients \ {c} PROVE Staged(d)'
  <2>1. SameStages(d) /\ (Waits(d)' <=> Waits(d))
    BY <1>2, <1>3, <1>6, Frame DEF SameStages, Waits
  <2> QED BY <1>2, <2>1, StagedFrame DEF Sound
<1>10. ASSUME NEW d \in Clients PROVE Once(d)' /\ Served(d)'
  <2>1. OneAnswered(d)'
    <3>1. CASE d = c
      BY <1>3, <1>4, <3>1 DEF OneAnswered
    <3>2. CASE d # c
      BY <1>3, <3>2, Frame DEF Sound, Once
    <3> QED BY <3>1, <3>2
  <2> QED BY <1>2, <1>6, <2>1, Frame, ServedFrame DEF Sound, Once
<1> QED BY <1>2, <1>7, <1>8, <1>9, <1>10 DEF Sound

-----------------------------------------------------------------------------
(* The invariant                                                            *)

(* Once the server has ended, only clients and the network move.            *)
LEMMA Ended ==
  ASSUME Typed, OnlyKnownFaults, fault # None, Next
  PROVE  OnlyKnownFaults' /\ fault' # None
<1>1. /\ fault' = fault /\ started' = started /\ ppc' = ppc /\ wr_id' = wr_id /\ object' = object
  <2>1. ASSUME NEW c \in Clients,
               \/ Connect(c) \/ OnEstablished(c) \/ Exchange(c) \/ PollOwn(c) \/ Disconnect(c)
               \/ DeliverRequest(c) \/ DeliverAnswer(c)
               \/ OnConnectRequest(c) \/ OnEstablishedServer(c) \/ OnDisconnected(c)
        PROVE  /\ fault' = fault /\ started' = started /\ ppc' = ppc /\ wr_id' = wr_id
               /\ object' = object
    <3>1. ~DeliverRequest(c) /\ ~OnConnectRequest(c) /\ ~OnEstablishedServer(c) /\ ~OnDisconnected(c)
      BY DEF DeliverRequest, OnConnectRequest, OnEstablishedServer, OnDisconnected, Handle, Running
    <3>2. CASE Connect(c) \/ OnEstablished(c) \/ Disconnect(c)
      BY <3>2 DEF Connect, OnEstablished, Disconnect, pollVars, taskVars, endVars
    <3>3. CASE Exchange(c) \/ PollOwn(c)
      BY <3>3 DEF Exchange, PollOwn, connVars, pollVars, taskVars, endVars
    <3>4. CASE DeliverAnswer(c)
      BY <3>4 DEF DeliverAnswer, connVars, taskVars, endVars
    <3> QED BY <2>1, <3>1, <3>2, <3>3, <3>4
  <2>2. ASSUME NEW q \in Queues,
               \/ Poll(q) \/ PostReceive(q)
               \/ \E w \in Workers : MakeProduct(q, w) \/ MakeTooEarly(q, w)
        PROVE  FALSE
    BY <2>2 DEF Poll, PostReceive, MakeProduct, MakeTooEarly, Running
  <2>3. ASSUME NEW w \in Workers, StartQueue(w) \/ Sleep(w) \/ TakeTask(w) \/ SendAnswer(w)
        PROVE  FALSE
    BY <2>3 DEF StartQueue, Sleep, TakeTask, SendAnswer, Idle, Running
  <2> QED BY <2>1, <2>2, <2>3 DEF Next
<1> QED BY <1>1 DEF OnlyKnownFaults

(* While it runs, every step keeps the invariant or is one of two ends.     *)
LEMMA RunningStep ==
  ASSUME Typed, Sound, fault = None, Next
  PROVE  /\ fault' = None => Sound'
         /\ fault' = "queue not made" => started' # Workers
         /\ fault' # "send on a destroyed queue pair"
         /\ fault' # None => PollersOK'
<1>1. ASSUME NEW c \in Clients,
             \/ Connect(c) \/ OnEstablished(c) \/ Exchange(c) \/ PollOwn(c) \/ Disconnect(c)
             \/ DeliverRequest(c) \/ DeliverAnswer(c)
             \/ OnConnectRequest(c) \/ OnEstablishedServer(c) \/ OnDisconnected(c)
      PROVE  Sound' /\ fault' = fault
  <2>1. Sound'
    BY <1>1, ConnectStep, OnEstablishedStep, ExchangeStep, PollOwnStep, DisconnectStep,
       DeliverRequestStep, DeliverAnswerStep, OnConnectRequestStep, OnEstablishedServerStep,
       OnDisconnectedStep
  <2>2. fault' = fault
    BY <1>1 DEF Connect, OnEstablished, Exchange, PollOwn, Disconnect, DeliverRequest, DeliverAnswer,
                OnConnectRequest, OnEstablishedServer, OnDisconnected, endVars
  <2> QED BY <2>1, <2>2
<1>2. ASSUME NEW q \in Queues, Poll(q) PROVE Sound' /\ fault' = fault
  BY <1>2, PollStep DEF Poll, endVars
<1>3. ASSUME NEW q \in Queues, NEW w \in Workers, MakeProduct(q, w) PROVE Sound' /\ fault' = fault
  BY <1>3, MakeProductStep DEF MakeProduct, endVars
<1>4. ASSUME NEW q \in Queues, NEW w \in Workers, MakeTooEarly(q, w)
      PROVE  \/ Sound' /\ fault' = fault
             \/ fault' = "queue not made" /\ started' # Workers /\ PollersOK'
  <2>1. CASE fault' = fault
    BY <1>4, <2>1, MakeTooEarlyStep
  <2>2. CASE fault' # fault
    <3>1. /\ fault' = "queue not made" /\ ppc[q] = "make" /\ ppc' = [ppc EXCEPT ![q] = "post"]
          /\ wr_id' = wr_id /\ object' = object /\ context' = context
          /\ started' = started /\ w \notin started
      BY <1>4, <2>2 DEF MakeTooEarly, connVars, taskVars
    <3>2. PollersOK'
      BY <3>1, MadeDone
    <3> QED BY <3>1, <3>2
  <2> QED BY <2>1, <2>2
<1>5. ASSUME NEW q \in Queues, PostReceive(q)
      PROVE  \/ Sound' /\ fault' = fault
             \/ fault' = "receive on a deleted connection" /\ PollersOK'
  <2>1. CASE fault' = fault
    BY <1>5, <2>1, PostReceiveStep
  <2>2. CASE fault' # fault
    <3>1. /\ fault' = "receive on a deleted connection" /\ object' = object
          /\ ppc' = [ppc EXCEPT ![q] = "poll"] /\ wr_id' = [wr_id EXCEPT ![q] = None]
      BY <1>5, <2>2 DEF PostReceive
    <3>2. \A r \in Queues : ppc'[r] = "make" => ppc[r] = "make" /\ wr_id'[r] = wr_id[r]
      BY <3>1 DEF Typed, ServerTypes
    <3>3. PollersOK'
      BY <3>1, <3>2 DEF Sound, PollersOK
    <3> QED BY <3>1, <3>3
  <2> QED BY <2>1, <2>2
<1>6. ASSUME NEW w \in Workers, StartQueue(w) \/ Sleep(w) PROVE Sound' /\ fault' = fault
  BY <1>6, IdleStep DEF StartQueue, Sleep, endVars
<1>7. ASSUME NEW w \in Workers, TakeTask(w) PROVE Sound' /\ fault' = fault
  BY <1>7, TakeTaskStep DEF TakeTask, endVars
<1>8. ASSUME NEW w \in Workers, SendAnswer(w) PROVE Sound' /\ fault' = fault
  BY <1>8, SendAnswerStep
<1>9. \/ Sound' /\ fault' = fault
      \/ fault' = "queue not made" /\ started' # Workers /\ PollersOK'
      \/ fault' = "receive on a deleted connection" /\ PollersOK'
  BY <1>1, <1>2, <1>3, <1>4, <1>5, <1>6, <1>7, <1>8 DEF Next
<1> QED BY <1>9, Nones

LEMMA ConnStep == ConnInv /\ [Next]_vars => ConnInv'
<1> SUFFICES ASSUME ConnInv, [Next]_vars PROVE ConnInv'
  OBVIOUS
<1>1. CASE Next
  <2>1. Typed'
    BY <1>1, TypedStep DEF ConnInv, Sound
  <2>2. CASE fault # None
    BY <1>1, <2>1, <2>2, Ended DEF ConnInv
  <2>3. CASE fault = None
    <3>1. Sound
      BY <2>3 DEF ConnInv
    <3>2. /\ fault' = None => Sound'
          /\ fault' = "queue not made" => started' # Workers
          /\ fault' # "send on a destroyed queue pair"
          /\ fault' # None => PollersOK'
      BY <1>1, <2>3, <3>1, RunningStep DEF ConnInv
    <3>3. PollersOK'
      BY <3>2 DEF Sound
    <3>4. OnlyKnownFaults'
      BY <3>2, <3>3 DEF OnlyKnownFaults, PollersOK
    <3> QED BY <2>1, <3>2, <3>4 DEF ConnInv
  <2> QED BY <2>2, <2>3
<1>2. CASE UNCHANGED vars
  <2>1. /\ cpc' = cpc /\ posted' = posted /\ ccq' = ccq /\ requests' = requests /\ up' = up
        /\ down' = down /\ events' = events /\ aq' = aq /\ object' = object /\ context' = context
        /\ qp' = qp /\ cq' = cq /\ ppc' = ppc /\ wr_id' = wr_id /\ started' = started
        /\ asleep' = asleep /\ ctasks' = ctasks /\ wtask' = wtask /\ lost' = lost /\ fault' = fault
    BY <1>2 DEF vars, clientVars, connVars, pollVars, taskVars, endVars
  <2>2. Typed'
    BY <2>1 DEF ConnInv, Typed, ClientTypes, ServerTypes, TaskTypes
  <2>3. OnlyKnownFaults'
    BY <2>1 DEF ConnInv, OnlyKnownFaults
  <2>4. ASSUME Sound PROVE Sound'
    <3>1. Linked' /\ CompletionsOK' /\ PollersOK' /\ EventsOK'
      BY <2>1, <2>4, LinkedFrame, CompletionsFrame, PollersFrame, EventsFrame
         DEF ConnInv, Sound, Linked
    <3>2. ASSUME NEW d \in Clients PROVE Staged(d)' /\ Once(d)' /\ Served(d)'
      <4>1. SameStages(d) /\ (Once(d)' <=> Once(d)) /\ (Waits(d)' <=> Waits(d))
        BY <2>1, Frame DEF SameStages, Once, Waits
      <4> QED BY <2>1, <2>4, <4>1, StagedFrame, ServedFrame DEF Sound, SameStages
    <3> QED BY <3>1, <3>2 DEF Sound
  <2> QED BY <2>1, <2>2, <2>3, <2>4 DEF ConnInv
<1> QED BY <1>1, <1>2

LEMMA ConnAlways == Spec => []ConnInv
BY InitConn, ConnStep, PTL DEF Spec

-----------------------------------------------------------------------------
(* What it says                                                             *)

LEMMA CountIs ==
  ASSUME NEW S, \A x, y \in S : x = y
  PROVE  Cardinality(S) = IF S = {} THEN 0 ELSE 1
<1>1. CASE S = {}
  BY <1>1, FS_EmptySet
<1>2. CASE S # {}
  <2>1. PICK x \in S : TRUE
    BY <1>2
  <2>2. S = {x}
    BY <2>1
  <2> QED BY <1>2, <2>2, FS_Singleton
<1> QED BY <1>1, <1>2

One(P) == IF P THEN 1 ELSE 0

LEMMA Places ==
  ASSUME Typed, Sound, NEW c \in Clients
  PROVE  /\ Outstanding(c) = One(Sent(c)) + One(Answered(c)) + One(Polled(c)) + One(Agreed(c))
                               + One(Made(c)) + One(Run(c))
         /\ Cardinality(InQueues(c)) = One(Arrived(c) \/ Queued(c))
<1>1. up[c] = One(Sent(c)) /\ down[c] = One(Answered(c))
  <2>1. up[c] \in Nat /\ down[c] \in Nat
    BY DEF Typed, ClientTypes
  <2>2. up[c] <= 1 /\ down[c] <= 1
    BY DEF Sound, Once, OneSent, OneAnswered
  <2> QED BY <2>1, <2>2 DEF Sent, Answered, One
<1>2. Occurrences(ccq[c], LAMBDA k : k = "recv") = One(Polled(c))
  <2>1. PICK S : S = {i \in DOMAIN ccq[c] : ccq[c][i] = "recv"}
    OBVIOUS
  <2>2. (\A x, y \in S : x = y) /\ (S # {} <=> Polled(c))
    BY <2>1 DEF Sound, Once, OnePolled, Polled
  <2>3. Cardinality(S) = One(Polled(c))
    BY <2>2, CountIs DEF One
  <2> QED BY <2>1, <2>3 DEF Occurrences
<1>3. Occurrences(events, LAMBDA e : e = Event("ESTABLISHED", c)) = One(Agreed(c))
  <2>1. PICK S : S = {i \in DOMAIN events : events[i] = Event("ESTABLISHED", c)}
    OBVIOUS
  <2>2. (\A x, y \in S : x = y) /\ (S # {} <=> Agreed(c))
    BY <2>1 DEF Sound, EventsOK, Agreed
  <2>3. Cardinality(S) = One(Agreed(c))
    BY <2>2, CountIs DEF One
  <2> QED BY <2>1, <2>3 DEF Occurrences
<1>4. Cardinality({q \in Queues : ppc[q] = "make" /\ wr_id[q] = context[c]}) = One(Made(c))
  <2>1. PICK S : S = {q \in Queues : ppc[q] = "make" /\ wr_id[q] = context[c]}
    OBVIOUS
  <2>2. (\A x, y \in S : x = y) /\ (S # {} <=> Made(c))
    BY <2>1 DEF Sound, Once, OneMade, Made
  <2> QED BY <2>1, <2>2, CountIs DEF One
<1>5. Cardinality({w \in Workers : wtask[w] = c}) = One(Run(c))
  <2>1. PICK S : S = {w \in Workers : wtask[w] = c}
    OBVIOUS
  <2>2. (\A x, y \in S : x = y) /\ (S # {} <=> Run(c))
    BY <2>1 DEF Sound, Once, OneRun, Run
  <2> QED BY <2>1, <2>2, CountIs DEF One
<1>6. Outstanding(c) = One(Sent(c)) + One(Answered(c)) + One(Polled(c)) + One(Agreed(c))
                         + One(Made(c)) + One(Run(c))
  BY <1>1, <1>2, <1>3, <1>4, <1>5 DEF Outstanding
<1>7. \A q \in Queues : \A i \in DOMAIN cq[q] : cq[q][i] = Completion("recv", c) <=> Lies(cq[q][i], c)
  <2> SUFFICES ASSUME NEW q \in Queues, NEW i \in DOMAIN cq[q]
               PROVE  cq[q][i] = Completion("recv", c) <=> Lies(cq[q][i], c)
    OBVIOUS
  <2>1. cq[q] \in Seq(Completions)
    BY DEF Typed, ServerTypes
  <2>2. PICK wc \in Completions : wc = cq[q][i]
    BY <2>1, ElementsOf
  <2>3. wc = [kind |-> wc.kind, client |-> wc.client, wr_id |-> wc.wr_id]
    BY DEF Completions
  <2>4. wc.wr_id = context[wc.client]
    BY <2>2 DEF Sound, CompletionsOK
  <2> QED BY <2>2, <2>3, <2>4 DEF Completion, Lies
<1>8. \A x : x \in InQueues(c) <=>
        \/ \E q \in Queues : \E i \in DOMAIN cq[q] : x = <<q, i>> /\ Lies(cq[q][i], c)
        \/ \E w \in Workers : \E i \in DOMAIN ctasks[w] : x = <<w, i>> /\ ctasks[w][i] = c
  <2> DEFINE F(q) == {<<q, i>> : i \in {j \in DOMAIN cq[q] : cq[q][j] = Completion("recv", c)}}
             G(w) == {<<w, i>> : i \in {j \in DOMAIN ctasks[w] : ctasks[w][j] = c}}
  <2>1. \A q \in Queues : \A x : x \in F(q) <=> \E i \in DOMAIN cq[q] : x = <<q, i>> /\ Lies(cq[q][i], c)
    BY <1>7
  <2>2. \A w \in Workers : \A x : x \in G(w) <=> \E i \in DOMAIN ctasks[w] : x = <<w, i>> /\ ctasks[w][i] = c
    OBVIOUS
  <2>3. \A x : x \in InQueues(c) <=>
          (\E q \in Queues : x \in F(q)) \/ (\E w \in Workers : x \in G(w))
    BY DEF InQueues
  <2> HIDE DEF F, G
  <2> QED BY <2>1, <2>2, <2>3
<1>9. InQueues(c) # {} <=> Arrived(c) \/ Queued(c)
  <2>1. InQueues(c) # {} => Arrived(c) \/ Queued(c)
    BY <1>8 DEF Arrived, Queued
  <2>2. Arrived(c) => InQueues(c) # {}
    <3> SUFFICES ASSUME NEW q \in Queues, NEW i \in DOMAIN cq[q], Lies(cq[q][i], c)
                 PROVE  <<q, i>> \in InQueues(c)
      BY DEF Arrived
    <3> QED BY <1>8
  <2>3. Queued(c) => InQueues(c) # {}
    <3> SUFFICES ASSUME NEW w \in Workers, NEW i \in DOMAIN ctasks[w], ctasks[w][i] = c
                 PROVE  <<w, i>> \in InQueues(c)
      BY DEF Queued
    <3> QED BY <1>8
  <2> QED BY <2>1, <2>2, <2>3
<1>10. \A x, y \in InQueues(c) : x = y
  <2> SUFFICES ASSUME NEW x \in InQueues(c), NEW y \in InQueues(c) PROVE x = y
    OBVIOUS
  <2>1. ~(Arrived(c) /\ Queued(c))
    BY InIs DEF Sound, Staged, Stages
  <2>2. CASE Arrived(c)
    <3>1. \E q \in Queues : \E i \in DOMAIN cq[q] : x = <<q, i>> /\ Lies(cq[q][i], c)
      BY <1>8, <2>1, <2>2 DEF Queued
    <3>2. \E q \in Queues : \E i \in DOMAIN cq[q] : y = <<q, i>> /\ Lies(cq[q][i], c)
      BY <1>8, <2>1, <2>2 DEF Queued
    <3> QED BY <3>1, <3>2 DEF Sound, Once, OneArrived
  <2>3. CASE ~Arrived(c)
    <3>1. \E w \in Workers : \E i \in DOMAIN ctasks[w] : x = <<w, i>> /\ ctasks[w][i] = c
      BY <1>8, <2>3 DEF Arrived
    <3>2. \E w \in Workers : \E i \in DOMAIN ctasks[w] : y = <<w, i>> /\ ctasks[w][i] = c
      BY <1>8, <2>3 DEF Arrived
    <3> QED BY <3>1, <3>2 DEF Sound, Once, OneQueued
  <2> QED BY <2>2, <2>3
<1>11. Cardinality(InQueues(c)) = One(Arrived(c) \/ Queued(c))
  BY <1>9, <1>10, CountIs DEF One
<1> QED BY <1>6, <1>11

LEMMA ConnTypeOK == ConnInv => TypeOK
<1> SUFFICES ASSUME ConnInv PROVE TypeOK
  OBVIOUS
<1>1. cpc \in [Clients -> {"start", "connect", "keys", "ready", "exchange", "closed"}]
  BY DEF ConnInv, Typed, ClientTypes
<1>2. ASSUME fault = None, NEW c \in Clients, cpc[c] = "ready"
      PROVE  qp[c].recvs + Cardinality({q \in Queues : wr_id[q] = context[c]}) >= 1
  <2>1. Sound /\ context[c] # None
    BY <1>2 DEF ConnInv, Sound, Linked
  <2>2. ~Arrived(c)
    BY <1>2, <2>1, Nowhere, InIs DEF Sound, Waits, Stages
  <2>3. PICK S : S = {q \in Queues : wr_id[q] = context[c]}
    OBVIOUS
  <2>4. PICK n \in Nat : n = qp[c].recvs
    BY ReceivesTyped DEF ConnInv, Typed, ServerTypes
  <2>5. n >= 1 \/ S # {}
    BY <2>1, <2>2, <2>3, <2>4 DEF Sound, Served
  <2>6. IsFiniteSet(S) /\ Cardinality(S) \in Nat
    <3>1. 0 \in Int /\ NumQueues - 1 \in Int
      BY QueueAssumption
    <3>2. IsFiniteSet(Queues)
      BY <3>1, FS_Interval DEF Queues
    <3>3. S \subseteq Queues
      BY <2>3
    <3> QED BY <3>2, <3>3, FS_Subset, FS_CardinalityType
  <2>7. S # {} => Cardinality(S) # 0
    BY <2>6, FS_EmptySet
  <2>8. n + Cardinality(S) >= 1
    BY <2>5, <2>6, <2>7
  <2> QED BY <2>3, <2>4, <2>8
<1>3. fault = None => \A c \in Clients :
        /\ qp[c].live <=> context[c] # None
        /\ context[c] # None => object[context[c]] = c
        /\ cpc[c] \in {"keys", "ready", "exchange"} => qp[c].live
  BY DEF ConnInv, Sound, Linked
<1> QED BY <1>1, <1>2, <1>3 DEF TypeOK

LEMMA ConnConserves == ConnInv => RequestsConserved
<1> SUFFICES ASSUME ConnInv, fault = None, NEW c \in Clients \ lost
             PROVE  Outstanding(c) + Cardinality(InQueues(c))
                      = IF cpc[c] \in {"keys", "exchange"} THEN 1 ELSE 0
  BY DEF RequestsConserved
<1>1. Typed /\ Sound /\ Staged(c)
  BY DEF ConnInv, Sound
<1>2. /\ Outstanding(c) = One(Sent(c)) + One(Answered(c)) + One(Polled(c)) + One(Agreed(c))
                            + One(Made(c)) + One(Run(c))
      /\ Cardinality(InQueues(c)) = One(Arrived(c) \/ Queued(c))
  BY <1>1, Places
<1>3. CASE Waits(c)
  <2>1. PICK s \in Stages : OnlyIn(c, s)
    BY <1>1, <1>3 DEF Staged, OnlyIn
  <2>2. /\ Sent(c) <=> s = "sent" 
        /\ Answered(c) <=> s = "answered"
        /\ Polled(c) <=> s = "polled"
        /\ Agreed(c) <=> s = "agreed"
        /\ Arrived(c) <=> s = "arrived"
        /\ Made(c) <=> s = "made"
        /\ Queued(c) <=> s = "queued"
        /\ Run(c) <=> s = "run"
    BY <2>1, InIs DEF OnlyIn, Stages
  <2> QED BY <1>2, <1>3, <2>1, <2>2 DEF One, Stages, Waits
<1>4. CASE ~Waits(c)
  <2>1. /\ ~Sent(c) /\ ~Answered(c) /\ ~Polled(c) /\ ~Agreed(c) /\ ~Arrived(c) /\ ~Made(c)
        /\ ~Queued(c) /\ ~Run(c)
    BY <1>1, <1>4, Nowhere, InIs DEF Stages
  <2> QED BY <1>2, <1>4, <2>1 DEF One, Waits
<1> QED BY <1>3, <1>4

(* A live queue pair has its base_connection, which no other client has; a  *)
(* client past the handshake has a live one; and while it asks nothing, a   *)
(* receive is posted for it or a poller is about to post it                 *)
(* (process_conn_req, process_data_req).                                    *)
THEOREM ConnectionsTypeOK == Spec => []TypeOK
BY ConnAlways, ConnTypeOK, PTL

(* A request or its answer is in one place from the call to the completion  *)
(* the client polls, whatever the pollers, the workers and the handler of   *)
(* connection events do in between.                                         *)
THEOREM ConnectionsConserve == Spec => []RequestsConserved
BY ConnAlways, ConnConserves, PTL

(* No answer is sent on a queue pair that is gone, no poller queues a       *)
(* request of a connection that is gone, and the failed lock or signal in   *)
(* add_task needs a queue that start_net has not made.                      *)
THEOREM ConnectionsFaults == Spec => []OnlyKnownFaults
<1>1. ConnInv => OnlyKnownFaults
  BY DEF ConnInv
<1> QED BY <1>1, ConnAlways, PTL
=============================================================================
