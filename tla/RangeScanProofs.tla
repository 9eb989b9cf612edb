-------------------------- MODULE RangeScanProofs --------------------------
(* Theorems about RangeScan, for every number of clients and workers, every *)
(* batch size and every set of range sizes: the types; the range_ptr of a   *)
(* scan, which lives for as long as it is used, the prefetched batch it     *)
(* holds and the workers that wait for that batch, whatever the checksum;   *)
(* and what a cursor yields, exactly the keys of the queried range provided *)
(* the checksum tells a batch from what may be found in its place           *)
(* (ChecksumTells).                                                         *)
EXTENDS RangeScan, FiniteSetTheorems, TLAPS

LEMMA RangesTyping ==
  /\ 0 \in Ranges
  /\ \A n \in Ranges : n \in Nat
  /\ \A n \in Totals : n \in Nat /\ Passes(n) \subseteq Ranges
  BY RangeAssumption DEF Ranges, Passes

LEMMA KeysTyping == \A n \in Ranges : \A i \in 1 .. n : KeyOf(i) \in Keys
  BY DEF Keys

(* get_items writes a well-formed batch that ends where Advance says. *)
LEMMA GetItemsTyping ==
  ASSUME NEW n \in Ranges, NEW pos \in Nat, pos <= n
  PROVE  /\ GetItems(n, pos) \in Batches
         /\ GetItems(n, pos).num = Advance(n, pos) - pos
         /\ Advance(n, pos) \in 0 .. n
         /\ pos <= Advance(n, pos)
<1> DEFINE num  == Advance(n, pos) - pos
           keys == [i \in 1 .. num |-> KeyOf(pos + i)]
<1>1. /\ n \in Nat /\ Advance(n, pos) \in 0 .. n /\ pos <= Advance(n, pos) /\ num \in 0 .. Cap
  BY CapAssumption, RangesTyping DEF Advance, MinOf
<1>2. \A i \in 1 .. num : KeyOf(pos + i) \in Keys
  BY <1>1, KeysTyping
<1>3. keys \in [1 .. num -> Keys]
  BY <1>2
<1>4. Checksum(keys) \in Nat
  BY <1>1, <1>3, ChecksumAssumption
<1>5. [i \in 1 .. Cap |-> IF i <= num THEN keys[i] ELSE 0] \in [1 .. Cap -> Keys]
  <2> SUFFICES ASSUME NEW i \in 1 .. Cap, i <= num PROVE keys[i] \in Keys
    BY DEF Keys
  <2>1. i \in 1 .. num
    BY <1>1, CapAssumption
  <2> QED BY <2>1, <1>3
<1>6. More(n, pos + num) \in BOOLEAN
  BY DEF More
<1>7. GetItems(n, pos) = [filled |-> TRUE, num |-> num, sum |-> Checksum(keys), more |-> More(n, pos + num),
           items |-> [i \in 1 .. Cap |-> IF i <= num THEN keys[i] ELSE 0]]
  BY DEF GetItems
<1> HIDE DEF num, keys
<1>8. GetItems(n, pos) \in Batches
  BY <1>1, <1>4, <1>5, <1>6, <1>7 DEF Batches
<1> QED BY <1>1, <1>7, <1>8 DEF num

LEMMA FlipTyping == \A b \in 0 .. 1 : Flip(b) \in 0 .. 1
  BY DEF Flip

LEMMA BlankTyping == Blank \in Batches
  BY CapAssumption DEF Blank, Batches, Keys

LEMMA ClearedTyping ==
  ASSUME NEW b \in Batches
  PROVE  Cleared(b) \in Batches
<1>1. 0 \in 0 .. Cap
  BY CapAssumption
<1> QED BY <1>1 DEF Cleared, Batches

LEMMA LandedTyping ==
  ASSUME NEW old \in Batches, NEW res \in Batches, NEW size \in 0 .. Cap + 1
  PROVE  Landed(old, res, size) \in Batches
  BY DEF Landed, Batches

LEMMA InitTyping == Init => TypeOK
<1> USE BlankTyping, CapAssumption, BoundAssumption, RangesTyping
<1> SUFFICES ASSUME Init PROVE TypeOK
  OBVIOUS
<1>1. NoSession \in Sessions /\ NoSession.pos <= NoSession.n
  BY DEF NoSession, Sessions
<1>2. NoResp \in Replies
  BY DEF NoResp, Replies
<1>3. CursorTypeOK
  <2>1. <<>> \in Seq(Keys)
    OBVIOUS
  <2> QED BY <2>1 DEF Init, CursorTypeOK, Passes
<1>4. ClientTypeOK
  BY DEF Init, ClientTypeOK, NoBuf
<1>5. NetTypeOK /\ SessTypeOK
  BY <1>1, <1>2 DEF Init, NetTypeOK, SessTypeOK
<1>6. QueueTypeOK /\ WorkerTypeOK
  BY DEF Init, QueueTypeOK, WorkerTypeOK
<1> QED BY <1>3, <1>4, <1>5, <1>6 DEF TypeOK

(* What a step leaves alone stays well typed. *)
LEMMA UnchangedTyping ==
  ASSUME TypeOK
  PROVE  /\ UNCHANGED cursorVars => CursorTypeOK'
         /\ UNCHANGED <<cpc, posted, cq, scans, updates, code, index>> => ClientTypeOK'
         /\ UNCHANGED netVars => NetTypeOK'
         /\ UNCHANGED ctasks => QueueTypeOK'
         /\ UNCHANGED workerVars => WorkerTypeOK'
         /\ UNCHANGED sess => SessTypeOK'
<1>1. UNCHANGED cursorVars => CursorTypeOK'
  BY DEF TypeOK, CursorTypeOK, cursorVars
<1>2. UNCHANGED <<cpc, posted, cq, scans, updates, code, index>> => ClientTypeOK'
  BY DEF TypeOK, ClientTypeOK
<1>3. UNCHANGED netVars => NetTypeOK'
  BY DEF TypeOK, NetTypeOK, netVars
<1>4. UNCHANGED ctasks => QueueTypeOK'
  BY DEF TypeOK, QueueTypeOK
<1>5. UNCHANGED workerVars => WorkerTypeOK'
  BY DEF TypeOK, WorkerTypeOK, workerVars
<1>6. UNCHANGED sess => SessTypeOK'
  BY DEF TypeOK, SessTypeOK
<1> QED BY <1>1, <1>2, <1>3, <1>4, <1>5, <1>6

(* AddTask queues a well-formed base_task. *)
LEMMA AddTaskTyping ==
  ASSUME TypeOK, NEW kind \in Kinds, NEW c \in Clients, AddTask(kind, c)
  PROVE  QueueTypeOK'
<1> DEFINE t == [kind |-> kind, client |-> c]
<1>1. ctasks \in [Workers -> Seq(Tasks)] /\ t \in Tasks
  BY DEF TypeOK, QueueTypeOK, Tasks
<1> HIDE DEF t
<1>2. PICK w \in Workers : ctasks' = [ctasks EXCEPT ![w] = Append(@, t)]
  BY DEF AddTask, t
<1>3. Append(ctasks[w], t) \in Seq(Tasks)
  BY <1>1
<1> QED BY <1>1, <1>2, <1>3 DEF QueueTypeOK

LEMMA ClientStepTyping ==
  ASSUME TypeOK, NEW c \in Clients, ClientStep(c)
  PROVE  TypeOK'
<1> USE UnchangedTyping, BoundAssumption, CapAssumption
<1>1. ASSUME NEW n \in Totals, NEW m \in Passes(n), Find(c, n, m) PROVE TypeOK'
  <2>1. CursorTypeOK'
    <3>1. PICK first \in {Blank, buf[c][0], buf[c][1]}, second \in {Blank, buf[c][0], buf[c][1]} :
            buf' = [buf EXCEPT ![c] = [i \in 0 .. 1 |-> IF i = 0 THEN Cleared(first) ELSE second]]
      BY <1>1 DEF Find
    <3>2. first \in Batches /\ second \in Batches
      BY BlankTyping DEF TypeOK, CursorTypeOK
    <3>3. Cleared(first) \in Batches
      BY <3>2, ClearedTyping
    <3>4. buf' \in [Clients -> [0 .. 1 -> Batches]]
      BY <3>1, <3>2, <3>3 DEF TypeOK, CursorTypeOK
    <3>5. m \in Ranges
      BY RangesTyping
    <3>6. /\ asked' \in [Clients -> Totals \cup {0}] /\ total' \in [Clients -> Ranges]
          /\ \A d \in Clients : total'[d] \in Passes(asked'[d])
      BY <1>1, <3>5 DEF Find, TypeOK, CursorTypeOK
    <3> QED BY <1>1, <3>4, <3>6 DEF Find, TypeOK, CursorTypeOK
  <2>2. ClientTypeOK'
    BY <1>1 DEF Find, TypeOK, ClientTypeOK
  <2>3. NetTypeOK'
    BY <1>1 DEF Find, TypeOK, NetTypeOK, Requests
  <2>4. QueueTypeOK' /\ WorkerTypeOK' /\ SessTypeOK'
    BY <1>1 DEF Find
  <2> QED BY <2>1, <2>2, <2>3, <2>4 DEF TypeOK
<1>2. CASE Update(c)
  <2>1. ClientTypeOK'
    BY <1>2 DEF Update, TypeOK, ClientTypeOK, PacketBuf, cursorVars
  <2>2. NetTypeOK'
    BY <1>2 DEF Update, TypeOK, NetTypeOK, Requests
  <2>3. CursorTypeOK' /\ QueueTypeOK' /\ WorkerTypeOK' /\ SessTypeOK'
    BY <1>2 DEF Update
  <2> QED BY <2>1, <2>2, <2>3 DEF TypeOK
<1>3. CASE ExchangeDone(c) \/ HReceive(c)
  <2>1. ClientTypeOK'
    BY <1>3 DEF ExchangeDone, HReceive, TypeOK, ClientTypeOK, cursorVars
  <2>2. CursorTypeOK' /\ NetTypeOK' /\ QueueTypeOK' /\ WorkerTypeOK' /\ SessTypeOK'
    BY <1>3 DEF ExchangeDone, HReceive
  <2> QED BY <2>1, <2>2 DEF TypeOK
<1>4. CASE Accept(c)
  <2> DEFINE b == buf[c][cur[c]]
  <2>1. cur[c] \in 0 .. 1 /\ b \in Batches /\ b.num \in 0 .. Cap /\ b.more \in BOOLEAN
    <3>1. cur[c] \in 0 .. 1 /\ buf[c] \in [0 .. 1 -> Batches]
      BY DEF TypeOK, CursorTypeOK
    <3>2. b \in Batches
      BY <3>1
    <3> QED BY <3>1, <3>2 DEF Batches
  <2> HIDE DEF b
  <2>2. CursorTypeOK'
    <3>1. cur' \in [Clients -> 0 .. 1] /\ code' \in [Clients -> [num : 0 .. Cap, more : BOOLEAN]]
      BY <1>4, <2>1, FlipTyping DEF Accept, TypeOK, CursorTypeOK, b
    <3> QED BY <1>4, <3>1 DEF Accept, TypeOK, CursorTypeOK
  <2>3. ClientTypeOK'
    <3>1. posted' \in [Clients -> 0 .. 3]
      <4>1. Flip(cur[c]) \in 0 .. 3
        BY <2>1, FlipTyping
      <4> QED BY <1>4, <4>1 DEF Accept, TypeOK, ClientTypeOK
    <3>2. cpc' \in [Clients -> {"idle", "exchange", "receive", "check", "have"}]
      BY <1>4 DEF Accept, TypeOK, ClientTypeOK
    <3>3. \A d \in Clients : cpc'[d] = "have" => index'[d] < code'[d].num
      <4> SUFFICES ASSUME NEW d \in Clients, cpc'[d] = "have"
                   PROVE  index'[d] < code'[d].num
        OBVIOUS
      <4>1. CASE d = c
        BY <1>4, <2>1, <4>1 DEF Accept, TypeOK, ClientTypeOK, CursorTypeOK
      <4>2. CASE d # c
        BY <1>4, <4>2 DEF Accept, TypeOK, ClientTypeOK, CursorTypeOK
      <4> QED BY <4>1, <4>2
    <3> QED BY <1>4, <3>1, <3>2, <3>3 DEF Accept, TypeOK, ClientTypeOK
  <2>4. NetTypeOK'
    BY <1>4 DEF Accept, TypeOK, NetTypeOK, Requests
  <2>5. QueueTypeOK' /\ WorkerTypeOK' /\ SessTypeOK'
    BY <1>4 DEF Accept
  <2> QED BY <2>2, <2>3, <2>4, <2>5 DEF TypeOK
<1>5. CASE Recheck(c)
  BY <1>5 DEF Recheck, vars, clientVars, cursorVars, TypeOK
<1>6. CASE NextItem(c)
  <2> DEFINE item == buf[c][Flip(cur[c])].items[index[c] + 1]
  <2>1. /\ index[c] \in Nat /\ code[c].num \in 0 .. Cap /\ index[c] < code[c].num
        /\ Flip(cur[c]) \in 0 .. 1
    <3>1. cur[c] \in 0 .. 1 /\ index[c] \in 0 .. Cap /\ code[c] \in [num : 0 .. Cap, more : BOOLEAN]
      BY DEF TypeOK, CursorTypeOK
    <3>2. index[c] < code[c].num
      BY <1>6 DEF NextItem, TypeOK, ClientTypeOK
    <3> QED BY <3>1, <3>2, FlipTyping
  <2>2. item \in Keys
    <3>1. buf[c][Flip(cur[c])] \in Batches /\ index[c] + 1 \in 1 .. Cap
      BY <2>1 DEF TypeOK, CursorTypeOK
    <3> QED BY <3>1 DEF Batches
  <2>3. CursorTypeOK'
    <3>1. delivered' \in [Clients -> Seq(Keys)]
      <4>1. delivered[c] \in Seq(Keys)
        BY DEF TypeOK, CursorTypeOK
      <4>2. Append(delivered[c], item) \in Seq(Keys)
        BY <4>1, <2>2
      <4> HIDE DEF item
      <4>3. delivered' = [delivered EXCEPT ![c] = Append(delivered[c], item)]
        BY <1>6 DEF NextItem, item
      <4> QED BY <4>2, <4>3 DEF TypeOK, CursorTypeOK
    <3>2. index' \in [Clients -> 0 .. Cap]
      BY <1>6, <2>1 DEF NextItem, TypeOK, CursorTypeOK
    <3> QED BY <1>6, <3>1, <3>2 DEF NextItem, TypeOK, CursorTypeOK
  <2>4. ClientTypeOK'
    <3>1. \A d \in Clients : cpc'[d] = "have" => index'[d] < code'[d].num
      <4> SUFFICES ASSUME NEW d \in Clients, cpc'[d] = "have"
                   PROVE  index'[d] < code'[d].num
        OBVIOUS
      <4>1. CASE d = c
        BY <1>6, <2>1, <4>1 DEF NextItem, TypeOK, ClientTypeOK, CursorTypeOK
      <4>2. CASE d # c
        BY <1>6, <4>2 DEF NextItem, TypeOK, ClientTypeOK, CursorTypeOK
      <4> QED BY <4>1, <4>2
    <3> QED BY <1>6, <3>1 DEF NextItem, TypeOK, ClientTypeOK
  <2>5. NetTypeOK' /\ QueueTypeOK' /\ WorkerTypeOK' /\ SessTypeOK'
    BY <1>6 DEF NextItem
  <2> QED BY <2>3, <2>4, <2>5 DEF TypeOK
<1> QED BY <1>1, <1>2, <1>3, <1>4, <1>5, <1>6 DEF ClientStep

LEMMA NetStepTyping ==
  ASSUME TypeOK, NEW c \in Clients, Arrive(c) \/ Poll(c)
  PROVE  TypeOK'
<1> USE UnchangedTyping
<1>1. CASE Arrive(c)
  <2> DEFINE p == posted[c]
             new == Landed(buf[c][p], resp[c].res, resp[c].size)
  <2>1. CursorTypeOK'
    <3>1. CASE p = PacketBuf
      BY <1>1, <3>1 DEF Arrive, TypeOK, CursorTypeOK
    <3>2. CASE p # PacketBuf
      <4>1. p \in 0 .. 1
        BY <1>1, <3>2 DEF Arrive, TypeOK, ClientTypeOK, NoBuf, PacketBuf
      <4>2. new \in Batches
        <5>1. buf[c][p] \in Batches /\ resp[c].res \in Batches /\ resp[c].size \in 0 .. Cap + 1
          BY <4>1 DEF TypeOK, CursorTypeOK, NetTypeOK, Replies
        <5> QED BY <5>1, LandedTyping
      <4> HIDE DEF new
      <4>3. buf' = [buf EXCEPT ![c] = [buf[c] EXCEPT ![p] = new]]
        BY <1>1, <3>2 DEF Arrive, new
      <4>4. buf' \in [Clients -> [0 .. 1 -> Batches]]
        BY <4>2, <4>3 DEF TypeOK, CursorTypeOK
      <4> QED BY <1>1, <4>4 DEF Arrive, TypeOK, CursorTypeOK
    <3> QED BY <3>1, <3>2
  <2>2. ClientTypeOK'
    BY <1>1 DEF Arrive, TypeOK, ClientTypeOK, NoBuf
  <2>3. NetTypeOK'
    BY <1>1, BlankTyping, CapAssumption DEF Arrive, TypeOK, NetTypeOK, NoResp, Replies
  <2>4. QueueTypeOK' /\ WorkerTypeOK' /\ SessTypeOK'
    BY <1>1 DEF Arrive
  <2> QED BY <2>1, <2>2, <2>3, <2>4 DEF TypeOK
<1>2. CASE Poll(c)
  <2>1. req[c] \in Kinds
    BY <1>2 DEF Poll, TypeOK, NetTypeOK, Kinds
  <2>2. QueueTypeOK'
    BY <1>2, <2>1, AddTaskTyping DEF Poll
  <2>3. NetTypeOK'
    BY <1>2 DEF Poll, TypeOK, NetTypeOK
  <2>4. CursorTypeOK' /\ ClientTypeOK' /\ WorkerTypeOK' /\ SessTypeOK'
    BY <1>2 DEF Poll, clientVars, cursorVars
  <2> QED BY <2>2, <2>3, <2>4 DEF TypeOK
<1> QED BY <1>1, <1>2

LEMMA WorkerStepTyping ==
  ASSUME TypeOK, NEW w \in Workers, WorkerStep(w)
  PROVE  TypeOK'
<1> USE UnchangedTyping, CapAssumption
<1> DEFINE t == wtask[w]
<1>1. CASE Take(w)
  <2>1. ctasks[w] \in Seq(Tasks) /\ ctasks[w] # <<>>
    BY <1>1 DEF Take, GetTask, TypeOK, QueueTypeOK
  <2>2. Head(ctasks[w]) \in Tasks /\ Tail(ctasks[w]) \in Seq(Tasks)
    BY <2>1
  <2>3. QueueTypeOK'
    BY <1>1, <2>2 DEF Take, GetTask, TypeOK, QueueTypeOK
  <2>4. WorkerTypeOK'
    BY <1>1, <2>2 DEF Take, GetTask, TypeOK, WorkerTypeOK
  <2> QED BY <1>1, <2>3, <2>4 DEF Take, clientVars, cursorVars, TypeOK
<1>2. CASE DoUpdate(w)
  <2>1. WorkerTypeOK'
    BY <1>2 DEF DoUpdate, Run, TypeOK, WorkerTypeOK, Requests
  <2> QED BY <1>2, <2>1 DEF DoUpdate, clientVars, cursorVars, TypeOK
<1>3. CASE OpenRange(w)
  <2> DEFINE c == t.client
             batch == GetItems(total[c], 0)
  <2>1. t \in Tasks /\ c \in Clients /\ total[c] \in Ranges
    BY <1>3 DEF OpenRange, Run, TypeOK, WorkerTypeOK, CursorTypeOK, Tasks
  <2>2. batch \in Batches /\ batch.num \in 0 .. Cap /\ batch.num \in 0 .. total[c]
    <3>1. total[c] \in Nat
      BY <2>1, RangesTyping
    <3>2. batch \in Batches /\ batch.num = Advance(total[c], 0) - 0
          /\ Advance(total[c], 0) \in 0 .. total[c]
      BY <2>1, <3>1, GetItemsTyping
    <3> QED BY <3>1, <3>2 DEF Batches
  <2> HIDE DEF c, batch
  <2>3. WorkerTypeOK'
    BY <1>3, <2>2 DEF OpenRange, Run, TypeOK, WorkerTypeOK, Requests, batch, c
  <2>4. SessTypeOK'
    <3>1. CASE batch.more
      <4> DEFINE s == [NoSession EXCEPT !.live = TRUE, !.n = total[c], !.pos = batch.num]
      <4>1. s \in Sessions /\ s.pos <= s.n
        <5>1. NoSession \in Sessions
          BY BlankTyping, RangesTyping DEF NoSession, Sessions
        <5>2. batch.num \in Nat /\ batch.num <= total[c]
          BY <2>1, <2>2, RangesTyping
        <5>3. s \in Sessions
          BY <2>1, <5>1, <5>2 DEF Sessions
        <5>4. s.pos = batch.num /\ s.n = total[c]
          BY <5>1 DEF Sessions
        <5> QED BY <5>2, <5>3, <5>4
      <4> HIDE DEF s
      <4>2. sess' = [sess EXCEPT ![c] = s]
        BY <1>3, <3>1 DEF OpenRange, s, c, batch
      <4> QED BY <4>1, <4>2 DEF TypeOK, SessTypeOK
    <3>2. CASE ~batch.more
      BY <1>3, <3>2 DEF OpenRange, batch, c
    <3> QED BY <3>1, <3>2
  <2>5. QueueTypeOK'
    <3>1. CASE batch.more
      BY <1>3, <2>1, <3>1, AddTaskTyping DEF OpenRange, c, batch, Kinds
    <3>2. CASE ~batch.more
      BY <1>3, <3>2 DEF OpenRange, batch, c
    <3> QED BY <3>1, <3>2
  <2> QED BY <1>3, <2>3, <2>4, <2>5 DEF OpenRange, clientVars, cursorVars, TypeOK
<1>4. CASE WaitBatch(w)
  <2>1. WorkerTypeOK'
    BY <1>4 DEF WaitBatch, Run, TypeOK, WorkerTypeOK
  <2> QED BY <1>4, <2>1 DEF WaitBatch, clientVars, cursorVars, TypeOK
<1>5. CASE TakeBatch(w)
  <2> DEFINE c == t.client
  <2>1. c \in Clients /\ sess[c] \in Sessions /\ sess[c].res \in Batches /\ wres[w] \in Batches
    BY <1>5 DEF TakeBatch, Run, TypeOK, WorkerTypeOK, Tasks, SessTypeOK, Sessions
  <2> HIDE DEF c
  <2>2. WorkerTypeOK'
    BY <1>5, <2>1 DEF TakeBatch, Run, TypeOK, WorkerTypeOK, c
  <2>3. SessTypeOK'
    <3> DEFINE s == [sess[c] EXCEPT !.hasItems = FALSE, !.res = wres[w]]
    <3>1. s \in Sessions /\ s.pos <= s.n
      BY <2>1 DEF TypeOK, SessTypeOK, Sessions
    <3> HIDE DEF s
    <3>2. sess' = [sess EXCEPT ![c] = s]
      BY <1>5 DEF TakeBatch, s, c
    <3> QED BY <3>1, <3>2 DEF TypeOK, SessTypeOK
  <2> QED BY <1>5, <2>2, <2>3 DEF TakeBatch, clientVars, cursorVars, TypeOK
<1>6. CASE Resume(w)
  <2> DEFINE c == t.client
  <2>1. c \in Clients /\ sess[c] \in Sessions
    BY <1>6 DEF Resume, TypeOK, WorkerTypeOK, Tasks, SessTypeOK
  <2> HIDE DEF c
  <2>2. WorkerTypeOK'
    BY <1>6 DEF Resume, TypeOK, WorkerTypeOK
  <2>3. SessTypeOK' /\ QueueTypeOK'
    <3>1. CASE More(sess[c].n, sess[c].pos)
      BY <1>6, <2>1, <3>1, AddTaskTyping DEF Resume, c, Kinds
    <3>2. CASE ~More(sess[c].n, sess[c].pos)
      <4> DEFINE s == [sess[c] EXCEPT !.live = FALSE]
      <4>1. s \in Sessions /\ s.pos <= s.n
        BY <2>1 DEF TypeOK, SessTypeOK, Sessions
      <4> HIDE DEF s
      <4>2. sess' = [sess EXCEPT ![c] = s] /\ UNCHANGED ctasks
        BY <1>6, <3>2 DEF Resume, Delete, s, c
      <4> QED BY <4>1, <4>2 DEF TypeOK, SessTypeOK
    <3> QED BY <3>1, <3>2
  <2> QED BY <1>6, <2>2, <2>3 DEF Resume, clientVars, cursorVars, TypeOK
<1>7. CASE ReadSize(w)
  <2>1. t.client \in Clients /\ sess[t.client].size \in 0 .. Cap + 1 /\ t.kind = "GETRANGE"
    BY <1>7 DEF ReadSize, TypeOK, WorkerTypeOK, Tasks, SessTypeOK, Sessions
  <2>2. PICK n \in 0 .. Cap + 1 : wsize' = [wsize EXCEPT ![w] = n]
    BY <1>7, <2>1, FreedAssumption DEF ReadSize
  <2>4. NetTypeOK'
    <3>1. lost' \in SUBSET Clients
      BY <1>7, <2>1 DEF ReadSize, TypeOK, NetTypeOK
    <3> QED BY <1>7, <3>1 DEF ReadSize, TypeOK, NetTypeOK
  <2>3. WorkerTypeOK'
    BY <1>7, <2>1, <2>2 DEF ReadSize, TypeOK, WorkerTypeOK, Requests
  <2> QED BY <1>7, <2>3, <2>4 DEF ReadSize, clientVars, cursorVars, TypeOK
<1>8. CASE Reply(w)
  <2>1. t \in Tasks /\ t.client \in Clients /\ t.kind \in Requests
    BY <1>8 DEF Reply, TypeOK, WorkerTypeOK, Tasks
  <2>2. [kind |-> t.kind, res |-> wres[w], size |-> wsize[w]] \in Replies
    BY <2>1 DEF Replies, TypeOK, WorkerTypeOK
  <2>3. NetTypeOK'
    BY <1>8, <2>2 DEF Reply, TypeOK, NetTypeOK
  <2>4. WorkerTypeOK'
    BY <1>8, BlankTyping DEF Reply, TypeOK, WorkerTypeOK
  <2> QED BY <1>8, <2>3, <2>4 DEF Reply, clientVars, cursorVars, TypeOK
<1>9. CASE Prefetch(w)
  <2> DEFINE c == t.client
             batch == GetItems(sess[c].n, sess[c].pos)
             s == [sess[c] EXCEPT !.hasItems = TRUE, !.res = batch,
                                  !.size = batch.num + 1, !.pos = @ + batch.num]
  <2>1. c \in Clients /\ sess[c] \in Sessions /\ sess[c].pos <= sess[c].n
    BY <1>9 DEF Prefetch, Run, TypeOK, WorkerTypeOK, Tasks, SessTypeOK
  <2>2. sess[c].n \in Ranges /\ sess[c].n \in Nat /\ sess[c].pos \in Nat
    <3>1. sess[c].n \in Ranges /\ sess[c].pos \in Nat
      BY <2>1 DEF Sessions
    <3> QED BY <3>1, RangesTyping
  <2>3. /\ batch \in Batches /\ batch.num \in 0 .. Cap
        /\ sess[c].pos + batch.num <= sess[c].n
    <3>1. /\ batch \in Batches
          /\ batch.num = Advance(sess[c].n, sess[c].pos) - sess[c].pos
          /\ Advance(sess[c].n, sess[c].pos) \in 0 .. sess[c].n
      BY <2>1, <2>2, GetItemsTyping
    <3> QED BY <2>2, <3>1 DEF Batches
  <2>4. sess' = [sess EXCEPT ![c] = s]
    BY <1>9 DEF Prefetch
  <2>5. s \in Sessions /\ s.pos <= s.n
    <3> HIDE DEF batch
    <3>1. sess[c].pos + batch.num \in Nat
      BY <2>2, <2>3
    <3>4. batch.num + 1 \in 0 .. Cap + 1
      BY <2>3, CapAssumption
    <3>2. s \in Sessions
      BY <2>1, <2>3, <3>1, <3>4 DEF Sessions
    <3>3. s.pos = sess[c].pos + batch.num /\ s.n = sess[c].n
      BY <2>1 DEF Sessions
    <3> QED BY <2>3, <3>2, <3>3
  <2> HIDE DEF s
  <2>6. SessTypeOK'
    BY <2>1, <2>4, <2>5 DEF TypeOK, SessTypeOK
  <2>7. WorkerTypeOK'
    BY <1>9 DEF Prefetch, Woken, TypeOK, WorkerTypeOK
  <2> QED BY <1>9, <2>6, <2>7 DEF Prefetch, clientVars, cursorVars, TypeOK
<1> QED BY <1>1, <1>2, <1>3, <1>4, <1>5, <1>6, <1>7, <1>8, <1>9 DEF WorkerStep

(* Every variable keeps its type: in particular a batch never holds more   *)
(* items than the buffer, the cursor never reads past the items of its      *)
(* batch, and the index cursor never passes the end of the range.          *)
THEOREM RangeScanTypeOK == Spec => []TypeOK
<1>1. TypeOK /\ [Next]_vars => TypeOK'
  <2> SUFFICES ASSUME TypeOK, [Next]_vars PROVE TypeOK'
    OBVIOUS
  <2>1. CASE UNCHANGED vars
    BY <2>1, UnchangedTyping DEF vars, clientVars, cursorVars, TypeOK
  <2>2. CASE Next
    BY <2>1, <2>2, ClientStepTyping, NetStepTyping, WorkerStepTyping DEF Next
  <2> QED BY <2>1, <2>2
<1> QED BY <1>1, InitTyping, PTL DEF Spec
-----------------------------------------------------------------------------
(* The headers of the replies *)

(* Until a reply is sent without its header, none is about to be.           *)
HeadersOK ==
  /\ \A w \in Workers : wpc[w] = "reply" /\ wtask[w].kind # "UPDATE" => wsize[w] # 0
  /\ \A c \in Clients : resp[c].kind \in {"RANGE", "GETRANGE"} => resp[c].size # 0

LEMMA HeadersStep ==
  ASSUME TypeOK, HeadersOK, [Next]_vars, HeadersSent'
  PROVE  HeadersOK'
<1> USE DEF HeadersOK
<1>1. ASSUME UNCHANGED <<resp, workerVars>> PROVE HeadersOK'
  BY <1>1 DEF workerVars
<1>2. ASSUME NEW c \in Clients, ClientStep(c) \/ Poll(c) PROVE HeadersOK'
  BY <1>1, <1>2 DEF ClientStep, Find, Update, ExchangeDone, HReceive, Accept, Recheck, NextItem,
                    Poll, netVars, vars
<1>3. ASSUME NEW c \in Clients, Arrive(c) PROVE HeadersOK'
  BY <1>3 DEF Arrive, NoResp, workerVars, TypeOK, NetTypeOK
<1>4. ASSUME NEW w \in Workers, WorkerStep(w) PROVE HeadersOK'
  <2> USE DEF netVars, TypeOK, WorkerTypeOK
  <2>1. CASE Take(w) \/ WaitBatch(w) \/ TakeBatch(w) \/ Resume(w)
    BY <2>1 DEF Take, GetTask, WaitBatch, TakeBatch, Resume
  <2>2. CASE DoUpdate(w)
    BY <2>2 DEF DoUpdate, Run
  <2>3. CASE OpenRange(w)
    <3>1. /\ resp' = resp /\ wtask' = wtask
          /\ \A v \in Workers \ {w} : wpc'[v] = wpc[v] /\ wsize'[v] = wsize[v]
          /\ wsize'[w] = GetItems(total[wtask[w].client], 0).num + 1
      BY <2>3 DEF OpenRange
    <3>2. wtask[w] \in Tasks
      BY <2>3 DEF OpenRange, Run
    <3>3. total[wtask[w].client] \in Ranges
      BY <3>2 DEF Tasks, CursorTypeOK
    <3>4. GetItems(total[wtask[w].client], 0).num \in 0 .. Cap
      BY <3>3, RangesTyping, GetItemsTyping DEF Batches
    <3>5. wsize'[w] # 0
      BY <3>1, <3>4, CapAssumption
    <3> QED BY <3>1, <3>5
  <2>4. CASE ReadSize(w)
    <3>1. /\ resp' = resp /\ wtask' = wtask /\ wpc' = [wpc EXCEPT ![w] = "reply"]
          /\ \A v \in Workers \ {w} : wsize'[v] = wsize[v]
          /\ wsize'[w] = 0 => wtask[w].client \in lost'
      BY <2>4 DEF ReadSize
    <3>2. wsize'[w] # 0
      BY <3>1 DEF HeadersSent
    <3> QED BY <3>1, <3>2
  <2>5. CASE Reply(w)
    <3>1. /\ wpc[w] = "reply" /\ wpc' = [wpc EXCEPT ![w] = "idle"]
          /\ \A v \in Workers \ {w} : wtask'[v] = wtask[v] /\ wsize'[v] = wsize[v]
      BY <2>5 DEF Reply
    <3>2. ASSUME NEW c \in Clients, resp'[c].kind \in {"RANGE", "GETRANGE"}
          PROVE  resp'[c].size # 0
      <4>1. CASE c = wtask[w].client
        <5>1. resp'[c] = [kind |-> wtask[w].kind, res |-> wres[w], size |-> wsize[w]]
          BY <2>5, <4>1 DEF Reply, NetTypeOK
        <5>2. wtask[w].kind \in {"RANGE", "GETRANGE"} /\ resp'[c].size = wsize[w]
          BY <3>2, <5>1
        <5> QED BY <3>1, <5>2
      <4>2. CASE c # wtask[w].client
        <5>1. resp'[c] = resp[c]
          BY <2>5, <4>2 DEF Reply, NetTypeOK
        <5> QED BY <3>2, <5>1
      <4> QED BY <4>1, <4>2
    <3>3. \A v \in Workers : wpc'[v] = "reply" => v # w /\ wpc[v] = "reply"
      BY <3>1, <1>4 DEF WorkerTypeOK
    <3> QED BY <3>1, <3>2, <3>3
  <2>6. CASE Prefetch(w)
    <3>1. /\ resp' = resp /\ wsize' = wsize
          /\ \A v \in Workers : wpc'[v] = "reply" => v # w /\ wpc[v] = "reply"
          /\ \A v \in Workers \ {w} : wtask'[v] = wtask[v]
      BY <2>6 DEF Prefetch, Woken
    <3> QED BY <3>1
  <2> QED BY <1>4, <2>1, <2>2, <2>3, <2>4, <2>5, <2>6 DEF WorkerStep
<1>5. CASE UNCHANGED vars
  BY <1>1, <1>5 DEF vars, netVars
<1> QED BY <1>2, <1>3, <1>4, <1>5 DEF Next

(* What has been lost stays lost. *)
LEMMA LostStays == ASSUME [Next]_vars, HeadersSent' PROVE HeadersSent
<1>1. lost \subseteq lost'
  BY DEF Next, ClientStep, Find, Update, ExchangeDone, HReceive, Accept, Recheck, NextItem,
         Arrive, Poll, WorkerStep, Take, DoUpdate, OpenRange, WaitBatch, TakeBatch, Resume,
         ReadSize, Reply, Prefetch, netVars, vars
<1> QED BY <1>1 DEF HeadersSent

LEMMA HeadersInductive == Spec => [](TypeOK /\ (HeadersSent => HeadersOK))
<1>1. Init => HeadersOK
  BY DEF Init, HeadersOK, NoResp
<1>2. TypeOK /\ (HeadersSent => HeadersOK) /\ [Next]_vars => (HeadersSent => HeadersOK)'
  BY HeadersStep, LostStays
<1> QED BY <1>1, <1>2, RangeScanTypeOK, PTL DEF Spec
-----------------------------------------------------------------------------
(* The range_ptr and the workers *)

(* The base_tasks of a worker: slot 0 is the one it holds, slot i > 0 the   *)
(* i-th of its queue, so that a task only ever moves to a lower slot.       *)
Slots(w)     == (IF wpc[w] = "idle" THEN 1 ELSE 0) .. Len(ctasks[w])
TaskAt(w, i) == IF i = 0 THEN wtask[w] ELSE ctasks[w][i]

(* The range_ptr has not yet been used, or not for the last time. *)
Pending(w, i) == i > 0 \/ wpc[w] \in {"run", "wait", "resume"}

(* The two tokens of a client: its request and its prefetch. *)
SameToken(t, u) == /\ t.client = u.client
                   /\ (t.kind = "PREFETCH") = (u.kind = "PREFETCH")

(* The client has a request on its way or an answer it has not looked at. *)
Awaits(c) == \/ cpc[c] \in {"exchange", "receive"}
             \/ cpc[c] = "have" /\ code[c].more

(* One request and one prefetch per client, among all workers. *)
TokensApart ==
  \A w, v \in Workers : \A i \in Slots(w), j \in Slots(v) :
    SameToken(TaskAt(w, i), TaskAt(v, j)) => w = v /\ i = j

(* What a task says of its client and of the client's range_ptr. *)
SlotOK(w, i) ==
  LET t == TaskAt(w, i)
      c == t.client
  IN  IF t.kind = "PREFETCH"
        THEN sess[c].live /\ ~sess[c].hasItems
        ELSE /\ Awaits(c) /\ req[c] = "none" /\ resp[c].kind = "none" /\ ~cq[c]
             /\ (t.kind = "UPDATE") = (cpc[c] = "exchange")
             /\ t.kind = "RANGE" /\ Pending(w, i) => ~sess[c].live
             /\ t.kind = "GETRANGE" /\ Pending(w, i) => sess[c].live
             /\ t.kind # "UPDATE" /\ ~Pending(w, i) => sess[c].live = wres[w].more

HasPrefetch(c) == \E w \in Workers : \E i \in Slots(w) :
                    TaskAt(w, i).kind = "PREFETCH" /\ TaskAt(w, i).client = c

Resumes(c) == \E w \in Workers : wpc[w] = "resume" /\ wtask[w].client = c

(* update_range between taking the batch and asking for the next, and while *)
(* it waits for one.                                                        *)
WorkerOK(w) ==
  LET c == wtask[w].client
  IN  /\ wpc[w] = "resume" => /\ ~sess[c].hasItems /\ ~HasPrefetch(c)
                              /\ wres[w].more = More(sess[c].n, sess[c].pos)
      /\ wpc[w] = "wait" => ~sess[c].hasItems

(* A request is in one place at a time ... *)
OneStage(c) ==
  /\ req[c] # "none" => resp[c].kind = "none" /\ ~cq[c]
  /\ resp[c].kind # "none" => ~cq[c]
  /\ req[c] # "none" \/ resp[c].kind # "none" \/ cq[c] => Awaits(c)
  /\ req[c] # "none" => (req[c] = "UPDATE") = (cpc[c] = "exchange")
  /\ resp[c].kind # "none" => (resp[c].kind = "UPDATE") = (cpc[c] = "exchange")
  /\ posted[c] # NoBuf => Awaits(c) /\ ~cq[c]
  /\ posted[c] = PacketBuf => cpc[c] = "exchange"
  /\ posted[c] \in 0 .. 1 => posted[c] = cur[c]

(* ... and whoever has the last batch knows whether the range_ptr lives. *)
LiveOK(c) ==
  /\ req[c] = "RANGE" => ~sess[c].live
  /\ req[c] = "GETRANGE" => sess[c].live
  /\ resp[c].kind \in {"RANGE", "GETRANGE"} => sess[c].live = resp[c].res.more
  /\ cpc[c] = "check" \/ (cq[c] /\ cpc[c] # "exchange") =>
       sess[c].live = buf[c][cur[c]].more
  /\ cpc[c] \in {"idle", "exchange"} \/ (cpc[c] = "have" /\ ~code[c].more) =>
       ~sess[c].live
  /\ sess[c].live /\ sess[c].hasItems => sess[c].res.more = More(sess[c].n, sess[c].pos)

(* A living range_ptr has its next batch, or somebody about to get it. *)
PrefetchDue(c) == sess[c].live => sess[c].hasItems \/ HasPrefetch(c) \/ Resumes(c)

(* get_items ends a batch before it is full only at the end of the range.  *)
Full(b) == b.filled /\ b.more => b.num > 0
BatchesFull ==
  /\ \A c \in Clients : \A i \in 0 .. 1 : Full(buf[c][i])
  /\ \A c \in Clients : Full(resp[c].res) /\ Full(sess[c].res)
  /\ \A w \in Workers : Full(wres[w])

SessionInv ==
  /\ TokensApart
  /\ \A w \in Workers : WorkerOK(w) /\ \A i \in Slots(w) : SlotOK(w, i)
  /\ \A c \in Clients : OneStage(c) /\ LiveOK(c) /\ PrefetchDue(c)

-----------------------------------------------------------------------------
(* What the steps do to the slots. *)

LEMMA SlotTyping ==
  ASSUME TypeOK, NEW w \in Workers, NEW i \in Slots(w)
  PROVE  /\ i \in Nat /\ TaskAt(w, i) \in Tasks
         /\ TaskAt(w, i).kind \in Kinds /\ TaskAt(w, i).client \in Clients
         /\ i = 0 => wpc[w] # "idle" /\ TaskAt(w, i) = wtask[w]
         /\ ~Pending(w, i) => i = 0 /\ wpc[w] \in {"size", "reply"}
<1>1. ctasks[w] \in Seq(Tasks) /\ Len(ctasks[w]) \in Nat
  BY DEF TypeOK, QueueTypeOK
<1>2. i \in Nat /\ (i = 0 => wpc[w] # "idle")
  BY <1>1 DEF Slots
<1>3. TaskAt(w, i) \in Tasks
  <2>1. CASE i = 0
    BY <1>2, <2>1 DEF TaskAt, TypeOK, WorkerTypeOK
  <2>2. CASE i # 0
    <3>1. i \in 1 .. Len(ctasks[w])
      BY <1>1, <1>2, <2>2 DEF Slots
    <3> QED BY <1>1, <2>2, <3>1 DEF TaskAt
  <2> QED BY <2>1, <2>2
<1>4. ~Pending(w, i) => i = 0 /\ wpc[w] \in {"size", "reply"}
  BY <1>2 DEF Pending, TypeOK, WorkerTypeOK
<1> QED BY <1>2, <1>3, <1>4 DEF TaskAt, Tasks

(* The slot of the task in hand. *)
LEMMA HeldSlot ==
  ASSUME TypeOK, NEW w \in Workers, wpc[w] # "idle"
  PROVE  /\ 0 \in Slots(w) /\ TaskAt(w, 0) = wtask[w]
         /\ wtask[w] \in Tasks /\ wtask[w].client \in Clients
         /\ Pending(w, 0) <=> wpc[w] \in {"run", "wait", "resume"}
<1>1. Len(ctasks[w]) \in Nat
  BY DEF TypeOK, QueueTypeOK
<1> QED BY <1>1 DEF Slots, TaskAt, Pending, TypeOK, WorkerTypeOK, Tasks

LEMMA SlotsSame ==
  ASSUME UNCHANGED <<ctasks, wtask>>, NEW w \in Workers,
         wpc'[w] = "idle" <=> wpc[w] = "idle"
  PROVE  /\ Slots(w)' = Slots(w)
         /\ \A i \in Slots(w) : TaskAt(w, i)' = TaskAt(w, i)
BY DEF Slots, TaskAt

(* A task less in hand. *)
LEMMA SlotsLess ==
  ASSUME TypeOK, UNCHANGED ctasks, NEW w \in Workers, wpc[w] # "idle", wpc'[w] = "idle",
         \A v \in Workers \ {w} : wtask'[v] = wtask[v] /\ (wpc'[v] = "idle" <=> wpc[v] = "idle")
  PROVE  \A v \in Workers : \A i \in Slots(v)' :
           /\ i \in Slots(v) /\ TaskAt(v, i)' = TaskAt(v, i)
           /\ v = w => i > 0
<1> SUFFICES ASSUME NEW v \in Workers, NEW i \in Slots(v)'
             PROVE  /\ i \in Slots(v) /\ TaskAt(v, i)' = TaskAt(v, i)
                    /\ v = w => i > 0
  OBVIOUS
<1>1. Len(ctasks[v]) \in Nat
  BY DEF TypeOK, QueueTypeOK
<1>2. CASE v = w
  BY <1>1, <1>2 DEF Slots, TaskAt
<1>3. CASE v # w
  BY <1>3 DEF Slots, TaskAt
<1> QED BY <1>2, <1>3

(* The oldest task of the queue comes into hand. *)
LEMMA SlotsTake ==
  ASSUME TypeOK, NEW w \in Workers, Take(w)
  PROVE  /\ \A i \in Slots(w)' : /\ i + 1 \in Slots(w) /\ TaskAt(w, i)' = TaskAt(w, i + 1)
                                 /\ Pending(w, i)' /\ i \in Nat
         /\ \A i \in Slots(w) : i - 1 \in Slots(w)' /\ TaskAt(w, i - 1)' = TaskAt(w, i)
         /\ \A v \in Workers \ {w} :
              /\ Slots(v)' = Slots(v)
              /\ \A i \in Slots(v) : /\ TaskAt(v, i)' = TaskAt(v, i)
                                     /\ Pending(v, i)' = Pending(v, i)
         /\ \A v \in Workers \ {w} : wpc'[v] = wpc[v] /\ wtask'[v] = wtask[v]
         /\ \A i \in Slots(w) : i > 0
<1>1. /\ ctasks[w] \in Seq(Tasks) /\ ctasks[w] # <<>> /\ wpc[w] = "idle"
      /\ wtask' = [wtask EXCEPT ![w] = Head(ctasks[w])]
      /\ ctasks' = [ctasks EXCEPT ![w] = Tail(ctasks[w])]
      /\ wpc' = [wpc EXCEPT ![w] = "run"]
      /\ w \in DOMAIN wtask /\ w \in DOMAIN ctasks /\ w \in DOMAIN wpc
  BY DEF Take, GetTask, TypeOK, QueueTypeOK, WorkerTypeOK
<1>2. /\ wtask'[w] = ctasks[w][1] /\ wpc'[w] = "run"
      /\ Len(ctasks'[w]) = Len(ctasks[w]) - 1 /\ Len(ctasks[w]) \in Nat \ {0}
      /\ \A i \in 1 .. Len(ctasks'[w]) : ctasks'[w][i] = ctasks[w][i + 1]
  BY <1>1
<1>3. ASSUME NEW i \in Slots(w)'
      PROVE  /\ i + 1 \in Slots(w) /\ TaskAt(w, i)' = TaskAt(w, i + 1)
             /\ Pending(w, i)' /\ i \in Nat
  <2>1. i \in 0 .. Len(ctasks'[w])
    BY <1>2, <1>3 DEF Slots
  <2>2. i + 1 \in 1 .. Len(ctasks[w])
    BY <1>2, <2>1
  <2> QED BY <1>1, <1>2, <2>1, <2>2 DEF Slots, TaskAt, Pending
<1>r. ASSUME NEW i \in Slots(w)
      PROVE  i - 1 \in Slots(w)' /\ TaskAt(w, i - 1)' = TaskAt(w, i)
  <2>1. i \in 1 .. Len(ctasks[w])
    BY <1>1, <1>2 DEF Slots
  <2>2. i - 1 \in Slots(w)'
    BY <1>2, <2>1 DEF Slots
  <2> QED BY <1>2, <1>3, <2>1, <2>2
<1>4. ASSUME NEW v \in Workers \ {w}
      PROVE  wpc'[v] = wpc[v] /\ wtask'[v] = wtask[v] /\ ctasks'[v] = ctasks[v]
  BY <1>1
<1>5. \A v \in Workers \ {w} :
        /\ Slots(v)' = Slots(v)
        /\ \A i \in Slots(v) : TaskAt(v, i)' = TaskAt(v, i) /\ Pending(v, i)' = Pending(v, i)
  BY <1>4 DEF Slots, TaskAt, Pending
<1> QED BY <1>1, <1>2, <1>3, <1>r, <1>4, <1>5 DEF Slots

(* add_task puts a task behind all others of some worker. *)
LEMMA SlotsMore ==
  ASSUME TypeOK, NEW kind \in Kinds, NEW c \in Clients, AddTask(kind, c), UNCHANGED wtask,
         \A w \in Workers : wpc'[w] = "idle" <=> wpc[w] = "idle"
  PROVE  \E v \in Workers : \E n \in Nat :
           /\ n > 0 /\ n \notin Slots(v) /\ n \in Slots(v)'
           /\ TaskAt(v, n)' = [kind |-> kind, client |-> c]
           /\ \A w \in Workers : \A i \in Slots(w) :
                i \in Slots(w)' /\ TaskAt(w, i)' = TaskAt(w, i) /\ (w = v => i < n)
           /\ \A w \in Workers : \A i \in Slots(w)' : i \in Slots(w) \/ (w = v /\ i = n)
<1> DEFINE t == [kind |-> kind, client |-> c]
<1>1. PICK v \in Workers : ctasks' = [ctasks EXCEPT ![v] = Append(@, t)]
  BY DEF AddTask
<1>2. ctasks[v] \in Seq(Tasks) /\ v \in DOMAIN ctasks /\ Len(ctasks[v]) \in Nat
  BY DEF TypeOK, QueueTypeOK
<1>n. PICK n \in Nat : n = Len(ctasks[v]) + 1
  BY <1>2
<1>t. t \in Tasks
  BY DEF Tasks
<1> HIDE DEF t
<1>3. /\ Len(ctasks'[v]) = n /\ ctasks'[v][n] = t
      /\ \A i \in 1 .. Len(ctasks[v]) : ctasks'[v][i] = ctasks[v][i]
      /\ \A w \in Workers \ {v} : ctasks'[w] = ctasks[w]
  BY <1>1, <1>2, <1>n, <1>t
<1>4. n \notin Slots(v) /\ n \in Slots(v)' /\ TaskAt(v, n)' = t
  <2>1. n \notin Slots(v) /\ n \in Slots(v)'
    BY <1>2, <1>3, <1>n DEF Slots
  <2>2. TaskAt(v, n)' = t
    BY <1>3, <1>n DEF TaskAt
  <2> QED BY <2>1, <2>2
<1>5. ASSUME NEW w \in Workers, NEW i \in Slots(w)
      PROVE  i \in Slots(w)' /\ TaskAt(w, i)' = TaskAt(w, i) /\ (w = v => i < n)
  <2>1. CASE w = v
    <3>1. i \in 0 .. Len(ctasks[v]) /\ (i = 0 => wpc[w] # "idle")
      BY <1>2, <2>1 DEF Slots
    <3> QED BY <1>2, <1>3, <1>n, <2>1, <3>1 DEF Slots, TaskAt
  <2>2. CASE w # v
    BY <1>3, <2>2 DEF Slots, TaskAt
  <2> QED BY <2>1, <2>2
<1>6. ASSUME NEW w \in Workers, NEW i \in Slots(w)'
      PROVE  i \in Slots(w) \/ (w = v /\ i = n)
  <2>1. CASE w = v
    BY <1>2, <1>3, <1>n, <2>1 DEF Slots
  <2>2. CASE w # v
    BY <1>3, <2>2 DEF Slots
  <2> QED BY <2>1, <2>2
<1> QED BY <1>2, <1>n, <1>4, <1>5, <1>6 DEF t

-----------------------------------------------------------------------------
(* The steps of a client and of its connection. *)

(* A request of c that is nowhere in the connection may be with the server. *)
LEMMA NotWithServer ==
  ASSUME TypeOK, SessionInv, NEW c \in Clients,
         ~Awaits(c) \/ req[c] # "none" \/ resp[c].kind # "none" \/ cq[c]
  PROVE  \A w \in Workers : \A i \in Slots(w) :
           TaskAt(w, i).client = c => TaskAt(w, i).kind = "PREFETCH"
BY DEF SessionInv, SlotOK

(* All that is known of the other clients stays as it is. *)
ElseSame(c) ==
  \A d \in Clients \ {c} :
    /\ cpc'[d] = cpc[d] /\ code'[d] = code[d] /\ req'[d] = req[d] /\ resp'[d] = resp[d]
    /\ cq'[d] = cq[d] /\ posted'[d] = posted[d] /\ cur'[d] = cur[d] /\ buf'[d] = buf[d]

(* A step that leaves the server alone concerns one client. *)
LEMMA ClientFrame ==
  ASSUME TypeOK, SessionInv, NEW c \in Clients, UNCHANGED <<ctasks, workerVars, sess>>,
         ElseSame(c), OneStage(c)' /\ LiveOK(c)',
         \A w \in Workers : \A i \in Slots(w) :
           TaskAt(w, i).client = c /\ TaskAt(w, i).kind # "PREFETCH" => SlotOK(w, i)'
  PROVE  SessionInv'
<1>1. ctasks' = ctasks /\ wpc' = wpc /\ wtask' = wtask /\ wres' = wres /\ sess' = sess
  BY DEF workerVars
<1>2. ASSUME NEW w \in Workers
      PROVE  /\ Slots(w)' = Slots(w)
             /\ \A i \in Slots(w) : /\ TaskAt(w, i)' = TaskAt(w, i)
                                    /\ Pending(w, i)' = Pending(w, i)
  BY <1>1 DEF Slots, TaskAt, Pending
<1>3. TokensApart'
  BY <1>2 DEF SessionInv, TokensApart
<1>4. ASSUME NEW d \in Clients
      PROVE  HasPrefetch(d)' = HasPrefetch(d) /\ Resumes(d)' = Resumes(d)
  BY <1>1, <1>2 DEF HasPrefetch, Resumes
<1>5. ASSUME NEW w \in Workers PROVE WorkerOK(w)'
  <2>1. CASE wpc[w] \in {"resume", "wait"}
    BY <1>1, <1>4, <2>1, HeldSlot DEF SessionInv, WorkerOK
  <2>2. CASE wpc[w] \notin {"resume", "wait"}
    BY <1>1, <2>2 DEF WorkerOK
  <2> QED BY <2>1, <2>2
<1>6. ASSUME NEW w \in Workers, NEW i \in Slots(w) PROVE SlotOK(w, i)'
  <2>1. TaskAt(w, i).client \in Clients /\ SlotOK(w, i)
    BY SlotTyping DEF SessionInv
  <2>2. CASE TaskAt(w, i).kind = "PREFETCH"
    BY <1>1, <1>2, <2>1, <2>2 DEF SlotOK
  <2>3. CASE TaskAt(w, i).client # c
    BY <1>1, <1>2, <2>1, <2>3 DEF SlotOK, Awaits, ElseSame
  <2> QED BY <2>2, <2>3
<1>7. ASSUME NEW d \in Clients \ {c} PROVE OneStage(d)' /\ LiveOK(d)'
  <2>1. OneStage(d) /\ LiveOK(d)
    BY DEF SessionInv
  <2> QED BY <1>1, <2>1 DEF OneStage, LiveOK, Awaits, ElseSame
<1>8. ASSUME NEW d \in Clients PROVE PrefetchDue(d)'
  BY <1>1, <1>4 DEF SessionInv, PrefetchDue
<1> QED BY <1>2, <1>3, <1>5, <1>6, <1>7, <1>8 DEF SessionInv

LEMMA ClientStepSession ==
  ASSUME TypeOK, BatchesFull, SessionInv, NEW c \in Clients, ClientStep(c)
  PROVE  SessionInv'
<1>0. OneStage(c) /\ LiveOK(c)
  BY DEF SessionInv
<1>t. /\ c \in DOMAIN cpc /\ c \in DOMAIN code /\ c \in DOMAIN req /\ c \in DOMAIN posted
      /\ c \in DOMAIN cq /\ c \in DOMAIN cur /\ c \in DOMAIN index /\ c \in DOMAIN buf
  BY DEF TypeOK, CursorTypeOK, ClientTypeOK, NetTypeOK
<1>q. ASSUME UNCHANGED <<ctasks, workerVars, sess>>, ElseSame(c), OneStage(c)' /\ LiveOK(c)',
             ~Awaits(c) \/ resp[c].kind # "none" \/ cq[c]
      PROVE  SessionInv'
  <2>1. \A w \in Workers : \A i \in Slots(w) :
          TaskAt(w, i).client = c => TaskAt(w, i).kind = "PREFETCH"
    BY <1>q, NotWithServer
  <2> QED BY <1>q, <2>1, ClientFrame
<1>1. ASSUME NEW n \in Totals, NEW m \in Passes(n), Find(c, n, m) PROVE SessionInv'
  <2>1. OneStage(c)' /\ LiveOK(c)'
    BY <1>0, <1>1, <1>t DEF Find, OneStage, LiveOK, Awaits, NoBuf, PacketBuf
  <2>2. ~Awaits(c) /\ ElseSame(c) /\ UNCHANGED <<ctasks, workerVars, sess>>
    BY <1>1 DEF Find, Awaits, ElseSame
  <2> QED BY <1>q, <2>1, <2>2
<1>2. CASE Update(c)
  <2>1. OneStage(c)' /\ LiveOK(c)'
    BY <1>0, <1>2, <1>t DEF Update, OneStage, LiveOK, Awaits, NoBuf, PacketBuf, cursorVars
  <2>2. ~Awaits(c) /\ ElseSame(c) /\ UNCHANGED <<ctasks, workerVars, sess>>
    BY <1>2 DEF Update, Awaits, ElseSame, cursorVars
  <2> QED BY <1>q, <2>1, <2>2
<1>3. CASE ExchangeDone(c)
  <2>1. OneStage(c)' /\ LiveOK(c)'
    BY <1>0, <1>3, <1>t
    DEF ExchangeDone, OneStage, LiveOK, Awaits, NoBuf, PacketBuf, cursorVars, netVars
  <2>2. cq[c] /\ ElseSame(c) /\ UNCHANGED <<ctasks, workerVars, sess>>
    BY <1>3 DEF ExchangeDone, ElseSame, cursorVars, netVars
  <2> QED BY <1>q, <2>1, <2>2
<1>4. CASE HReceive(c)
  <2>1. OneStage(c)' /\ LiveOK(c)'
    BY <1>0, <1>4, <1>t
    DEF HReceive, OneStage, LiveOK, Awaits, NoBuf, PacketBuf, cursorVars, netVars
  <2>2. cq[c] /\ ElseSame(c) /\ UNCHANGED <<ctasks, workerVars, sess>>
    BY <1>4 DEF HReceive, ElseSame, cursorVars, netVars
  <2> QED BY <1>q, <2>1, <2>2
<1>5. CASE Accept(c)
  <2>1. cur[c] \in 0 .. 1 /\ buf[c][cur[c]] \in Batches
    BY DEF TypeOK, CursorTypeOK
  <2>2. PICK b \in Batches : b = buf[c][cur[c]] /\ b.num \in 0 .. Cap /\ b.more \in BOOLEAN
    BY <2>1 DEF Batches
  <2>3. Flip(cur[c]) \in 0 .. 1
    BY <2>1, FlipTyping
  <2>4. /\ cpc[c] = "check" /\ cur' = [cur EXCEPT ![c] = Flip(@)] /\ buf' = buf
        /\ code' = [code EXCEPT ![c] = [num |-> b.num, more |-> b.more]]
        /\ cpc' = [cpc EXCEPT ![c] = IF b.num > 0 THEN "have" ELSE "idle"]
        /\ IF b.more THEN /\ req' = [req EXCEPT ![c] = "GETRANGE"]
                          /\ posted' = [posted EXCEPT ![c] = Flip(cur[c])]
                     ELSE UNCHANGED <<req, posted>>
        /\ UNCHANGED <<cq, resp, ctasks, workerVars, sess>>
    BY <1>5, <2>2 DEF Accept
  <2>5. ~Awaits(c) /\ ElseSame(c)
    <3>1. ~Awaits(c)
      BY <2>4 DEF Awaits
    <3>2. \A d \in Clients \ {c} : req'[d] = req[d] /\ posted'[d] = posted[d]
      <4>1. CASE b.more
        <5>1. /\ req' = [req EXCEPT ![c] = "GETRANGE"]
              /\ posted' = [posted EXCEPT ![c] = Flip(cur[c])]
          BY <2>4, <4>1
        <5> QED BY <5>1 DEF TypeOK, NetTypeOK, ClientTypeOK
      <4>2. CASE ~b.more
        BY <2>4, <4>2
      <4> QED BY <4>1, <4>2
    <3> QED BY <2>4, <3>1, <3>2 DEF ElseSame
  <2>6. b.more => b.num > 0
    BY <1>5, <2>1, <2>2 DEF Accept, Intact, BatchesFull, Full
  <2>7. OneStage(c)'
    BY <1>0, <1>t, <2>2, <2>3, <2>4, <2>6 DEF OneStage, Awaits, NoBuf, PacketBuf
  <2>8. LiveOK(c)'
    BY <1>0, <1>t, <2>2, <2>4, <2>6 DEF LiveOK, OneStage, Awaits
  <2> QED BY <1>q, <2>4, <2>5, <2>7, <2>8
<1>6. CASE Recheck(c)
  <2>1. OneStage(c)' /\ LiveOK(c)'
    BY <1>0, <1>6
    DEF Recheck, vars, clientVars, cursorVars, netVars, OneStage, LiveOK, Awaits
  <2>2. ~Awaits(c) /\ ElseSame(c) /\ UNCHANGED <<ctasks, workerVars, sess>>
    BY <1>6 DEF Recheck, Awaits, ElseSame, vars, clientVars, cursorVars, netVars
  <2> QED BY <1>q, <2>1, <2>2
<1>7. CASE NextItem(c)
  <2>1. OneStage(c)' /\ LiveOK(c)'
    BY <1>0, <1>7, <1>t DEF NextItem, OneStage, LiveOK, Awaits, netVars
  <2>2. ASSUME NEW w \in Workers, NEW i \in Slots(w),
               TaskAt(w, i).client = c, TaskAt(w, i).kind # "PREFETCH"
        PROVE  SlotOK(w, i)'
    <3>1. SlotOK(w, i) /\ TaskAt(w, i)' = TaskAt(w, i) /\ Pending(w, i)' = Pending(w, i)
      BY <1>7 DEF SessionInv, NextItem, TaskAt, Pending, workerVars
    <3> QED BY <1>7, <1>t, <2>2, <3>1 DEF NextItem, SlotOK, Awaits, netVars, workerVars
  <2>3. ElseSame(c) /\ UNCHANGED <<ctasks, workerVars, sess>>
    BY <1>7 DEF NextItem, ElseSame, netVars
  <2> QED BY <2>1, <2>2, <2>3, ClientFrame
<1> QED BY <1>1, <1>2, <1>3, <1>4, <1>5, <1>6, <1>7 DEF ClientStep

(* The reply lands in the buffer the cursor will look at. *)
LEMMA ArriveSession ==
  ASSUME TypeOK, HeadersOK, SessionInv, NEW c \in Clients, Arrive(c)
  PROVE  SessionInv'
<1> USE DEF TypeOK, CursorTypeOK, ClientTypeOK, NetTypeOK
<1>0. OneStage(c) /\ LiveOK(c)
  BY DEF SessionInv
<1>1. OneStage(c)'
  BY <1>0 DEF Arrive, OneStage, Awaits, NoBuf, PacketBuf, NoResp
<1>2. cpc[c] # "exchange" =>
        posted[c] = cur[c] /\ cur[c] \in 0 .. 1 /\ resp[c].kind \in {"RANGE", "GETRANGE"}
  <2>1. resp[c].kind \in Requests \cup {"none"}
    BY DEF Replies
  <2> QED BY <1>0, <2>1 DEF Arrive, OneStage, NoBuf, PacketBuf, Requests
<1>3. cpc[c] # "exchange" => buf'[c][cur'[c]].more = resp[c].res.more
  <2> SUFFICES ASSUME cpc[c] # "exchange" PROVE buf'[c][cur'[c]].more = resp[c].res.more
    OBVIOUS
  <2>1. resp[c].res \in Batches
    BY DEF Replies
  <2>2. buf'[c][cur'[c]] = Landed(buf[c][cur[c]], resp[c].res, resp[c].size)
    BY <1>2 DEF Arrive, NoBuf, PacketBuf
  <2>3. resp[c].size # 0
    BY <1>2 DEF HeadersOK
  <2> QED BY <2>1, <2>2, <2>3 DEF Landed, Batches
<1>4. LiveOK(c)'
  <2>1. cpc[c] \notin {"check", "idle"} /\ (cpc[c] = "have" => code[c].more)
    BY <1>0 DEF Arrive, OneStage, Awaits
  <2> QED BY <1>0, <1>2, <1>3, <2>1 DEF Arrive, LiveOK, NoResp
<1>5. ElseSame(c) /\ UNCHANGED <<ctasks, workerVars, sess>> /\ resp[c].kind # "none"
  BY DEF Arrive, ElseSame
<1>6. \A w \in Workers : \A i \in Slots(w) :
        TaskAt(w, i).client = c => TaskAt(w, i).kind = "PREFETCH"
  BY <1>5, NotWithServer
<1> HIDE DEF TypeOK
<1> QED BY <1>1, <1>4, <1>5, <1>6, ClientFrame

(* Every batch comes from get_items. *)
LEMMA GetItemsFull ==
  ASSUME NEW n \in Ranges, NEW pos \in Nat, pos <= n
  PROVE  Full(GetItems(n, pos))
<1>1. n \in Nat /\ Cap \in Nat \ {0}
  BY RangesTyping, CapAssumption
<1>2. /\ GetItems(n, pos).num = Advance(n, pos) - pos
      /\ GetItems(n, pos).more = More(n, pos + (Advance(n, pos) - pos))
  BY DEF GetItems
<1> SUFFICES ASSUME GetItems(n, pos).more PROVE GetItems(n, pos).num > 0
  BY DEF Full
<1>3. pos + (Advance(n, pos) - pos) < n
  BY <1>2 DEF More
<1> QED BY <1>1, <1>2, <1>3 DEF Advance, MinOf

LEMMA BatchesFullStep ==
  ASSUME TypeOK, BatchesFull, [Next]_vars
  PROVE  BatchesFull'
<1>b. Full(Blank) /\ Full(NoResp.res) /\ Full(NoSession.res)
  BY DEF Full, Blank, NoResp, NoSession
<1>0. ASSUME NEW c \in Clients, NEW n \in Totals, NEW m \in Passes(n), Find(c, n, m)
      PROVE  BatchesFull'
  <2>1. PICK first \in {Blank, buf[c][0], buf[c][1]}, second \in {Blank, buf[c][0], buf[c][1]} :
          buf' = [buf EXCEPT ![c] = [i \in 0 .. 1 |-> IF i = 0 THEN Cleared(first) ELSE second]]
    BY <1>0 DEF Find
  <2>2. first \in Batches /\ Full(second)
    BY <1>b, BlankTyping DEF TypeOK, CursorTypeOK, BatchesFull
  <2>3. Full(Cleared(first))
    BY <2>2 DEF Full, Cleared, Batches
  <2>4. \A d \in Clients : \A i \in 0 .. 1 :
          buf'[d][i] = buf[d][i] \/ buf'[d][i] = Cleared(first) \/ buf'[d][i] = second
    BY <2>1 DEF TypeOK, CursorTypeOK
  <2> QED BY <1>0, <2>2, <2>3, <2>4 DEF Find, BatchesFull, workerVars
<1>1. ASSUME NEW c \in Clients, ClientStep(c) PROVE BatchesFull'
  BY <1>0, <1>1 DEF ClientStep, Update, ExchangeDone, HReceive, Accept, Recheck, NextItem,
              BatchesFull, cursorVars, netVars, workerVars, vars, clientVars
<1>2. ASSUME NEW c \in Clients, Arrive(c) PROVE BatchesFull'
  <2>1. \A i \in 0 .. 1 : Full(Landed(buf[c][i], resp[c].res, resp[c].size))
    <3>1. Full(resp[c].res) /\ resp[c].res \in Batches
      BY DEF BatchesFull, TypeOK, NetTypeOK, Replies
    <3>2. ASSUME NEW i \in 0 .. 1, Full(buf[c][i])
          PROVE  Full(Landed(buf[c][i], resp[c].res, resp[c].size))
      <4>1. CASE resp[c].size = 0
        BY <3>2, <4>1 DEF Landed
      <4>2. CASE resp[c].size # 0
        <5>1. /\ Landed(buf[c][i], resp[c].res, resp[c].size).more = resp[c].res.more
              /\ Landed(buf[c][i], resp[c].res, resp[c].size).num = resp[c].res.num
              /\ Landed(buf[c][i], resp[c].res, resp[c].size).filled = resp[c].res.filled
          BY <3>1, <4>2 DEF Landed, Batches
        <5> QED BY <3>1, <5>1 DEF Full
      <4> QED BY <4>1, <4>2
    <3> QED BY <3>2 DEF BatchesFull
  <2>2. posted[c] # PacketBuf => posted[c] \in 0 .. 1
    BY <1>2 DEF Arrive, TypeOK, ClientTypeOK, NoBuf, PacketBuf
  <2>3. \A d \in Clients : \A i \in 0 .. 1 :
          buf'[d][i] = buf[d][i] \/ (d = c /\ buf'[d][i] = Landed(buf[d][i], resp[c].res, resp[c].size))
    <3>1. CASE posted[c] = PacketBuf
      BY <1>2, <3>1 DEF Arrive
    <3>2. CASE posted[c] # PacketBuf
      BY <1>2, <2>2, <3>2 DEF Arrive, TypeOK, CursorTypeOK
    <3> QED BY <3>1, <3>2
  <2>4. \A d \in Clients : resp'[d] = resp[d] \/ resp'[d] = NoResp
    BY <1>2 DEF Arrive, TypeOK, NetTypeOK
  <2>5. UNCHANGED <<wres, sess>>
    BY <1>2 DEF Arrive, workerVars
  <2> QED BY <1>b, <2>1, <2>3, <2>4, <2>5 DEF BatchesFull
<1>3. ASSUME NEW c \in Clients, Poll(c) PROVE BatchesFull'
  BY <1>3 DEF Poll, BatchesFull, clientVars, cursorVars, workerVars
<1>4. ASSUME NEW w \in Workers, WorkerStep(w) PROVE BatchesFull'
  <2> USE DEF BatchesFull, clientVars, cursorVars, netVars
  <2>1. CASE Take(w) \/ DoUpdate(w) \/ WaitBatch(w) \/ ReadSize(w)
    BY <2>1 DEF Take, GetTask, DoUpdate, WaitBatch, ReadSize
  <2>2. CASE OpenRange(w)
    <3> DEFINE c == wtask[w].client
    <3>1. Full(GetItems(total[c], 0))
      <4>1. c \in Clients /\ total[c] \in Ranges
        BY <2>2, HeldSlot DEF OpenRange, Run, TypeOK, CursorTypeOK
      <4> QED BY <4>1, RangesTyping, GetItemsFull
    <3>2. \A v \in Workers : wres'[v] = wres[v] \/ wres'[v] = GetItems(total[c], 0)
      BY <2>2 DEF OpenRange, TypeOK, WorkerTypeOK
    <3>3. \A d \in Clients : sess'[d] = sess[d] \/ sess'[d].res = NoSession.res
      <4>1. CASE GetItems(total[c], 0).more
        <5>1. sess' = [sess EXCEPT ![c] = [NoSession EXCEPT !.live = TRUE, !.n = total[c],
                                             !.pos = GetItems(total[c], 0).num]]
          BY <2>2, <4>1 DEF OpenRange
        <5> QED BY <5>1 DEF TypeOK, SessTypeOK, NoSession
      <4>2. CASE ~GetItems(total[c], 0).more
        BY <2>2, <4>2 DEF OpenRange
      <4> QED BY <4>1, <4>2
    <3> QED BY <1>b, <2>2, <3>1, <3>2, <3>3 DEF OpenRange
  <2>3. CASE TakeBatch(w)
    <3>1. wtask[w].client \in Clients
      BY <2>3, HeldSlot DEF TakeBatch, Run
    <3>2. \A v \in Workers : wres'[v] = wres[v] \/ wres'[v] = sess[wtask[w].client].res
      BY <2>3 DEF TakeBatch, TypeOK, WorkerTypeOK
    <3>3. \A d \in Clients : sess'[d].res = sess[d].res \/ sess'[d].res = wres[w]
      BY <2>3 DEF TakeBatch, TypeOK, SessTypeOK, Sessions
    <3> QED BY <2>3, <3>1, <3>2, <3>3 DEF TakeBatch
  <2>4. CASE Resume(w)
    <3>1. \A d \in Clients : sess'[d].res = sess[d].res
      BY <2>4 DEF Resume, Delete, TypeOK, SessTypeOK, Sessions
    <3> QED BY <2>4, <3>1 DEF Resume
  <2>5. CASE Reply(w)
    <3>1. \A d \in Clients : resp'[d] = resp[d] \/ resp'[d].res = wres[w]
      BY <2>5 DEF Reply, TypeOK, NetTypeOK
    <3>2. \A v \in Workers : wres'[v] = wres[v] \/ wres'[v] = Blank
      BY <2>5 DEF Reply, TypeOK, WorkerTypeOK
    <3> QED BY <1>b, <2>5, <3>1, <3>2 DEF Reply
  <2>6. CASE Prefetch(w)
    <3> DEFINE c == wtask[w].client
               batch == GetItems(sess[c].n, sess[c].pos)
    <3>1. c \in Clients /\ sess[c] \in Sessions /\ sess[c].pos <= sess[c].n
      BY <2>6, HeldSlot DEF Prefetch, Run, TypeOK, SessTypeOK
    <3>2. Full(batch)
      BY <3>1, GetItemsFull DEF Sessions
    <3> HIDE DEF batch
    <3>3. \A d \in Clients : sess'[d] = sess[d] \/ sess'[d].res = batch
      BY <2>6 DEF Prefetch, TypeOK, SessTypeOK, Sessions, batch
    <3> QED BY <2>6, <3>2, <3>3 DEF Prefetch
  <2> QED BY <1>4, <2>1, <2>2, <2>3, <2>4, <2>5, <2>6 DEF WorkerStep
<1>5. CASE UNCHANGED vars
  BY <1>5 DEF vars, clientVars, cursorVars, netVars, workerVars, BatchesFull
<1> QED BY <1>1, <1>2, <1>3, <1>4, <1>5 DEF Next

-----------------------------------------------------------------------------
(* The steps of the server. *)

(* Nobody else has the token of the task in hand. *)
LEMMA HeldAlone ==
  ASSUME TypeOK, SessionInv, NEW w \in Workers, wpc[w] # "idle"
  PROVE  /\ SlotOK(w, 0)
         /\ \A v \in Workers : \A i \in Slots(v) :
              SameToken(TaskAt(v, i), wtask[w]) => v = w /\ i = 0
         /\ \A v \in Workers \ {w} :
              wpc[v] # "idle" => ~SameToken(wtask[v], wtask[w])
<1>1. 0 \in Slots(w) /\ TaskAt(w, 0) = wtask[w]
  BY HeldSlot
<1>2. \A v \in Workers : \A i \in Slots(v) :
        SameToken(TaskAt(v, i), wtask[w]) => v = w /\ i = 0
  BY <1>1 DEF SessionInv, TokensApart
<1>3. \A v \in Workers \ {w} : wpc[v] # "idle" => 0 \in Slots(v) /\ TaskAt(v, 0) = wtask[v]
  BY HeldSlot
<1> QED BY <1>1, <1>2, <1>3 DEF SessionInv

LEMMA TokensLess ==
  ASSUME TokensApart,
         \A w \in Workers : \A i \in Slots(w)' : i \in Slots(w) /\ TaskAt(w, i)' = TaskAt(w, i)
  PROVE  TokensApart'
BY DEF TokensApart

LEMMA TokensMore ==
  ASSUME TypeOK, TokensApart, NEW kind \in Kinds, NEW c \in Clients, AddTask(kind, c),
         UNCHANGED wtask, \A w \in Workers : wpc'[w] = "idle" <=> wpc[w] = "idle",
         \A w \in Workers : \A i \in Slots(w) :
           ~SameToken(TaskAt(w, i), [kind |-> kind, client |-> c])
  PROVE  TokensApart'
<1>1. PICK v \in Workers, n \in Nat :
        /\ TaskAt(v, n)' = [kind |-> kind, client |-> c]
        /\ \A w \in Workers : \A i \in Slots(w) :
             i \in Slots(w)' /\ TaskAt(w, i)' = TaskAt(w, i)
        /\ \A w \in Workers : \A i \in Slots(w)' : i \in Slots(w) \/ (w = v /\ i = n)
  BY SlotsMore
<1>2. \A w \in Workers : \A i \in Slots(w) :
        ~SameToken([kind |-> kind, client |-> c], TaskAt(w, i))
  BY DEF SameToken
<1> QED BY <1>1, <1>2 DEF TokensApart

(* A step of the server for client c says nothing of the other clients. *)
LEMMA ServerFrame ==
  ASSUME SessionInv, NEW c \in Clients, UNCHANGED <<clientVars, req>>,
         \A d \in Clients \ {c} : sess'[d] = sess[d] /\ resp'[d] = resp[d]
  PROVE  \A d \in Clients \ {c} : OneStage(d)' /\ LiveOK(d)'
<1> SUFFICES ASSUME NEW d \in Clients \ {c} PROVE OneStage(d)' /\ LiveOK(d)'
  OBVIOUS
<1>1. OneStage(d) /\ LiveOK(d)
  BY DEF SessionInv
<1> QED BY <1>1 DEF OneStage, LiveOK, Awaits, clientVars, cursorVars

LEMMA SlotFrame ==
  ASSUME UNCHANGED <<clientVars, req>>, NEW v \in Workers, NEW i \in Slots(v), SlotOK(v, i),
         TaskAt(v, i)' = TaskAt(v, i), Pending(v, i)' = Pending(v, i),
         Pending(v, i) \/ wres'[v] = wres[v],
         sess'[TaskAt(v, i).client] = sess[TaskAt(v, i).client],
         resp'[TaskAt(v, i).client] = resp[TaskAt(v, i).client]
  PROVE  SlotOK(v, i)'
BY DEF SlotOK, Awaits, clientVars, cursorVars

LEMMA PollSession ==
  ASSUME TypeOK, SessionInv, NEW c \in Clients, Poll(c)
  PROVE  SessionInv'
<1>1. /\ req[c] # "none" /\ AddTask(req[c], c) /\ req' = [req EXCEPT ![c] = "none"]
      /\ UNCHANGED <<clientVars, resp, workerVars, sess>>
      /\ wpc' = wpc /\ wtask' = wtask /\ wres' = wres /\ sess' = sess /\ resp' = resp
  BY DEF Poll, workerVars
<1>2. req[c] \in Requests /\ req[c] \in Kinds /\ req \in [Clients -> Requests \cup {"none"}]
  BY <1>1 DEF TypeOK, NetTypeOK, Kinds
<1>3. PICK k \in Requests : k = req[c]
  BY <1>2
<1>4. PICK v \in Workers, n \in Nat :
        /\ n > 0 /\ TaskAt(v, n)' = [kind |-> k, client |-> c]
        /\ \A w \in Workers : \A i \in Slots(w) :
             i \in Slots(w)' /\ TaskAt(w, i)' = TaskAt(w, i)
        /\ \A w \in Workers : \A i \in Slots(w)' : i \in Slots(w) \/ (w = v /\ i = n)
  BY <1>1, <1>2, <1>3, SlotsMore
<1>5. k # "PREFETCH"
  BY DEF Requests
<1>6. \A w \in Workers : \A i \in Slots(w) :
        TaskAt(w, i).client = c => TaskAt(w, i).kind = "PREFETCH"
  BY <1>1, NotWithServer
<1>7. TokensApart'
  <2>1. \A w \in Workers : \A i \in Slots(w) :
          ~SameToken(TaskAt(w, i), [kind |-> k, client |-> c])
    BY <1>5, <1>6 DEF SameToken
  <2> QED BY <1>1, <1>2, <1>3, <2>1, TokensMore DEF SessionInv
<1>8. ASSUME NEW d \in Clients
      PROVE  HasPrefetch(d)' = HasPrefetch(d) /\ Resumes(d)' = Resumes(d)
  BY <1>1, <1>4, <1>5 DEF HasPrefetch, Resumes
<1>9. ASSUME NEW w \in Workers PROVE WorkerOK(w)'
  <2>1. CASE wpc[w] \in {"resume", "wait"}
    BY <1>1, <1>8, <2>1, HeldSlot DEF SessionInv, WorkerOK
  <2>2. CASE wpc[w] \notin {"resume", "wait"}
    BY <1>1, <2>2 DEF WorkerOK
  <2> QED BY <2>1, <2>2
<1>10. ASSUME NEW w \in Workers, NEW i \in Slots(w)' PROVE SlotOK(w, i)'
  <2>1. CASE i \in Slots(w)
    <3>1. SlotOK(w, i) /\ TaskAt(w, i)' = TaskAt(w, i) /\ Pending(w, i)' = Pending(w, i)
          /\ TaskAt(w, i).client \in Clients
      BY <1>1, <1>4, <2>1, SlotTyping DEF SessionInv, Pending
    <3>2. CASE TaskAt(w, i).client = c
      BY <1>1, <1>6, <2>1, <3>1, <3>2 DEF SlotOK
    <3>3. CASE TaskAt(w, i).client # c
      BY <1>1, <1>2, <3>1, <3>3 DEF SlotOK, Awaits, clientVars, cursorVars
    <3> QED BY <3>2, <3>3
  <2>2. CASE w = v /\ i = n
    <3>1. OneStage(c) /\ LiveOK(c)
      BY DEF SessionInv
    <3>2. TaskAt(w, i)' = [kind |-> k, client |-> c] /\ Pending(w, i)'
      BY <1>4, <2>2 DEF Pending
    <3> QED BY <1>1, <1>2, <1>3, <1>5, <3>1, <3>2
            DEF SlotOK, OneStage, LiveOK, Awaits, clientVars, cursorVars
  <2> QED BY <1>4, <2>1, <2>2
<1>11. ASSUME NEW d \in Clients PROVE OneStage(d)' /\ LiveOK(d)' /\ PrefetchDue(d)'
  <2>1. OneStage(d) /\ LiveOK(d) /\ PrefetchDue(d)
    BY DEF SessionInv
  <2>2. req'[d] = req[d] \/ req'[d] = "none"
    BY <1>1, <1>2
  <2>3. OneStage(d)' /\ LiveOK(d)'
    BY <1>1, <2>1, <2>2 DEF OneStage, LiveOK, Awaits, clientVars, cursorVars
  <2> QED BY <1>1, <1>8, <2>1, <2>3 DEF PrefetchDue
<1> QED BY <1>7, <1>9, <1>10, <1>11 DEF SessionInv

LEMMA TakeSession ==
  ASSUME TypeOK, SessionInv, NEW w \in Workers, Take(w)
  PROVE  SessionInv'
<1>1. /\ UNCHANGED <<clientVars, netVars, wres, wsize, sess>> /\ wpc[w] = "idle"
      /\ req' = req /\ resp' = resp /\ sess' = sess /\ wres' = wres /\ wpc'[w] = "run"
  BY DEF Take, netVars, TypeOK, WorkerTypeOK
<1>2. /\ \A i \in Slots(w)' : /\ i + 1 \in Slots(w) /\ TaskAt(w, i)' = TaskAt(w, i + 1)
                              /\ Pending(w, i)' /\ i \in Nat
      /\ \A i \in Slots(w) : i - 1 \in Slots(w)' /\ TaskAt(w, i - 1)' = TaskAt(w, i)
      /\ \A v \in Workers \ {w} :
           /\ Slots(v)' = Slots(v)
           /\ \A i \in Slots(v) : TaskAt(v, i)' = TaskAt(v, i) /\ Pending(v, i)' = Pending(v, i)
      /\ \A v \in Workers \ {w} : wpc'[v] = wpc[v] /\ wtask'[v] = wtask[v]
      /\ \A i \in Slots(w) : i > 0
  BY SlotsTake
<1>3. TokensApart'
  <2> SUFFICES ASSUME NEW u \in Workers, NEW v \in Workers, NEW i \in Slots(u)', NEW j \in Slots(v)',
                      SameToken(TaskAt(u, i)', TaskAt(v, j)')
               PROVE  u = v /\ i = j
    BY DEF TokensApart
  <2>1. TokensApart
    BY DEF SessionInv
  <2>2. CASE u = w /\ v = w
    <3>1. i + 1 = j + 1
      BY <1>2, <2>1, <2>2 DEF TokensApart
    <3>2. i \in Nat /\ j \in Nat
      BY <1>2, <2>2
    <3> QED BY <2>2, <3>1, <3>2
  <2>3. CASE u = w /\ v # w
    BY <1>2, <2>1, <2>3 DEF TokensApart
  <2>4. CASE u # w /\ v = w
    BY <1>2, <2>1, <2>4 DEF TokensApart
  <2>5. CASE u # w /\ v # w
    BY <1>2, <2>1, <2>5 DEF TokensApart
  <2> QED BY <2>2, <2>3, <2>4, <2>5
<1>4. ASSUME NEW d \in Clients
      PROVE  HasPrefetch(d)' = HasPrefetch(d) /\ Resumes(d)' = Resumes(d)
  <2>1. HasPrefetch(d)' => HasPrefetch(d)
    BY <1>2 DEF HasPrefetch
  <2>2. HasPrefetch(d) => HasPrefetch(d)'
    BY <1>2 DEF HasPrefetch
  <2>3. Resumes(d)' = Resumes(d)
    BY <1>1, <1>2 DEF Resumes
  <2> QED BY <2>1, <2>2, <2>3 DEF HasPrefetch
<1>5. ASSUME NEW v \in Workers PROVE WorkerOK(v)'
  <2>1. CASE v = w
    BY <1>1, <2>1 DEF WorkerOK
  <2>2. CASE v # w /\ wpc[v] \in {"resume", "wait"}
    BY <1>1, <1>2, <1>4, <2>2, HeldSlot DEF SessionInv, WorkerOK
  <2>3. CASE v # w /\ wpc[v] \notin {"resume", "wait"}
    BY <1>2, <2>3 DEF WorkerOK
  <2> QED BY <2>1, <2>2, <2>3
<1>6. ASSUME NEW v \in Workers, NEW i \in Slots(v)' PROVE SlotOK(v, i)'
  <2>1. CASE v = w
    <3>1. SlotOK(w, i + 1) /\ Pending(w, i + 1) /\ Pending(w, i)'
          /\ TaskAt(w, i)' = TaskAt(w, i + 1)
      BY <1>2, <2>1 DEF SessionInv, Pending
    <3> QED BY <1>1, <2>1, <3>1 DEF SlotOK, Awaits, clientVars, cursorVars
  <2>2. CASE v # w
    BY <1>1, <1>2, <2>2, SlotFrame DEF SessionInv
  <2> QED BY <2>1, <2>2
<1>7. ASSUME NEW d \in Clients PROVE OneStage(d)' /\ LiveOK(d)' /\ PrefetchDue(d)'
  <2>1. OneStage(d) /\ LiveOK(d) /\ PrefetchDue(d)
    BY DEF SessionInv
  <2>2. OneStage(d)' /\ LiveOK(d)'
    BY <1>1, <2>1 DEF OneStage, LiveOK, Awaits, clientVars, cursorVars
  <2> QED BY <1>1, <1>4, <2>1, <2>2 DEF PrefetchDue
<1> QED BY <1>3, <1>5, <1>6, <1>7 DEF SessionInv

(* A worker that goes on with its task without touching its client's        *)
(* range_ptr.                                                              *)
LEMMA PcFrame ==
  ASSUME TypeOK, SessionInv, NEW w \in Workers, wpc[w] # "idle",
         UNCHANGED <<clientVars, req, resp, ctasks, wtask, wres, sess>>,
         wpc' = [wpc EXCEPT ![w] = wpc'[w]], wpc'[w] \notin {"idle", "resume"}, wpc[w] # "resume",
         wpc'[w] = "wait" => ~sess[wtask[w].client].hasItems,
         SlotOK(w, 0)'
  PROVE  SessionInv'
<1>1. /\ \A v \in Workers \ {w} : wpc'[v] = wpc[v]
      /\ req' = req /\ resp' = resp
  BY DEF TypeOK, WorkerTypeOK
<1>2. \A v \in Workers : /\ Slots(v)' = Slots(v)
                         /\ \A i \in Slots(v) : TaskAt(v, i)' = TaskAt(v, i)
  BY <1>1, SlotsSame
<1>3. TokensApart'
  BY <1>2, TokensLess DEF SessionInv
<1>4. ASSUME NEW d \in Clients
      PROVE  HasPrefetch(d)' = HasPrefetch(d) /\ Resumes(d)' = Resumes(d)
  BY <1>1, <1>2 DEF HasPrefetch, Resumes
<1>5. ASSUME NEW v \in Workers PROVE WorkerOK(v)'
  <2>1. CASE v = w
    BY <2>1 DEF WorkerOK
  <2>2. CASE v # w /\ wpc[v] \in {"resume", "wait"}
    BY <1>1, <1>4, <2>2, HeldSlot DEF SessionInv, WorkerOK
  <2>3. CASE v # w /\ wpc[v] \notin {"resume", "wait"}
    BY <1>1, <2>3 DEF WorkerOK
  <2> QED BY <2>1, <2>2, <2>3
<1>6. ASSUME NEW v \in Workers, NEW i \in Slots(v)' PROVE SlotOK(v, i)'
  <2>1. i \in Slots(v) /\ SlotOK(v, i) /\ i \in Nat
    BY <1>2, SlotTyping DEF SessionInv
  <2>2. CASE v = w /\ i = 0
    BY <2>2
  <2>3. CASE v # w \/ i # 0
    <3>1. Pending(v, i)' = Pending(v, i)
      BY <1>1, <2>1, <2>3 DEF Pending
    <3> QED BY <1>1, <1>2, <2>1, <3>1, SlotFrame
  <2> QED BY <2>2, <2>3
<1>7. ASSUME NEW d \in Clients PROVE OneStage(d)' /\ LiveOK(d)' /\ PrefetchDue(d)'
  <2>1. OneStage(d) /\ LiveOK(d) /\ PrefetchDue(d)
    BY DEF SessionInv
  <2>2. OneStage(d)' /\ LiveOK(d)'
    BY <1>1, <2>1 DEF OneStage, LiveOK, Awaits, clientVars, cursorVars
  <2> QED BY <1>4, <2>1, <2>2 DEF PrefetchDue
<1> QED BY <1>3, <1>5, <1>6, <1>7 DEF SessionInv

LEMMA PcStepSession ==
  ASSUME TypeOK, SessionInv, NEW w \in Workers, DoUpdate(w) \/ WaitBatch(w) \/ ReadSize(w)
  PROVE  SessionInv'
<1>1. /\ wpc[w] \in {"run", "size"} /\ wpc'[w] \in {"wait", "reply"}
      /\ wpc' = [wpc EXCEPT ![w] = wpc'[w]]
      /\ UNCHANGED <<clientVars, req, resp, ctasks, wtask, wres, sess>>
  BY DEF DoUpdate, WaitBatch, ReadSize, Run, netVars, TypeOK, WorkerTypeOK
<1>2. SlotOK(w, 0) /\ 0 \in Slots(w) /\ TaskAt(w, 0) = wtask[w] /\ TaskAt(w, 0)' = wtask[w]
  BY <1>1, HeldAlone, HeldSlot DEF TaskAt
<1>3. Pending(w, 0) <=> wpc[w] = "run"
  BY <1>1 DEF Pending
<1>4. Pending(w, 0)' <=> wpc'[w] = "wait"
  BY <1>1 DEF Pending
<1>5. SlotOK(w, 0)'
  <2>1. CASE DoUpdate(w)
    <3>1. wtask[w].kind = "UPDATE"
      BY <2>1 DEF DoUpdate, Run
    <3> QED BY <1>1, <1>2, <3>1 DEF SlotOK, Awaits, clientVars, cursorVars, netVars
  <2>2. CASE WaitBatch(w)
    <3>1. wtask[w].kind = "GETRANGE" /\ wpc[w] = "run" /\ wpc'[w] = "wait"
      BY <2>2 DEF WaitBatch, Run, TypeOK, WorkerTypeOK
    <3> QED BY <1>1, <1>2, <1>3, <1>4, <3>1 DEF SlotOK, Awaits, clientVars, cursorVars, netVars
  <2>3. CASE ReadSize(w)
    <3>1. wtask[w].kind = "GETRANGE" /\ wpc[w] = "size" /\ wpc'[w] = "reply"
      BY <2>3 DEF ReadSize, TypeOK, WorkerTypeOK
    <3> QED BY <1>1, <1>2, <1>3, <1>4, <3>1 DEF SlotOK, Awaits, clientVars, cursorVars, netVars
  <2> QED BY <2>1, <2>2, <2>3
<1>6. wpc'[w] = "wait" => ~sess[wtask[w].client].hasItems
  BY DEF DoUpdate, WaitBatch, ReadSize, Run, TypeOK, WorkerTypeOK
<1> QED BY <1>1, <1>5, <1>6, PcFrame

LEMMA TakeBatchSession ==
  ASSUME TypeOK, SessionInv, NEW w \in Workers, TakeBatch(w)
  PROVE  SessionInv'
<1>1. /\ wpc[w] = "run" /\ wpc'[w] = "resume" /\ wtask[w].kind = "GETRANGE"
      /\ \A v \in Workers \ {w} : wpc'[v] = wpc[v] /\ wres'[v] = wres[v]
      /\ UNCHANGED <<clientVars, netVars, ctasks, wtask>> /\ req' = req /\ resp' = resp
      /\ wtask' = wtask
  BY DEF TakeBatch, Run, netVars, TypeOK, WorkerTypeOK
<1>2. PICK c \in Clients : c = wtask[w].client
  BY <1>1, HeldSlot
<1>3. /\ sess[c].hasItems /\ wres'[w] = sess[c].res
      /\ sess'[c] = [sess[c] EXCEPT !.hasItems = FALSE, !.res = wres[w]]
      /\ \A d \in Clients \ {c} : sess'[d] = sess[d]
  BY <1>2 DEF TakeBatch, TypeOK, SessTypeOK, WorkerTypeOK
<1>4. sess'[c].live = sess[c].live /\ ~sess'[c].hasItems
      /\ sess'[c].n = sess[c].n /\ sess'[c].pos = sess[c].pos
  BY <1>3 DEF TypeOK, SessTypeOK, Sessions
<1>5. /\ SlotOK(w, 0) /\ TaskAt(w, 0) = wtask[w] /\ 0 \in Slots(w) /\ Pending(w, 0)
      /\ sess[c].live /\ resp[c].kind = "none"
  BY <1>1, <1>2, HeldAlone, HeldSlot DEF SlotOK
<1>6. \A v \in Workers : /\ Slots(v)' = Slots(v)
                         /\ \A i \in Slots(v) : TaskAt(v, i)' = TaskAt(v, i)
                                                /\ Pending(v, i)' = Pending(v, i)
  <2>1. \A v \in Workers : wpc'[v] = "idle" <=> wpc[v] = "idle"
    BY <1>1
  <2>2. \A v \in Workers : \A i \in Slots(v) : Pending(v, i)' = Pending(v, i)
    BY <1>1 DEF Pending
  <2> QED BY <1>1, <2>1, <2>2, SlotsSame
<1>7. TokensApart'
  BY <1>6, TokensLess DEF SessionInv
<1>8. ASSUME NEW d \in Clients
      PROVE  /\ HasPrefetch(d)' = HasPrefetch(d)
             /\ d # c => Resumes(d)' = Resumes(d)
  BY <1>1, <1>2, <1>6 DEF HasPrefetch, Resumes
<1>9. ~HasPrefetch(c) /\ Resumes(c)'
  <2>1. ~HasPrefetch(c)
    BY <1>3 DEF HasPrefetch, SessionInv, SlotOK
  <2> QED BY <1>1, <1>2, <2>1 DEF Resumes
<1>10. ASSUME NEW v \in Workers PROVE WorkerOK(v)'
  <2>1. CASE v = w
    <3>1. sess[c].res.more = More(sess[c].n, sess[c].pos)
      BY <1>3, <1>5 DEF SessionInv, LiveOK
    <3>2. wres'[w].more = More(sess'[c].n, sess'[c].pos)
      BY <1>3, <1>4, <3>1
    <3>3. ~HasPrefetch(c)' /\ wtask'[w].client = c
      BY <1>1, <1>2, <1>8, <1>9
    <3> QED BY <1>1, <1>4, <2>1, <3>2, <3>3 DEF WorkerOK
  <2>2. CASE v # w /\ wpc[v] \in {"resume", "wait"}
    <3>1. wtask[v].kind = "GETRANGE" /\ wtask[v].client \in Clients
      BY <2>2, HeldSlot DEF TypeOK, WorkerTypeOK
    <3>2. wtask[v].client # c
      BY <1>1, <1>2, <2>2, <3>1, HeldAlone DEF SameToken
    <3> QED BY <1>1, <1>3, <1>8, <2>2, <3>1, <3>2 DEF SessionInv, WorkerOK
  <2>3. CASE v # w /\ wpc[v] \notin {"resume", "wait"}
    BY <1>1, <2>3 DEF WorkerOK
  <2> QED BY <2>1, <2>2, <2>3
<1>11. ASSUME NEW v \in Workers, NEW i \in Slots(v)' PROVE SlotOK(v, i)'
  <2>1. i \in Slots(v) /\ SlotOK(v, i) /\ TaskAt(v, i).client \in Clients
    BY <1>6, SlotTyping DEF SessionInv
  <2>2. CASE v = w /\ i = 0
    BY <1>1, <1>2, <1>4, <1>5, <1>6, <2>2 DEF SlotOK, Awaits, clientVars, cursorVars
  <2>3. CASE (v # w \/ i # 0) /\ TaskAt(v, i).client = c
    <3>1. TaskAt(v, i).kind = "PREFETCH"
      BY <1>1, <1>2, <2>1, <2>3, HeldAlone DEF SameToken
    <3> QED BY <1>9, <2>1, <2>3, <3>1 DEF HasPrefetch
  <2>4. CASE TaskAt(v, i).client # c
    <3>1. v = w => Pending(v, i)
      <4>1. CASE v = w
        BY <1>1, <2>1, <4>1, SlotTyping
      <4> QED BY <4>1
    <3> QED BY <1>1, <1>3, <1>6, <2>1, <2>4, <3>1, SlotFrame
  <2> QED BY <2>2, <2>3, <2>4
<1>12. ASSUME NEW d \in Clients PROVE OneStage(d)' /\ LiveOK(d)' /\ PrefetchDue(d)'
  <2>1. OneStage(d) /\ LiveOK(d) /\ PrefetchDue(d)
    BY DEF SessionInv
  <2>2. CASE d # c
    BY <1>1, <1>3, <1>8, <2>1, <2>2, ServerFrame DEF PrefetchDue
  <2>3. CASE d = c
    <3>1. OneStage(d)' /\ LiveOK(d)'
      BY <1>1, <1>4, <2>1, <2>3 DEF OneStage, LiveOK, Awaits, clientVars, cursorVars
    <3> QED BY <1>9, <2>3, <3>1 DEF PrefetchDue
  <2> QED BY <2>2, <2>3
<1> QED BY <1>7, <1>10, <1>11, <1>12 DEF SessionInv

(* A step that ends a worker's use of the range_ptr, or that makes one:     *)
(* afterwards the task in hand only carries the answer, and the range_ptr   *)
(* is alive exactly if the batch is not the last and its prefetch queued.  *)
LEMMA ReadyFrame ==
  ASSUME TypeOK, SessionInv, NEW w \in Workers, NEW c \in Clients,
         wpc[w] \in {"run", "resume"}, wpc' = [wpc EXCEPT ![w] = wpc'[w]],
         wpc'[w] \in {"size", "reply"}, wtask[w].client = c,
         wtask[w].kind \in {"RANGE", "GETRANGE"}, wpc[w] = "run" => wtask[w].kind = "RANGE",
         UNCHANGED <<clientVars, netVars, wtask>>,
         \A v \in Workers \ {w} : wres'[v] = wres[v],
         \A d \in Clients \ {c} : sess'[d] = sess[d],
         ~HasPrefetch(c), sess'[c].live => ~sess'[c].hasItems,
         sess'[c].live = wres'[w].more,
         IF sess'[c].live THEN AddTask("PREFETCH", c) ELSE UNCHANGED ctasks
  PROVE  SessionInv'
<1>1. /\ \A v \in Workers \ {w} : wpc'[v] = wpc[v]
      /\ \A v \in Workers : wpc'[v] = "idle" <=> wpc[v] = "idle"
      /\ req' = req /\ resp' = resp /\ wtask' = wtask
  BY DEF netVars, TypeOK, WorkerTypeOK
<1>2. /\ SlotOK(w, 0) /\ TaskAt(w, 0) = wtask[w] /\ 0 \in Slots(w) /\ Pending(w, 0)
      /\ TaskAt(w, 0)' = wtask[w] /\ ~Pending(w, 0)'
  BY <1>1, HeldAlone, HeldSlot DEF TaskAt, Pending
<1>3. Awaits(c) /\ req[c] = "none" /\ resp[c].kind = "none" /\ ~cq[c] /\ cpc[c] # "exchange"
  BY <1>2 DEF SlotOK
<1> DEFINE New(v, i) == /\ sess'[c].live /\ i > 0
                        /\ TaskAt(v, i)' = [kind |-> "PREFETCH", client |-> c]
<1>4. /\ \A v \in Workers : \A i \in Slots(v) :
           i \in Slots(v)' /\ TaskAt(v, i)' = TaskAt(v, i)
      /\ \A v \in Workers : \A i \in Slots(v)' : i \in Slots(v) \/ New(v, i)
      /\ sess'[c].live => \E v \in Workers : \E i \in Slots(v)' : New(v, i)
      /\ TokensApart'
  <2>1. CASE sess'[c].live
    <3>1. AddTask("PREFETCH", c) /\ "PREFETCH" \in Kinds
      BY <2>1 DEF Kinds
    <3>2. PICK v \in Workers, n \in Nat :
            /\ n > 0 /\ n \in Slots(v)' /\ TaskAt(v, n)' = [kind |-> "PREFETCH", client |-> c]
            /\ \A u \in Workers : \A i \in Slots(u) :
                 i \in Slots(u)' /\ TaskAt(u, i)' = TaskAt(u, i)
            /\ \A u \in Workers : \A i \in Slots(u)' : i \in Slots(u) \/ (u = v /\ i = n)
      BY <1>1, <3>1, SlotsMore
    <3>3. \A u \in Workers : \A i \in Slots(u) :
            ~SameToken(TaskAt(u, i), [kind |-> "PREFETCH", client |-> c])
      BY DEF HasPrefetch, SameToken
    <3>4. TokensApart'
      BY <1>1, <3>1, <3>3, TokensMore DEF SessionInv
    <3> QED BY <2>1, <3>2, <3>4
  <2>2. CASE ~sess'[c].live
    <3>1. \A v \in Workers : /\ Slots(v)' = Slots(v)
                             /\ \A i \in Slots(v) : TaskAt(v, i)' = TaskAt(v, i)
      BY <1>1, <2>2, SlotsSame
    <3>2. TokensApart'
      BY <3>1, TokensLess DEF SessionInv
    <3> QED BY <2>2, <3>1, <3>2
  <2> QED BY <2>1, <2>2
<1>5. ASSUME NEW d \in Clients \ {c}
      PROVE  HasPrefetch(d)' = HasPrefetch(d) /\ Resumes(d)' = Resumes(d)
  <2>1. HasPrefetch(d)' => HasPrefetch(d)
    BY <1>4 DEF HasPrefetch
  <2>2. HasPrefetch(d) => HasPrefetch(d)'
    BY <1>4 DEF HasPrefetch
  <2>3. Resumes(d)' = Resumes(d)
    BY <1>1 DEF Resumes
  <2> QED BY <2>1, <2>2, <2>3 DEF HasPrefetch
<1>6. ASSUME NEW v \in Workers PROVE WorkerOK(v)'
  <2>1. CASE v = w
    BY <2>1 DEF WorkerOK
  <2>2. CASE v # w /\ wpc[v] \in {"resume", "wait"}
    <3>1. wtask[v].kind = "GETRANGE" /\ wtask[v].client \in Clients
      BY <2>2, HeldSlot DEF TypeOK, WorkerTypeOK
    <3>2. wtask[v].client # c
      BY <1>1, <1>2, <2>2, <3>1, HeldAlone DEF SameToken
    <3> QED BY <1>1, <1>5, <2>2, <3>1, <3>2 DEF SessionInv, WorkerOK
  <2>3. CASE v # w /\ wpc[v] \notin {"resume", "wait"}
    BY <1>1, <2>3 DEF WorkerOK
  <2> QED BY <2>1, <2>2, <2>3
<1>7. ASSUME NEW v \in Workers, NEW i \in Slots(v)' PROVE SlotOK(v, i)'
  <2>1. CASE New(v, i)
    BY <2>1 DEF SlotOK
  <2>2. CASE v = w /\ i = 0
    BY <1>1, <1>2, <2>2 DEF SlotOK, Awaits, clientVars, cursorVars
  <2>3. CASE i \in Slots(v) /\ (v # w \/ i # 0)
    <3>1. /\ SlotOK(v, i) /\ TaskAt(v, i).client \in Clients /\ i \in Nat
          /\ TaskAt(v, i)' = TaskAt(v, i) /\ Pending(v, i)' = Pending(v, i)
          /\ Pending(v, i) \/ v # w
      BY <1>1, <1>4, <2>3, SlotTyping DEF SessionInv, Pending
    <3>2. CASE TaskAt(v, i).client = c
      <4>1. TaskAt(v, i).kind = "PREFETCH"
        BY <1>2, <2>3, <3>1, <3>2, HeldAlone DEF SameToken
      <4> QED BY <2>3, <3>2, <4>1 DEF HasPrefetch
    <3>3. CASE TaskAt(v, i).client # c
      BY <1>1, <2>3, <3>1, <3>3, SlotFrame
    <3> QED BY <3>2, <3>3
  <2> QED BY <1>4, <2>1, <2>2, <2>3
<1>8. ASSUME NEW d \in Clients PROVE OneStage(d)' /\ LiveOK(d)' /\ PrefetchDue(d)'
  <2>1. OneStage(d) /\ LiveOK(d) /\ PrefetchDue(d)
    BY DEF SessionInv
  <2>2. CASE d # c
    BY <1>1, <1>5, <2>1, <2>2, ServerFrame DEF PrefetchDue
  <2>3. CASE d = c
    <3>1. OneStage(c)' /\ LiveOK(c)'
      BY <1>1, <1>3, <2>1, <2>3 DEF OneStage, LiveOK, Awaits, clientVars, cursorVars
    <3>2. sess'[c].live => HasPrefetch(c)'
      BY <1>4 DEF HasPrefetch
    <3> QED BY <2>3, <3>1, <3>2 DEF PrefetchDue
  <2> QED BY <2>2, <2>3
<1> QED BY <1>4, <1>6, <1>7, <1>8 DEF SessionInv

LEMMA OpenRangeSession ==
  ASSUME TypeOK, SessionInv, NEW w \in Workers, OpenRange(w)
  PROVE  SessionInv'
<1>1. /\ wpc[w] = "run" /\ wpc'[w] = "reply" /\ wpc' = [wpc EXCEPT ![w] = wpc'[w]]
      /\ wtask[w].kind = "RANGE" /\ UNCHANGED <<clientVars, netVars, wtask>>
  BY DEF OpenRange, Run, TypeOK, WorkerTypeOK
<1>2. PICK c \in Clients : c = wtask[w].client
  BY <1>1, HeldSlot
<1>3. PICK batch \in Batches : batch = GetItems(total[c], 0) /\ batch.more \in BOOLEAN
  <2>1. total[c] \in Ranges
    BY DEF TypeOK, CursorTypeOK
  <2> QED BY <2>1, RangesTyping, GetItemsTyping DEF Batches
<1>4. wres'[w] = batch /\ \A v \in Workers \ {w} : wres'[v] = wres[v]
  BY <1>2, <1>3 DEF OpenRange, TypeOK, WorkerTypeOK
<1>5. ~sess[c].live
  BY <1>1, <1>2, HeldAlone, HeldSlot DEF SlotOK
<1>6. ~HasPrefetch(c)
  BY <1>5 DEF HasPrefetch, SessionInv, SlotOK
<1>7. CASE batch.more
  <2>1. /\ sess' = [sess EXCEPT ![c] =
                      [NoSession EXCEPT !.live = TRUE, !.n = total[c], !.pos = batch.num]]
        /\ AddTask("PREFETCH", c)
    BY <1>2, <1>3, <1>7 DEF OpenRange
  <2>2. sess'[c].live /\ ~sess'[c].hasItems /\ \A d \in Clients \ {c} : sess'[d] = sess[d]
        /\ sess'[c].live = TRUE
    BY <2>1 DEF TypeOK, SessTypeOK, NoSession
  <2> QED BY <1>1, <1>2, <1>4, <1>6, <1>7, <2>1, <2>2, ReadyFrame
<1>8. CASE ~batch.more
  <2>1. UNCHANGED <<sess, ctasks>>
    BY <1>2, <1>3, <1>8 DEF OpenRange
  <2>2. sess'[c].live = wres'[w].more
    BY <1>3, <1>4, <1>5, <1>8, <2>1 DEF TypeOK, SessTypeOK, Sessions
  <2> QED BY <1>1, <1>2, <1>4, <1>5, <1>6, <2>1, <2>2, ReadyFrame
<1> QED BY <1>7, <1>8

LEMMA ResumeSession ==
  ASSUME TypeOK, SessionInv, NEW w \in Workers, Resume(w)
  PROVE  SessionInv'
<1>1. /\ wpc[w] = "resume" /\ wpc'[w] = "size" /\ wpc' = [wpc EXCEPT ![w] = wpc'[w]]
      /\ wtask[w].kind = "GETRANGE" /\ UNCHANGED <<clientVars, netVars, wtask, wres>>
      /\ wres' = wres
  BY DEF Resume, TypeOK, WorkerTypeOK
<1>2. PICK c \in Clients : c = wtask[w].client
  BY <1>1, HeldSlot
<1>3. ~sess[c].hasItems /\ ~HasPrefetch(c) /\ wres[w].more = More(sess[c].n, sess[c].pos)
  BY <1>1, <1>2 DEF SessionInv, WorkerOK
<1>4. sess[c].live /\ sess[c].live \in BOOLEAN
  BY <1>1, <1>2, HeldAlone, HeldSlot DEF SlotOK, TypeOK, SessTypeOK, Sessions
<1>m. More(sess[c].n, sess[c].pos) \in BOOLEAN
  BY DEF More
<1>5. CASE More(sess[c].n, sess[c].pos)
  <2>1. AddTask("PREFETCH", c) /\ UNCHANGED sess
    BY <1>2, <1>5 DEF Resume
  <2>2. sess'[c].live = wres'[w].more
    BY <1>1, <1>3, <1>4, <1>m, <1>5, <2>1
  <2> QED BY <1>1, <1>2, <1>3, <1>4, <2>1, <2>2, ReadyFrame
<1>6. CASE ~More(sess[c].n, sess[c].pos)
  <2>1. sess' = [sess EXCEPT ![c].live = FALSE] /\ UNCHANGED ctasks
    BY <1>2, <1>6 DEF Resume, Delete
  <2>2. sess'[c].live = FALSE /\ \A d \in Clients \ {c} : sess'[d] = sess[d]
    BY <2>1 DEF TypeOK, SessTypeOK, Sessions
  <2>3. sess'[c].live = wres'[w].more
    BY <1>1, <1>3, <1>m, <1>6, <2>2
  <2> QED BY <1>1, <1>2, <1>3, <2>1, <2>2, <2>3, ReadyFrame
<1> QED BY <1>5, <1>6

LEMMA ReplySession ==
  ASSUME TypeOK, SessionInv, NEW w \in Workers, Reply(w)
  PROVE  SessionInv'
<1>1. /\ wpc[w] = "reply" /\ wpc'[w] = "idle" /\ wtask[w].kind \in Requests
      /\ \A v \in Workers \ {w} :
           wpc'[v] = wpc[v] /\ wtask'[v] = wtask[v] /\ wres'[v] = wres[v]
      /\ UNCHANGED <<clientVars, req, ctasks, sess>> /\ sess' = sess /\ req' = req
  BY DEF Reply, TypeOK, WorkerTypeOK
<1>2. PICK c \in Clients : c = wtask[w].client
  BY <1>1, HeldSlot
<1>3. /\ resp'[c] = [kind |-> wtask[w].kind, res |-> wres[w], size |-> wsize[w]]
      /\ \A d \in Clients \ {c} : resp'[d] = resp[d]
  BY <1>2 DEF Reply, TypeOK, NetTypeOK
<1>4. SlotOK(w, 0) /\ TaskAt(w, 0) = wtask[w] /\ 0 \in Slots(w) /\ ~Pending(w, 0)
  BY <1>1, HeldAlone, HeldSlot DEF Pending
<1>5. \A v \in Workers : \A i \in Slots(v)' :
        /\ i \in Slots(v) /\ TaskAt(v, i)' = TaskAt(v, i)
        /\ v = w => i > 0
  BY <1>1, SlotsLess
<1>6. \A v \in Workers : \A i \in Slots(v) : v # w \/ i # 0 => i \in Slots(v)'
  BY <1>1 DEF Slots, TypeOK, QueueTypeOK
<1>7. TokensApart'
  BY <1>5, TokensLess DEF SessionInv
<1>8. wtask[w].kind # "PREFETCH"
  BY <1>1 DEF Requests
<1>9. ASSUME NEW d \in Clients
      PROVE  HasPrefetch(d)' = HasPrefetch(d) /\ Resumes(d)' = Resumes(d)
  <2>1. HasPrefetch(d)' => HasPrefetch(d)
    BY <1>5 DEF HasPrefetch
  <2>2. HasPrefetch(d) => HasPrefetch(d)'
    BY <1>4, <1>5, <1>6, <1>8 DEF HasPrefetch
  <2>3. Resumes(d)' = Resumes(d)
    BY <1>1 DEF Resumes
  <2> QED BY <2>1, <2>2, <2>3 DEF HasPrefetch
<1>10. ASSUME NEW v \in Workers PROVE WorkerOK(v)'
  <2>1. CASE v = w
    BY <1>1, <2>1 DEF WorkerOK
  <2>2. CASE v # w /\ wpc[v] \in {"resume", "wait"}
    BY <1>1, <1>9, <2>2, HeldSlot DEF SessionInv, WorkerOK
  <2>3. CASE v # w /\ wpc[v] \notin {"resume", "wait"}
    BY <1>1, <2>3 DEF WorkerOK
  <2> QED BY <2>1, <2>2, <2>3
<1>11. ASSUME NEW v \in Workers, NEW i \in Slots(v)' PROVE SlotOK(v, i)'
  <2>1. /\ i \in Slots(v) /\ SlotOK(v, i) /\ TaskAt(v, i).client \in Clients
        /\ TaskAt(v, i)' = TaskAt(v, i) /\ Pending(v, i)' = Pending(v, i)
        /\ v # w \/ i # 0
        /\ Pending(v, i) \/ v # w
    BY <1>1, <1>5, SlotTyping DEF SessionInv, Pending
  <2>2. CASE TaskAt(v, i).client = c
    <3>1. TaskAt(v, i).kind = "PREFETCH"
      BY <1>1, <1>2, <1>8, <2>1, <2>2, HeldAlone DEF SameToken
    <3> QED BY <1>1, <2>1, <2>2, <3>1 DEF SlotOK
  <2>3. CASE TaskAt(v, i).client # c
    BY <1>1, <1>3, <2>1, <2>3, SlotFrame
  <2> QED BY <2>2, <2>3
<1>12. ASSUME NEW d \in Clients PROVE OneStage(d)' /\ LiveOK(d)' /\ PrefetchDue(d)'
  <2>1. OneStage(d) /\ LiveOK(d) /\ PrefetchDue(d)
    BY DEF SessionInv
  <2>2. CASE d # c
    BY <1>1, <1>3, <1>9, <2>1, <2>2, ServerFrame DEF PrefetchDue
  <2>3. CASE d = c
    <3>1. /\ Awaits(c) /\ req[c] = "none" /\ ~cq[c]
          /\ (wtask[w].kind = "UPDATE") = (cpc[c] = "exchange")
          /\ wtask[w].kind # "UPDATE" => sess[c].live = wres[w].more
      BY <1>2, <1>4, <1>8 DEF SlotOK
    <3>2. OneStage(c)' /\ LiveOK(c)'
      BY <1>1, <1>3, <2>1, <2>3, <3>1 DEF OneStage, LiveOK, Awaits, clientVars, cursorVars
    <3> QED BY <1>1, <1>9, <2>1, <2>3, <3>2 DEF PrefetchDue
  <2> QED BY <2>2, <2>3
<1> QED BY <1>7, <1>10, <1>11, <1>12 DEF SessionInv

LEMMA PrefetchSession ==
  ASSUME TypeOK, SessionInv, NEW w \in Workers, Prefetch(w)
  PROVE  SessionInv'
<1>1. /\ wpc[w] = "run" /\ wtask[w].kind = "PREFETCH"
      /\ UNCHANGED <<clientVars, netVars, ctasks, wres>>
      /\ req' = req /\ resp' = resp /\ wres' = wres
  BY DEF Prefetch, Run, netVars
<1>2. PICK c \in Clients : c = wtask[w].client
  BY <1>1, HeldSlot
<1>3. /\ wpc'[w] = "idle"
      /\ \A v \in Workers \ {w} :
           /\ wtask'[v] = wtask[v]
           /\ wpc'[v] = IF wpc[v] = "wait" /\ wtask[v].client = c THEN "run" ELSE wpc[v]
  BY <1>2 DEF Prefetch, Woken, TypeOK, WorkerTypeOK
<1>4. /\ sess[c] \in Sessions /\ \A d \in Clients \ {c} : sess'[d] = sess[d]
      /\ sess'[c].live = sess[c].live /\ sess'[c].hasItems
      /\ sess'[c].res.more = More(sess'[c].n, sess'[c].pos)
  <2> DEFINE batch == GetItems(sess[c].n, sess[c].pos)
             s == [sess[c] EXCEPT !.hasItems = TRUE, !.res = batch,
                                  !.size = batch.num + 1, !.pos = @ + batch.num]
  <2>1. sess[c] \in Sessions
    BY DEF TypeOK, SessTypeOK
  <2>2. sess' = [sess EXCEPT ![c] = s]
    BY <1>2 DEF Prefetch
  <2>3. batch.more = More(sess[c].n, sess[c].pos + batch.num)
    BY DEF GetItems
  <2> HIDE DEF batch
  <2>4. /\ s.live = sess[c].live /\ s.hasItems /\ s.res = batch
        /\ s.n = sess[c].n /\ s.pos = sess[c].pos + batch.num
    BY <2>1 DEF Sessions
  <2> HIDE DEF s
  <2>5. sess'[c] = s /\ \A d \in Clients \ {c} : sess'[d] = sess[d]
    BY <2>2 DEF TypeOK, SessTypeOK
  <2> QED BY <2>1, <2>3, <2>4, <2>5
<1>5. SlotOK(w, 0) /\ TaskAt(w, 0) = wtask[w] /\ 0 \in Slots(w)
  BY <1>1, HeldAlone, HeldSlot
<1>6. \A v \in Workers : \A i \in Slots(v)' :
        /\ i \in Slots(v) /\ TaskAt(v, i)' = TaskAt(v, i)
        /\ v = w => i > 0
  BY <1>1, <1>3, SlotsLess
<1>7. \A v \in Workers : \A i \in Slots(v) : v # w \/ i # 0 => i \in Slots(v)'
  BY <1>1, <1>3 DEF Slots, TypeOK, QueueTypeOK
<1>8. TokensApart'
  BY <1>6, TokensLess DEF SessionInv
<1>9. ASSUME NEW d \in Clients \ {c}
      PROVE  HasPrefetch(d)' = HasPrefetch(d) /\ Resumes(d)' = Resumes(d)
  <2>1. HasPrefetch(d)' => HasPrefetch(d)
    BY <1>6 DEF HasPrefetch
  <2>2. HasPrefetch(d) => HasPrefetch(d)'
    BY <1>2, <1>5, <1>6, <1>7 DEF HasPrefetch
  <2>3. Resumes(d)' = Resumes(d)
    BY <1>1, <1>3 DEF Resumes
  <2> QED BY <2>1, <2>2, <2>3 DEF HasPrefetch
<1>10. HasPrefetch(c)
  BY <1>1, <1>2, <1>5 DEF HasPrefetch
<1>11. ASSUME NEW v \in Workers PROVE WorkerOK(v)'
  <2>1. CASE v = w
    BY <1>3, <2>1 DEF WorkerOK
  <2>2. CASE v # w /\ wpc'[v] \in {"resume", "wait"}
    <3>1. wpc[v] = wpc'[v] /\ wtask'[v] = wtask[v] /\ WorkerOK(v)
      BY <1>3, <2>2 DEF SessionInv
    <3>2. wtask[v].client \in Clients \ {c}
      BY <1>3, <1>10, <2>2, <3>1, HeldSlot DEF WorkerOK
    <3> QED BY <1>1, <1>4, <1>9, <2>2, <3>1, <3>2 DEF WorkerOK
  <2>3. CASE wpc'[v] \notin {"resume", "wait"}
    BY <2>3 DEF WorkerOK
  <2> QED BY <2>1, <2>2, <2>3
<1>12. ASSUME NEW v \in Workers, NEW i \in Slots(v)' PROVE SlotOK(v, i)'
  <2>1. /\ i \in Slots(v) /\ SlotOK(v, i) /\ TaskAt(v, i).client \in Clients
        /\ TaskAt(v, i)' = TaskAt(v, i) /\ Pending(v, i)' = Pending(v, i)
        /\ v # w \/ i # 0
    BY <1>1, <1>3, <1>6, SlotTyping DEF SessionInv, Pending
  <2>2. CASE TaskAt(v, i).client = c
    <3>1. TaskAt(v, i).kind # "PREFETCH"
      BY <1>1, <1>2, <2>1, <2>2, HeldAlone DEF SameToken
    <3> QED BY <1>1, <1>4, <2>1, <2>2, <3>1 DEF SlotOK, Awaits, clientVars, cursorVars
  <2>3. CASE TaskAt(v, i).client # c
    BY <1>1, <1>4, <2>1, <2>3, SlotFrame
  <2> QED BY <2>2, <2>3
<1>13. ASSUME NEW d \in Clients PROVE OneStage(d)' /\ LiveOK(d)' /\ PrefetchDue(d)'
  <2>1. OneStage(d) /\ LiveOK(d) /\ PrefetchDue(d)
    BY DEF SessionInv
  <2>2. CASE d # c
    BY <1>1, <1>4, <1>9, <2>1, <2>2, ServerFrame DEF PrefetchDue
  <2>3. CASE d = c
    BY <1>1, <1>4, <2>1, <2>3
    DEF OneStage, LiveOK, Awaits, PrefetchDue, clientVars, cursorVars
  <2> QED BY <2>2, <2>3
<1> QED BY <1>8, <1>11, <1>12, <1>13 DEF SessionInv

-----------------------------------------------------------------------------
LEMMA InitSession == Init => SessionInv /\ BatchesFull
<1> SUFFICES ASSUME Init PROVE SessionInv /\ BatchesFull
  OBVIOUS
<1>1. \A w \in Workers : Slots(w) = {}
  BY DEF Init, Slots
<1>2. BatchesFull
  BY DEF Init, BatchesFull, Full, Blank, NoResp, NoSession
<1>3. TokensApart /\ \A w \in Workers : WorkerOK(w) /\ \A i \in Slots(w) : SlotOK(w, i)
  BY <1>1 DEF Init, TokensApart, WorkerOK
<1>4. \A c \in Clients : OneStage(c) /\ LiveOK(c) /\ PrefetchDue(c)
  <2> SUFFICES ASSUME NEW c \in Clients PROVE OneStage(c) /\ LiveOK(c) /\ PrefetchDue(c)
    OBVIOUS
  <2>1. /\ cpc[c] = "idle" /\ req[c] = "none" /\ resp[c].kind = "none" /\ cq[c] = FALSE
        /\ posted[c] = 2 /\ sess[c].live = FALSE /\ sess[c].hasItems = FALSE
    BY DEF Init, NoBuf, NoResp, NoSession
  <2> QED BY <2>1 DEF OneStage, LiveOK, PrefetchDue, NoBuf, PacketBuf
<1> QED BY <1>2, <1>3, <1>4 DEF SessionInv

LEMMA SessionStep ==
  ASSUME TypeOK, BatchesFull, HeadersOK, SessionInv, [Next]_vars
  PROVE  SessionInv'
<1>1. ASSUME NEW w \in Workers, WorkerStep(w) PROVE SessionInv'
  BY <1>1, TakeSession, PcStepSession, OpenRangeSession, TakeBatchSession, ResumeSession,
     ReplySession, PrefetchSession DEF WorkerStep
<1>2. CASE UNCHANGED vars
  <2>1. /\ cpc' = cpc /\ code' = code /\ req' = req /\ resp' = resp /\ cq' = cq
        /\ posted' = posted /\ cur' = cur /\ buf' = buf /\ ctasks' = ctasks /\ wpc' = wpc
        /\ wtask' = wtask /\ wres' = wres /\ sess' = sess
    BY <1>2 DEF vars, clientVars, cursorVars, netVars, workerVars
  <2> QED BY <2>1
          DEF SessionInv, TokensApart, SlotOK, WorkerOK, OneStage, LiveOK, PrefetchDue,
              HasPrefetch, Resumes, Awaits, Slots, TaskAt, Pending
<1> QED BY <1>1, <1>2, ClientStepSession, ArriveSession, PollSession DEF Next

(* The strengthening of the theorems below holds in every behaviour, until  *)
(* a reply is sent without its header.                                     *)
SessionGood == TypeOK /\ BatchesFull /\ HeadersOK /\ SessionInv

LEMMA BatchesInductive == Spec => [](TypeOK /\ BatchesFull)
<1>1. TypeOK /\ BatchesFull /\ [Next]_vars => BatchesFull'
  BY BatchesFullStep
<1> QED BY <1>1, InitSession, RangeScanTypeOK, PTL DEF Spec

LEMMA SessionInductive == Spec => [](HeadersSent => SessionGood)
<1>1. /\ TypeOK' /\ BatchesFull' /\ (HeadersSent => HeadersOK)'
      /\ (HeadersSent => SessionGood) /\ [Next]_vars
      => (HeadersSent => SessionGood)'
  BY SessionStep, LostStays DEF SessionGood
<1>2. TypeOK /\ BatchesFull /\ (HeadersSent => HeadersOK) /\ SessionInv
        => (HeadersSent => SessionGood)
  BY DEF SessionGood
<1> QED BY <1>1, <1>2, InitSession, HeadersInductive, BatchesInductive, PTL DEF Spec

(* No task ever uses a deleted range_ptr up to where update_range resumes,  *)
(* and the range_ptr of a scan is gone once its cursor is invalid: whatever *)
(* the order in which requests, prefetches and replies overtake each other, *)
(* until a reply goes out without its header.                              *)
THEOREM RangeSessionLifetime == Spec => []SessionLifetime
<1>1. (HeadersSent => SessionGood) => SessionLifetime
  <2> SUFFICES ASSUME TypeOK, SessionInv, NEW c \in Clients
               PROVE  /\ UsesSession(c) => sess[c].live
                      /\ cpc[c] \in {"idle", "exchange"} => ~sess[c].live
    BY DEF SessionLifetime, NoDanglingSession, SessionReleased, SessionGood
  <2>1. LiveOK(c)
    BY DEF SessionInv
  <2>2. ASSUME NEW w \in Workers, NEW i \in Slots(w), TaskAt(w, i).client = c, Pending(w, i),
               TaskAt(w, i).kind \in {"GETRANGE", "PREFETCH"}
        PROVE  sess[c].live
    BY <2>2 DEF SessionInv, SlotOK
  <2>3. ASSUME NEW w \in Workers, NEW i \in DOMAIN ctasks[w], ctasks[w][i].client = c,
               ctasks[w][i].kind \in {"GETRANGE", "PREFETCH"}
        PROVE  sess[c].live
    <3>1. i \in 1 .. Len(ctasks[w]) /\ Len(ctasks[w]) \in Nat
      BY DEF TypeOK, QueueTypeOK
    <3>2. i \in Slots(w) /\ TaskAt(w, i) = ctasks[w][i] /\ Pending(w, i)
      BY <3>1 DEF Slots, TaskAt, Pending
    <3> QED BY <2>2, <2>3, <3>2
  <2>4. ASSUME NEW w \in Workers,
               \/ Holds(w, c, "PREFETCH")
               \/ Holds(w, c, "GETRANGE") /\ wpc[w] \in {"run", "wait", "resume"}
        PROVE  sess[c].live
    <3>1. wpc[w] \in {"run", "wait", "resume"} /\ wtask[w].client = c
          /\ wtask[w].kind \in {"GETRANGE", "PREFETCH"}
      BY <2>4 DEF Holds, TypeOK, WorkerTypeOK, Requests
    <3> QED BY <2>2, <3>1, HeldSlot
  <2>5. UsesSession(c) => sess[c].live
    BY <2>1, <2>3, <2>4 DEF UsesSession, LiveOK
  <2> QED BY <2>1, <2>5 DEF LiveOK
<1> QED BY <1>1, SessionInductive, PTL

(* A prefetched batch stays as it is until update_range takes it: no second *)
(* prefetch of the same range is ever under way, until a reply goes out    *)
(* without its header.                                                     *)
THEOREM RangePrefetchKept == Spec => PrefetchKept
<1> DEFINE Kept == \A c \in Clients : sess[c].live /\ sess[c].hasItems /\ sess'[c].hasItems
                                        => sess'[c] = sess[c]
<1>1. TypeOK /\ SessionInv /\ [Next]_vars => Kept
  <2> SUFFICES ASSUME TypeOK, SessionInv, [Next]_vars PROVE Kept
    OBVIOUS
  <2>1. CASE UNCHANGED sess
    BY <2>1
  <2>2. ASSUME NEW w \in Workers, OpenRange(w) PROVE Kept
    <3>1. wpc[w] = "run" /\ wtask[w].kind = "RANGE"
      BY <2>2 DEF OpenRange, Run
    <3>2. ~sess[wtask[w].client].live
      BY <3>1, HeldAlone, HeldSlot DEF SlotOK
    <3>3. \A d \in Clients : d # wtask[w].client => sess'[d] = sess[d]
      BY <2>2 DEF OpenRange, TypeOK, SessTypeOK
    <3> QED BY <3>2, <3>3
  <2>3. ASSUME NEW w \in Workers, TakeBatch(w) PROVE Kept
    BY <2>3 DEF TakeBatch, TypeOK, SessTypeOK, Sessions
  <2>4. ASSUME NEW w \in Workers, Resume(w) PROVE Kept
    <3>1. ~sess[wtask[w].client].hasItems
      BY <2>4 DEF Resume, SessionInv, WorkerOK
    <3>2. \A d \in Clients : d # wtask[w].client => sess'[d] = sess[d]
      BY <2>4 DEF Resume, Delete, TypeOK, SessTypeOK
    <3> QED BY <3>1, <3>2
  <2>5. ASSUME NEW w \in Workers, Prefetch(w) PROVE Kept
    <3>1. wpc[w] = "run" /\ wtask[w].kind = "PREFETCH"
      BY <2>5 DEF Prefetch, Run
    <3>2. ~sess[wtask[w].client].hasItems
      BY <3>1, HeldAlone, HeldSlot DEF SlotOK
    <3>3. \A d \in Clients : d # wtask[w].client => sess'[d] = sess[d]
      BY <2>5 DEF Prefetch, TypeOK, SessTypeOK
    <3> QED BY <3>2, <3>3
  <2>6. CASE UNCHANGED vars
    BY <2>1, <2>6 DEF vars
  <2>7. ASSUME NEW c \in Clients, ClientStep(c) \/ Arrive(c) \/ Poll(c) PROVE UNCHANGED sess
    BY <2>7 DEF ClientStep, Find, Update, ExchangeDone, HReceive, Accept, Recheck, NextItem,
                Arrive, Poll, vars
  <2>8. ASSUME NEW w \in Workers, WorkerStep(w) PROVE Kept
    <3>1. CASE Take(w) \/ DoUpdate(w) \/ WaitBatch(w) \/ ReadSize(w) \/ Reply(w)
      BY <2>1, <3>1 DEF Take, DoUpdate, WaitBatch, ReadSize, Reply
    <3> QED BY <2>2, <2>3, <2>4, <2>5, <2>8, <3>1 DEF WorkerStep
  <2> QED BY <2>1, <2>6, <2>7, <2>8 DEF Next
<1>2. (HeadersSent => SessionGood) /\ [Next]_vars
        => [HeadersSent =>
            \A c \in Clients : sess[c].live /\ sess[c].hasItems /\ sess'[c].hasItems
                                 => sess'[c] = sess[c]]_vars
  BY <1>1 DEF SessionGood
<1> QED BY <1>2, SessionInductive, PTL DEF Spec, PrefetchKept

-----------------------------------------------------------------------------
(* A GETRANGE that its worker may have to wait for. *)
Blocks(w, i) == TaskAt(w, i).kind = "GETRANGE" /\ (i > 0 \/ wpc[w] \in {"run", "wait"})

(* Prefetches wait behind GETRANGEs of other clients, never in a circle:    *)
(* R[c] holds every client whose GETRANGE is ahead of the prefetch of c,    *)
(* and whatever is ahead of theirs.                                        *)
OrderedBy(R) ==
  /\ \A c \in Clients : c \notin R[c] /\ \A d \in R[c] : R[d] \subseteq R[c]
  /\ \A w \in Workers : \A i, j \in Slots(w) :
       i < j /\ Blocks(w, i) /\ TaskAt(w, j).kind = "PREFETCH" =>
         TaskAt(w, i).client \in R[TaskAt(w, j).client]

QueueOrder == \E R \in [Clients -> SUBSET Clients] : OrderedBy(R)

(* A step that puts no prefetch behind a GETRANGE. *)
LEMMA OrderKept ==
  ASSUME QueueOrder,
         \A w \in Workers : \A i, j \in Slots(w)' :
           i < j /\ Blocks(w, i)' /\ TaskAt(w, j)'.kind = "PREFETCH" =>
             \E k, l \in Slots(w) : /\ k < l /\ Blocks(w, k)
                                    /\ TaskAt(w, k) = TaskAt(w, i)'
                                    /\ TaskAt(w, l) = TaskAt(w, j)'
  PROVE  QueueOrder'
<1>1. PICK R \in [Clients -> SUBSET Clients] : OrderedBy(R)
  BY DEF QueueOrder
<1>2. OrderedBy(R)'
  BY <1>1 DEF OrderedBy
<1> QED BY <1>2 DEF QueueOrder

(* A step that queues a prefetch for c anywhere, when no GETRANGE of c is   *)
(* ahead of anything.                                                      *)
LEMMA OrderMore ==
  ASSUME TypeOK, QueueOrder, NEW c \in Clients, AddTask("PREFETCH", c), UNCHANGED wtask,
         \A w \in Workers : wpc'[w] = "idle" <=> wpc[w] = "idle",
         ~HasPrefetch(c),
         \A w \in Workers : \A i \in Slots(w) :
           /\ Blocks(w, i)' => Blocks(w, i)
           /\ Blocks(w, i)' => TaskAt(w, i).client # c
  PROVE  QueueOrder'
<1>1. PICK R \in [Clients -> SUBSET Clients] : OrderedBy(R)
  BY DEF QueueOrder
<1>2. PICK Q \in [Clients -> SUBSET Clients] :
        Q = [x \in Clients |-> IF x = c THEN Clients \ {c} ELSE R[x] \ {c}]
  OBVIOUS
<1>3. PICK v \in Workers, n \in Nat :
        /\ n \notin Slots(v) /\ TaskAt(v, n)' = [kind |-> "PREFETCH", client |-> c]
        /\ \A w \in Workers : \A i \in Slots(w) :
             i \in Slots(w)' /\ TaskAt(w, i)' = TaskAt(w, i) /\ (w = v => i < n)
        /\ \A w \in Workers : \A i \in Slots(w)' : i \in Slots(w) \/ (w = v /\ i = n)
  BY SlotsMore DEF Kinds
<1>4. \A x \in Clients : x \notin Q[x] /\ \A d \in Q[x] : Q[d] \subseteq Q[x]
  <2> SUFFICES ASSUME NEW x \in Clients PROVE x \notin Q[x] /\ \A d \in Q[x] : Q[d] \subseteq Q[x]
    OBVIOUS
  <2>1. x \notin R[x] /\ \A d \in R[x] : R[d] \subseteq R[x]
    BY <1>1 DEF OrderedBy
  <2> QED BY <1>2, <2>1
<1>5. ASSUME NEW w \in Workers, NEW i \in Slots(w)', NEW j \in Slots(w)',
             i < j, Blocks(w, i)', TaskAt(w, j)'.kind = "PREFETCH"
      PROVE  TaskAt(w, i)'.client \in Q[TaskAt(w, j)'.client]
  <2>1. i \in Slots(w)
    <3> SUFFICES ASSUME w = v, i = n PROVE FALSE
      BY <1>3
    <3> QED BY <1>3, <1>5 DEF Blocks
  <2>2. /\ Blocks(w, i) /\ TaskAt(w, i)' = TaskAt(w, i)
        /\ TaskAt(w, i).client \in Clients /\ TaskAt(w, i).client # c
    BY <1>3, <1>5, <2>1, SlotTyping
  <2>3. CASE j \in Slots(w)
    <3>1. /\ TaskAt(w, j)' = TaskAt(w, j) /\ TaskAt(w, j).client \in Clients
          /\ TaskAt(w, j).client # c
      BY <1>3, <1>5, <2>3, SlotTyping DEF HasPrefetch
    <3>2. TaskAt(w, i).client \in R[TaskAt(w, j).client]
      BY <1>1, <1>5, <2>1, <2>2, <2>3, <3>1 DEF OrderedBy
    <3> QED BY <1>2, <2>2, <3>1, <3>2
  <2>4. CASE w = v /\ j = n
    BY <1>2, <1>3, <2>2, <2>4
  <2> QED BY <1>3, <2>3, <2>4
<1>6. OrderedBy(Q)'
  BY <1>4, <1>5 DEF OrderedBy
<1> QED BY <1>6 DEF QueueOrder

LEMMA OrderStep ==
  ASSUME TypeOK, SessionInv, QueueOrder, [Next]_vars
  PROVE  QueueOrder'
<1>1. ASSUME NEW w \in Workers, UNCHANGED <<ctasks, wtask>>, wpc[w] # "idle",
             wpc' = [wpc EXCEPT ![w] = wpc'[w]], wpc'[w] # "idle",
             wpc'[w] \in {"run", "wait"} => wpc[w] \in {"run", "wait"}
      PROVE  QueueOrder'
  <2>1. \A v \in Workers \ {w} : wpc'[v] = wpc[v]
    BY <1>1 DEF TypeOK, WorkerTypeOK
  <2>2. \A v \in Workers : wpc'[v] = "idle" <=> wpc[v] = "idle"
    BY <1>1, <2>1
  <2>3. \A v \in Workers : /\ Slots(v)' = Slots(v)
                           /\ \A i \in Slots(v) : TaskAt(v, i)' = TaskAt(v, i)
    BY <1>1, <2>2, SlotsSame
  <2>4. \A v \in Workers : \A i \in Slots(v) : Blocks(v, i)' => Blocks(v, i)
    BY <1>1, <2>1, <2>3 DEF Blocks
  <2> QED BY <2>3, <2>4, OrderKept
<1>2. ASSUME NEW w \in Workers, NEW c \in Clients, AddTask("PREFETCH", c), UNCHANGED wtask,
             wpc[w] \in {"run", "resume"}, wpc' = [wpc EXCEPT ![w] = wpc'[w]],
             wpc'[w] \in {"size", "reply"}, wtask[w].client = c, ~HasPrefetch(c),
             wtask[w].kind \in {"RANGE", "GETRANGE"}
      PROVE  QueueOrder'
  <2>1. /\ \A v \in Workers \ {w} : wpc'[v] = wpc[v]
        /\ \A v \in Workers : wpc'[v] = "idle" <=> wpc[v] = "idle"
    BY <1>2 DEF TypeOK, WorkerTypeOK
  <2>2. ASSUME NEW v \in Workers, NEW i \in Slots(v), Blocks(v, i)'
        PROVE  Blocks(v, i) /\ TaskAt(v, i).client # c
    <3>0. PICK u \in Workers, n \in Nat :
            \A x \in Workers : \A k \in Slots(x) : TaskAt(x, k)' = TaskAt(x, k)
      BY <1>2, <2>1, SlotsMore DEF Kinds
    <3>1. TaskAt(v, i)' = TaskAt(v, i) /\ i \in Nat
      BY <3>0, SlotTyping
    <3>2. Blocks(v, i) /\ (v # w \/ i # 0)
      BY <1>2, <2>1, <2>2, <3>1 DEF Blocks
    <3>3. ~SameToken(TaskAt(v, i), wtask[w])
      BY <1>2, <3>2, HeldAlone
    <3> QED BY <1>2, <3>2, <3>3 DEF SameToken, Blocks
  <2> QED BY <1>2, <2>1, <2>2, OrderMore
<1>3. ASSUME NEW c \in Clients, ClientStep(c) \/ Arrive(c) PROVE QueueOrder'
  <2>1. ctasks' = ctasks /\ wpc' = wpc /\ wtask' = wtask
    BY <1>3 DEF ClientStep, Find, Update, ExchangeDone, HReceive, Accept, Recheck, NextItem,
                Arrive, workerVars, vars
  <2> QED BY <2>1 DEF QueueOrder, OrderedBy, Blocks, Slots, TaskAt
<1>4. ASSUME NEW c \in Clients, Poll(c) PROVE QueueOrder'
  <2>1. PICK k \in Requests : k = req[c]
    BY <1>4 DEF Poll, TypeOK, NetTypeOK
  <2>2. AddTask(k, c) /\ wtask' = wtask /\ wpc' = wpc /\ k \in Kinds /\ k # "PREFETCH"
    BY <1>4, <2>1 DEF Poll, workerVars, Kinds, Requests
  <2>3. PICK v \in Workers, n \in Nat :
          /\ n > 0 /\ TaskAt(v, n)' = [kind |-> k, client |-> c]
          /\ \A w \in Workers : \A i \in Slots(w) :
               i \in Slots(w)' /\ TaskAt(w, i)' = TaskAt(w, i) /\ (w = v => i < n)
          /\ \A w \in Workers : \A i \in Slots(w)' : i \in Slots(w) \/ (w = v /\ i = n)
    BY <2>2, SlotsMore
  <2>4. ASSUME NEW w \in Workers, NEW i \in Slots(w)', NEW j \in Slots(w)',
               i < j, Blocks(w, i)', TaskAt(w, j)'.kind = "PREFETCH"
        PROVE  i \in Slots(w) /\ j \in Slots(w) /\ Blocks(w, i)
    <3>1. j \in Slots(w)
      BY <2>2, <2>3, <2>4
    <3>2. i \in Slots(w)
      <4> SUFFICES ASSUME w = v, i = n PROVE FALSE
        BY <2>3
      <4>1. j < n /\ j \in Nat
        BY <2>3, <3>1, SlotTyping
      <4> QED BY <2>4, <4>1
    <3> QED BY <2>2, <2>3, <2>4, <3>1, <3>2 DEF Blocks
  <2> QED BY <2>3, <2>4, OrderKept
<1>5. ASSUME NEW w \in Workers, Take(w) PROVE QueueOrder'
  <2>1. /\ \A i \in Slots(w)' : i + 1 \in Slots(w) /\ TaskAt(w, i)' = TaskAt(w, i + 1) /\ i \in Nat
        /\ \A v \in Workers \ {w} :
             /\ Slots(v)' = Slots(v)
             /\ \A i \in Slots(v) : TaskAt(v, i)' = TaskAt(v, i)
        /\ \A v \in Workers \ {w} : wpc'[v] = wpc[v]
    BY <1>5, SlotsTake
  <2>2. ASSUME NEW v \in Workers, NEW i \in Slots(v)', NEW j \in Slots(v)',
               i < j, Blocks(v, i)', TaskAt(v, j)'.kind = "PREFETCH"
        PROVE  \E k, l \in Slots(v) : /\ k < l /\ Blocks(v, k)
                                      /\ TaskAt(v, k) = TaskAt(v, i)'
                                      /\ TaskAt(v, l) = TaskAt(v, j)'
    <3>1. CASE v = w
      <4>1. i + 1 < j + 1 /\ Blocks(v, i + 1)
        BY <2>1, <2>2, <3>1 DEF Blocks
      <4> QED BY <2>1, <3>1, <4>1
    <3>2. CASE v # w
      <4>1. Blocks(v, i)
        BY <2>1, <2>2, <3>2 DEF Blocks
      <4> QED BY <2>1, <2>2, <3>2, <4>1
    <3> QED BY <3>1, <3>2
  <2> QED BY <2>2, OrderKept
<1>6. ASSUME NEW w \in Workers, Reply(w) \/ Prefetch(w) PROVE QueueOrder'
  <2>1. /\ wpc[w] # "idle" /\ wpc'[w] = "idle" /\ UNCHANGED ctasks
        /\ \A v \in Workers \ {w} :
             /\ wtask'[v] = wtask[v] /\ (wpc'[v] = "idle" <=> wpc[v] = "idle")
             /\ wpc'[v] \in {"run", "wait"} => wpc[v] \in {"run", "wait"}
    BY <1>6 DEF Reply, Prefetch, Run, Woken, TypeOK, WorkerTypeOK
  <2>2. \A v \in Workers : \A i \in Slots(v)' :
          /\ i \in Slots(v) /\ TaskAt(v, i)' = TaskAt(v, i)
          /\ v = w => i > 0
    BY <2>1, SlotsLess
  <2>3. \A v \in Workers : \A i \in Slots(v)' : Blocks(v, i)' => Blocks(v, i)
    BY <2>1, <2>2 DEF Blocks
  <2> QED BY <2>2, <2>3, OrderKept
<1>7. ASSUME NEW w \in Workers, DoUpdate(w) \/ WaitBatch(w) \/ TakeBatch(w) \/ ReadSize(w)
      PROVE  QueueOrder'
  BY <1>1, <1>7 DEF DoUpdate, WaitBatch, TakeBatch, ReadSize, Run, TypeOK, WorkerTypeOK
<1>8. ASSUME NEW w \in Workers, OpenRange(w) PROVE QueueOrder'
  <2>1. /\ wpc[w] = "run" /\ wpc'[w] = "reply" /\ wpc' = [wpc EXCEPT ![w] = wpc'[w]]
        /\ wtask[w].kind = "RANGE" /\ UNCHANGED wtask
        /\ AddTask("PREFETCH", wtask[w].client) \/ UNCHANGED ctasks
    BY <1>8 DEF OpenRange, Run, TypeOK, WorkerTypeOK
  <2>2. wtask[w].client \in Clients /\ ~sess[wtask[w].client].live
    BY <2>1, HeldAlone, HeldSlot DEF SlotOK
  <2>3. ~HasPrefetch(wtask[w].client)
    BY <2>2 DEF HasPrefetch, SessionInv, SlotOK
  <2> QED BY <1>1, <1>2, <2>1, <2>2, <2>3
<1>9. ASSUME NEW w \in Workers, Resume(w) PROVE QueueOrder'
  <2>1. /\ wpc[w] = "resume" /\ wpc'[w] = "size" /\ wpc' = [wpc EXCEPT ![w] = wpc'[w]]
        /\ wtask[w].kind = "GETRANGE" /\ UNCHANGED wtask
        /\ AddTask("PREFETCH", wtask[w].client) \/ UNCHANGED ctasks
    BY <1>9 DEF Resume, TypeOK, WorkerTypeOK
  <2>2. wtask[w].client \in Clients /\ ~HasPrefetch(wtask[w].client)
    BY <2>1, HeldSlot DEF SessionInv, WorkerOK
  <2> QED BY <1>1, <1>2, <2>1, <2>2
<1>10. CASE UNCHANGED vars
  <2>1. ctasks' = ctasks /\ wpc' = wpc /\ wtask' = wtask
    BY <1>10 DEF vars, workerVars
  <2> QED BY <2>1 DEF QueueOrder, OrderedBy, Blocks, Slots, TaskAt
<1> QED BY <1>3, <1>4, <1>5, <1>6, <1>7, <1>8, <1>9, <1>10 DEF Next, WorkerStep

OrderGood == SessionGood /\ QueueOrder

LEMMA OrderInductive == Spec => [](HeadersSent => OrderGood)
<1>1. Init => QueueOrder
  <2> SUFFICES ASSUME Init PROVE QueueOrder
    OBVIOUS
  <2>1. \A w \in Workers : Slots(w) = {}
    BY DEF Init, Slots
  <2>2. OrderedBy([c \in Clients |-> {}])
    BY <2>1 DEF OrderedBy
  <2> QED BY <2>2 DEF QueueOrder
<1>2. (HeadersSent => SessionGood)' /\ (HeadersSent => OrderGood) /\ [Next]_vars
        => (HeadersSent => OrderGood)'
  BY OrderStep, LostStays DEF OrderGood, SessionGood
<1>3. (HeadersSent => SessionGood) /\ QueueOrder => (HeadersSent => OrderGood)
  BY DEF OrderGood
<1> QED BY <1>1, <1>2, <1>3, SessionInductive, PTL DEF Spec

(* A strict order on finitely many things has a least one. *)
LEMMA NoCircle ==
  ASSUME NEW W, IsFiniteSet(W), W # {}, NEW P \in [W -> SUBSET W],
         \A w \in W : w \notin P[w] /\ \A v \in P[w] : P[v] \subseteq P[w]
  PROVE  \E w \in W : P[w] = {}
<1> DEFINE T == {P[w] : w \in W}
<1>1. IsWellFoundedOn(StrictSubsetOrdering(W), FiniteSubsetsOf(W)) /\ FiniteSubsetsOf(W) = SUBSET W
  BY FS_StrictSubsetOrderingWellFounded, FS_FiniteSubsetsOfFinite
<1>2. T \subseteq SUBSET W /\ T # {}
  OBVIOUS
<1>3. PICK x \in T : \A y \in T : <<y, x>> \notin StrictSubsetOrdering(W)
  <2> HIDE DEF T
  <2> QED BY <1>1, <1>2, WFMin
<1>4. PICK w \in W : x = P[w]
  BY <1>3
<1>5. ASSUME NEW v \in P[w] PROVE FALSE
  <2>1. v \in W /\ P[v] \in T /\ P[v] \subseteq P[w] /\ v \notin P[v]
    BY <1>4
  <2>2. <<P[v], P[w]>> \in StrictSubsetOrdering(W)
    BY <2>1 DEF StrictSubsetOrdering
  <2> QED BY <1>3, <1>4, <2>1, <2>2
<1> QED BY <1>5

(* However many scans there are, update_range never leaves all the workers  *)
(* waiting for prefetches that are queued behind each other's tasks, until *)
(* a reply goes out without its header.                                    *)
THEOREM RangeNoWorkerDeadlock == Spec => []NoWorkerDeadlock
<1>1. (HeadersSent => OrderGood) => NoWorkerDeadlock
  <2> SUFFICES ASSUME TypeOK, SessionInv, QueueOrder,
                      \E w \in Workers : wpc[w] = "wait", \A w \in Workers : ~CanStep(w)
               PROVE  FALSE
    BY DEF NoWorkerDeadlock, OrderGood, SessionGood
  <2>1. PICK R \in [Clients -> SUBSET Clients] : OrderedBy(R)
    BY DEF QueueOrder
  <2> DEFINE W == {w \in Workers : wpc[w] = "wait"}
             C(w) == wtask[w].client
             P == [w \in W |-> {v \in W : C(v) \in R[C(w)]}]
  <2>2. IsFiniteSet(W) /\ W # {} /\ P \in [W -> SUBSET W]
    BY WorkersAssumption, FS_Subset
  <2>3. \A w \in W : C(w) \in Clients /\ wtask[w].kind = "GETRANGE"
    BY HeldSlot DEF TypeOK, WorkerTypeOK
  <2>4. \A w \in W : w \notin P[w] /\ \A v \in P[w] : P[v] \subseteq P[w]
    BY <2>1, <2>3 DEF OrderedBy
  <2>5. ASSUME NEW w \in W PROVE P[w] # {}
    <3>1. sess[C(w)].live /\ ~sess[C(w)].hasItems
      <4>1. sess[C(w)].live
        BY <2>3, HeldAlone, HeldSlot DEF SlotOK
      <4> QED BY <4>1 DEF SessionInv, WorkerOK
    <3>2. ~Resumes(C(w))
      BY DEF Resumes, CanStep
    <3>a. HasPrefetch(C(w))
      BY <2>3, <3>1, <3>2 DEF SessionInv, PrefetchDue
    <3>b. PICK v \in Workers :
            \E j \in Slots(v) : TaskAt(v, j).kind = "PREFETCH" /\ TaskAt(v, j).client = C(w)
      BY <3>a DEF HasPrefetch
    <3>3. PICK j \in Slots(v) : TaskAt(v, j).kind = "PREFETCH" /\ TaskAt(v, j).client = C(w)
      BY <3>b
    <3>4. wpc[v] = "wait"
      <4>1. CASE wpc[v] = "idle"
        <5>1. ctasks[v] = <<>>
          BY <4>1 DEF CanStep
        <5> QED BY <4>1, <5>1 DEF Slots
      <4> QED BY <4>1 DEF CanStep
    <3>5. j > 0 /\ 0 \in Slots(v) /\ TaskAt(v, 0) = wtask[v] /\ v \in W
      <4>1. j \in Nat /\ 0 \in Slots(v) /\ TaskAt(v, 0) = wtask[v]
        BY <3>4, SlotTyping, HeldSlot
      <4>2. j # 0
        BY <2>3, <3>3, <3>4, <4>1
      <4> QED BY <3>4, <4>1, <4>2
    <3>6. Blocks(v, 0)
      BY <2>3, <3>4, <3>5 DEF Blocks
    <3>7. C(v) \in R[C(w)]
      BY <2>1, <3>3, <3>5, <3>6 DEF OrderedBy
    <3> QED BY <3>5, <3>7
  <2> HIDE DEF W, P
  <2> QED BY <2>2, <2>4, <2>5, NoCircle
<1> QED BY <1>1, OrderInductive, PTL
-----------------------------------------------------------------------------
(* What a cursor yields *)

(* Where the batch begins that client c waits for, or that follows the one  *)
(* it reads; and what get_items writes for it.                              *)
Base(c)  == IF cpc[c] = "have" THEN Len(delivered[c]) + (code[c].num - index[c])
                               ELSE Len(delivered[c])
Batch(c) == GetItems(total[c], Base(c))
After(c) == Base(c) + Batch(c).num

(* The range_ptr has, or is about to get, the batch that begins at pos. *)
NextAt(c, pos) ==
  LET s == sess[c]
  IN  /\ s.n = total[c]
      /\ IF s.hasItems THEN s.res = GetItems(s.n, pos) /\ s.pos = pos + s.res.num
                       ELSE s.pos = pos

(* update_range has taken the batch and not yet asked for the next. *)
Resuming(w, i) == i = 0 /\ wpc[w] = "resume"

SlotData(w, i) ==
  LET t == TaskAt(w, i)
      c == t.client
  IN  /\ t.kind = "RANGE" /\ Pending(w, i) => Base(c) = 0
      /\ t.kind = "GETRANGE" /\ Pending(w, i) /\ ~Resuming(w, i) => NextAt(c, Base(c))
      /\ t.kind = "GETRANGE" /\ Resuming(w, i) => wres[w] = Batch(c) /\ NextAt(c, After(c))
      /\ t.kind \in {"RANGE", "GETRANGE"} /\ ~Pending(w, i) =>
           wres[w] = Batch(c) /\ (sess[c].live => NextAt(c, After(c)))

(* The cursor: how much it has yielded, and how much is left of its batch. *)
CursorData(c) ==
  /\ Base(c) <= total[c]
  /\ cpc[c] \in {"idle", "exchange"} /\ scans[c] > 0 => Len(delivered[c]) = total[c]
  /\ cpc[c] = "have" /\ ~code[c].more => Base(c) = total[c]

(* ... and which keys these are. *)
KeyData(c) ==
  /\ \A i \in 1 .. Len(delivered[c]) : delivered[c][i] = KeyOf(i)
  /\ cpc[c] = "have" =>
       \A i \in 1 .. code[c].num - index[c] :
         buf[c][Flip(cur[c])].items[index[c] + i] = KeyOf(Len(delivered[c]) + i)

SameHeader(b, g) == b.num = g.num /\ b.sum = g.sum /\ b.more = g.more

(* The request, the answer, and the buffer the answer landed in. *)
StageData(c) ==
  /\ req[c] = "RANGE" => Base(c) = 0
  /\ req[c] = "GETRANGE" => NextAt(c, Base(c))
  /\ resp[c].kind \in {"RANGE", "GETRANGE"} =>
       resp[c].res = Batch(c) /\ (sess[c].live => NextAt(c, After(c)))
  /\ cpc[c] = "check" \/ (cq[c] /\ cpc[c] # "exchange") =>
       SameHeader(buf[c][cur[c]], Batch(c)) /\ (sess[c].live => NextAt(c, After(c)))

DataInv ==
  /\ \A w \in Workers : \A i \in Slots(w) : SlotData(w, i)
  /\ \A c \in Clients : CursorData(c) /\ StageData(c)

-----------------------------------------------------------------------------
LEMMA BatchFacts ==
  ASSUME NEW n \in Ranges, NEW pos \in Nat, pos <= n
  PROVE  /\ n \in Nat /\ GetItems(n, pos) \in Batches
         /\ GetItems(n, pos).num \in 0 .. Cap /\ pos + GetItems(n, pos).num \in 0 .. n
         /\ GetItems(n, pos).more = (pos + GetItems(n, pos).num < n)
         /\ GetItems(n, pos).num = 0 => pos = n
<1>1. n \in Nat /\ Cap \in Nat \ {0}
  BY RangesTyping, CapAssumption
<1>2. /\ GetItems(n, pos) \in Batches /\ GetItems(n, pos).num = Advance(n, pos) - pos
      /\ Advance(n, pos) \in 0 .. n /\ pos <= Advance(n, pos)
  BY GetItemsTyping
<1>3. GetItems(n, pos).more = (pos + GetItems(n, pos).num < n)
  BY DEF GetItems, More
<1>4. GetItems(n, pos).num \in 0 .. Cap
  BY <1>2 DEF Batches
<1>5. GetItems(n, pos).num = 0 => pos = n
  BY <1>1, <1>2 DEF Advance, MinOf
<1> QED BY <1>1, <1>2, <1>3, <1>4, <1>5

LEMMA ClientFacts ==
  ASSUME TypeOK, DataInv, NEW c \in Clients
  PROVE  /\ Base(c) \in Nat /\ Base(c) <= total[c] /\ total[c] \in Ranges /\ total[c] \in Nat
         /\ Len(delivered[c]) \in Nat /\ delivered[c] \in Seq(Keys)
         /\ Batch(c) \in Batches /\ Batch(c).num \in 0 .. Cap /\ After(c) \in 0 .. total[c]
         /\ Batch(c).more = (After(c) < total[c]) /\ (Batch(c).num = 0 => Base(c) = total[c])
<1>1. /\ delivered[c] \in Seq(Keys) /\ total[c] \in Ranges
      /\ code[c] \in [num : 0 .. Cap, more : BOOLEAN] /\ index[c] \in 0 .. Cap
      /\ cpc[c] = "have" => index[c] < code[c].num
  BY DEF TypeOK, CursorTypeOK, ClientTypeOK
<1>2. Len(delivered[c]) \in Nat
  BY <1>1
<1>3. Base(c) \in Nat /\ Base(c) <= total[c]
  BY <1>1, <1>2, CapAssumption DEF Base, DataInv, CursorData
<1> QED BY <1>1, <1>2, <1>3, BatchFacts DEF Batch, After

(* The other clients, all of them and what they deliver. *)
DataSame(d) ==
  /\ cpc'[d] = cpc[d] /\ code'[d] = code[d] /\ req'[d] = req[d] /\ resp'[d] = resp[d]
  /\ cq'[d] = cq[d] /\ posted'[d] = posted[d] /\ cur'[d] = cur[d] /\ buf'[d] = buf[d]
  /\ index'[d] = index[d] /\ total'[d] = total[d] /\ delivered'[d] = delivered[d]
  /\ scans'[d] = scans[d]

LEMMA SameCursor ==
  ASSUME NEW d, DataSame(d)
  PROVE  /\ Base(d)' = Base(d) /\ Batch(d)' = Batch(d) /\ After(d)' = After(d)
         /\ CursorData(d) => CursorData(d)'
<1>1. Base(d)' = Base(d)
  BY DEF DataSame, Base
<1>2. Batch(d)' = Batch(d)
  BY <1>1 DEF DataSame, Batch
<1>3. After(d)' = After(d)
  BY <1>1, <1>2 DEF After
<1>4. CursorData(d) => CursorData(d)'
  BY <1>1 DEF DataSame, CursorData
<1> QED BY <1>1, <1>2, <1>3, <1>4

(* A step that leaves the server alone concerns one client. *)
LEMMA DataFrame ==
  ASSUME TypeOK, DataInv, NEW c \in Clients, UNCHANGED <<ctasks, workerVars, sess>>,
         \A d \in Clients \ {c} : DataSame(d),
         CursorData(c)' /\ StageData(c)',
         \A w \in Workers : \A i \in Slots(w) :
           TaskAt(w, i).client = c /\ TaskAt(w, i).kind # "PREFETCH" => SlotData(w, i)'
  PROVE  DataInv'
<1>1. ctasks' = ctasks /\ wpc' = wpc /\ wtask' = wtask /\ wres' = wres /\ sess' = sess
  BY DEF workerVars
<1>2. ASSUME NEW w \in Workers
      PROVE  /\ Slots(w)' = Slots(w)
             /\ \A i \in Slots(w) : /\ TaskAt(w, i)' = TaskAt(w, i)
                                    /\ Pending(w, i)' = Pending(w, i)
                                    /\ Resuming(w, i)' = Resuming(w, i)
  BY <1>1 DEF Slots, TaskAt, Pending, Resuming
<1>3. ASSUME NEW d \in Clients \ {c}
      PROVE  /\ Base(d)' = Base(d) /\ Batch(d)' = Batch(d) /\ After(d)' = After(d)
             /\ NextAt(d, Base(d))' = NextAt(d, Base(d))
             /\ NextAt(d, After(d))' = NextAt(d, After(d))
             /\ CursorData(d)'
  <2>1. /\ Base(d)' = Base(d) /\ Batch(d)' = Batch(d) /\ After(d)' = After(d) /\ CursorData(d)'
    BY SameCursor DEF DataInv
  <2> QED BY <1>1, <2>1 DEF NextAt, DataSame
<1>4. ASSUME NEW w \in Workers, NEW i \in Slots(w) PROVE SlotData(w, i)'
  <2>1. TaskAt(w, i).client \in Clients /\ SlotData(w, i)
    BY SlotTyping DEF DataInv
  <2>2. CASE TaskAt(w, i).kind = "PREFETCH"
    BY <1>2, <2>2 DEF SlotData
  <2>3. CASE TaskAt(w, i).client # c
    BY <1>1, <1>2, <1>3, <2>1, <2>3 DEF SlotData
  <2> QED BY <2>2, <2>3
<1>5. ASSUME NEW d \in Clients \ {c} PROVE StageData(d)'
  <2>1. StageData(d) /\ DataSame(d)
    BY DEF DataInv
  <2> QED BY <1>1, <1>3, <2>1 DEF StageData, DataSame
<1> QED BY <1>2, <1>3, <1>4, <1>5 DEF DataInv

-----------------------------------------------------------------------------
(* The steps of a client and of its connection. *)

LEMMA AcceptData ==
  ASSUME TypeOK, BatchesFull, SessionInv, DataInv, NEW c \in Clients, Accept(c)
  PROVE  Base(c)' = After(c) /\ CursorData(c)' /\ StageData(c)'
<1>1. cur[c] \in 0 .. 1 /\ buf[c][cur[c]] \in Batches
  BY DEF TypeOK, CursorTypeOK
<1>2. PICK b \in Batches :
        /\ b = buf[c][cur[c]] /\ b.num \in 0 .. Cap /\ b.more \in BOOLEAN
        /\ b.items \in [1 .. Cap -> Keys]
  BY <1>1 DEF Batches
<1>3. /\ cpc[c] = "check" /\ cur'[c] = Flip(cur[c]) /\ buf' = buf /\ Intact(b)
      /\ code'[c] = [num |-> b.num, more |-> b.more] /\ index'[c] = 0
      /\ cpc'[c] = IF b.num > 0 THEN "have" ELSE "idle"
      /\ b.more => req'[c] = "GETRANGE"
      /\ ~b.more => req'[c] = req[c]
      /\ total' = total /\ delivered' = delivered /\ resp' = resp /\ cq' = cq /\ sess' = sess
      /\ scans' = scans
  BY <1>2 DEF Accept, TypeOK, CursorTypeOK, ClientTypeOK, NetTypeOK
<1>4. Base(c) = Len(delivered[c]) /\ SameHeader(b, Batch(c))
  BY <1>2, <1>3 DEF Base, DataInv, StageData
<1>5. /\ Base(c) \in Nat /\ Base(c) <= total[c] /\ total[c] \in Ranges /\ total[c] \in Nat
      /\ After(c) = Base(c) + b.num /\ After(c) \in 0 .. total[c]
      /\ b.more = (After(c) < total[c]) /\ (b.num = 0 => Base(c) = total[c])
  BY <1>4, ClientFacts DEF After, SameHeader
<1>7. /\ b.num = 0 => ~b.more
      /\ code'[c].num = b.num /\ code'[c].more = b.more
      /\ b.num - 0 = b.num
  <2>1. b.num = 0 => After(c) = Base(c)
    BY <1>5
  <2>2. b.num = 0 => ~(After(c) < total[c])
    BY <1>5, <2>1
  <2>3. b.num = 0 => ~b.more
    BY <1>5, <2>2
  <2> QED BY <1>2, <1>3, <2>3
<1>8. Base(c)' = After(c)
  BY <1>2, <1>3, <1>4, <1>5, <1>7 DEF Base
<1>9. CursorData(c)'
  <2>1. CursorData(c)
    BY DEF DataInv
  <2>4. cpc'[c] = "have" => (~code'[c].more => After(c) = total[c])
    <3>1. ~b.more => ~(After(c) < total[c])
      BY <1>5
    <3>2. ~b.more => After(c) = total[c]
      BY <1>5, <3>1
    <3> QED BY <1>7, <3>2
  <2>5. cpc'[c] \in {"idle", "exchange"} => Len(delivered[c]) = total[c]
    BY <1>2, <1>3, <1>4, <1>5
  <2> QED BY <1>3, <1>5, <1>8, <2>1, <2>4, <2>5 DEF CursorData
<1>10. StageData(c)'
  <2>1. /\ req[c] = "none" /\ resp[c].kind = "none" /\ ~cq[c]
    BY <1>3 DEF SessionInv, OneStage, Awaits
  <2>2. sess[c].live = b.more
    BY <1>2, <1>3 DEF SessionInv, LiveOK
  <2>3. sess[c].live => NextAt(c, After(c))
    BY <1>3 DEF DataInv, StageData
  <2>4. req'[c] = "GETRANGE" => NextAt(c, Base(c))'
    <3>1. CASE b.more
      BY <1>3, <1>8, <2>2, <2>3, <3>1 DEF NextAt
    <3>2. CASE ~b.more
      BY <1>3, <2>1, <3>2
    <3> QED BY <3>1, <3>2
  <2> QED BY <1>2, <1>3, <2>1, <2>4 DEF StageData
<1> QED BY <1>8, <1>9, <1>10

LEMMA NextItemData ==
  ASSUME TypeOK, SessionInv, DataInv, NEW c \in Clients, NextItem(c)
  PROVE  Base(c)' = Base(c) /\ CursorData(c)' /\ StageData(c)'
<1>1. /\ cpc[c] = "have" /\ index'[c] = index[c] + 1
      /\ delivered'[c] = Append(delivered[c], buf[c][Flip(cur[c])].items[index[c] + 1])
      /\ cpc'[c] = IF index[c] + 1 # code[c].num THEN "have"
                   ELSE IF code[c].more THEN "receive" ELSE "idle"
      /\ buf' = buf /\ cur' = cur /\ code' = code /\ total' = total /\ req' = req
      /\ resp' = resp /\ cq' = cq /\ sess' = sess /\ scans' = scans
  BY DEF NextItem, netVars, TypeOK, CursorTypeOK, ClientTypeOK
<1>2. /\ index[c] \in Nat /\ code[c].num \in Nat /\ index[c] < code[c].num
      /\ delivered[c] \in Seq(Keys) /\ Len(delivered[c]) \in Nat
      /\ Base(c) = Len(delivered[c]) + (code[c].num - index[c])
      /\ Base(c) <= total[c] /\ total[c] \in Nat
  BY <1>1, ClientFacts, CapAssumption DEF Base, TypeOK, CursorTypeOK, ClientTypeOK
<1>3. CursorData(c)
  BY DEF DataInv
<1>5. PICK k \in Keys : k = buf[c][Flip(cur[c])].items[index[c] + 1]
  <2>0. cur[c] \in 0 .. 1 /\ code[c].num \in 0 .. Cap
    BY DEF TypeOK, CursorTypeOK
  <2>1. Flip(cur[c]) \in 0 .. 1 /\ index[c] + 1 \in 1 .. Cap
    BY <1>2, <2>0, FlipTyping, CapAssumption
  <2>2. buf[c][Flip(cur[c])].items \in [1 .. Cap -> Keys]
    BY <2>1 DEF TypeOK, CursorTypeOK, Batches
  <2> QED BY <2>1, <2>2
<1>6. Len(delivered'[c]) = Len(delivered[c]) + 1
  BY <1>1, <1>2, <1>5
<1>7. Base(c)' = Base(c)
  <2>1. CASE index[c] + 1 # code[c].num
    <3>1. /\ Base(c)' = Len(delivered'[c]) + (code'[c].num - index'[c])
          /\ index'[c] = index[c] + 1 /\ code'[c].num = code[c].num
      BY <1>1, <2>1 DEF Base
    <3>2. Len(delivered[c]) \in Nat /\ index[c] \in Nat /\ code[c].num \in Nat
      BY <1>2
    <3>3. \A a, b, d \in Nat : (a + 1) + (d - (b + 1)) = a + (d - b)
      OBVIOUS
    <3>4. (Len(delivered[c]) + 1) + (code[c].num - (index[c] + 1))
            = Len(delivered[c]) + (code[c].num - index[c])
      BY <3>2, <3>3
    <3>5. Len(delivered'[c]) = Len(delivered[c]) + 1
      BY <1>6
    <3> QED BY <1>2, <3>1, <3>4, <3>5
  <2>2. CASE index[c] + 1 = code[c].num
    <3>1. Base(c)' = Len(delivered'[c])
      BY <1>1, <2>2 DEF Base
    <3> QED BY <1>2, <1>6, <2>2, <3>1
  <2> QED BY <2>1, <2>2
<1>8. CursorData(c)'
  <2>2. cpc'[c] \in {"idle", "exchange"} => Len(delivered'[c]) = total[c]
    BY <1>1, <1>2, <1>3, <1>6 DEF CursorData
  <2> QED BY <1>1, <1>2, <1>3, <1>7, <2>2 DEF CursorData
<1>9. StageData(c)'
  <2>1. Batch(c)' = Batch(c) /\ After(c)' = After(c)
    BY <1>1, <1>7 DEF Batch, After
  <2>2. StageData(c) /\ cpc'[c] \notin {"check", "exchange"}
    BY <1>1 DEF DataInv
  <2> QED BY <1>1, <1>7, <2>1, <2>2 DEF StageData, NextAt
<1> QED BY <1>7, <1>8, <1>9

LEMMA ClientStepData ==
  ASSUME TypeOK, BatchesFull, SessionInv, DataInv, NEW c \in Clients, ClientStep(c)
  PROVE  DataInv'
<1>0. OneStage(c) /\ LiveOK(c) /\ CursorData(c) /\ StageData(c)
  BY DEF SessionInv, DataInv
<1>q. ASSUME UNCHANGED <<ctasks, workerVars, sess>>, \A d \in Clients \ {c} : DataSame(d),
             CursorData(c)' /\ StageData(c)', ~Awaits(c) \/ cq[c]
      PROVE  DataInv'
  <2>1. \A w \in Workers : \A i \in Slots(w) :
          TaskAt(w, i).client = c => TaskAt(w, i).kind = "PREFETCH"
    BY <1>q, NotWithServer
  <2> QED BY <1>q, <2>1, DataFrame
<1>1. ASSUME NEW n \in Totals, NEW m \in Passes(n), Find(c, n, m) PROVE DataInv'
  <2>1. /\ cpc[c] = "idle" /\ cpc'[c] = "receive" /\ req'[c] = "RANGE" /\ delivered'[c] = <<>>
        /\ total'[c] = m /\ m \in Nat /\ resp' = resp /\ cq' = cq
    BY <1>1, RangesTyping DEF Find, TypeOK, CursorTypeOK, ClientTypeOK, NetTypeOK
  <2>2. ~Awaits(c) /\ resp[c].kind = "none" /\ ~cq[c]
    BY <1>0, <2>1 DEF OneStage, Awaits
  <2>3. Base(c)' = 0
    BY <2>1 DEF Base
  <2>4. CursorData(c)' /\ StageData(c)'
    BY <2>1, <2>2, <2>3 DEF CursorData, StageData
  <2>5. (\A d \in Clients \ {c} : DataSame(d)) /\ UNCHANGED <<ctasks, workerVars, sess>>
    BY <1>1 DEF Find, DataSame
  <2> QED BY <1>q, <2>2, <2>4, <2>5
<1>2. CASE Update(c)
  <2>1. /\ cpc[c] = "idle" /\ cpc'[c] = "exchange" /\ req'[c] = "UPDATE"
        /\ delivered' = delivered /\ total' = total /\ resp' = resp /\ cq' = cq
        /\ scans' = scans
    BY <1>2 DEF Update, cursorVars, TypeOK, ClientTypeOK, NetTypeOK
  <2>2. ~Awaits(c) /\ resp[c].kind = "none" /\ ~cq[c]
    BY <1>0, <2>1 DEF OneStage, Awaits
  <2>3. Base(c)' = Base(c)
    BY <2>1 DEF Base
  <2>4. CursorData(c)' /\ StageData(c)'
    BY <1>0, <2>1, <2>2, <2>3 DEF CursorData, StageData
  <2>5. (\A d \in Clients \ {c} : DataSame(d)) /\ UNCHANGED <<ctasks, workerVars, sess>>
    BY <1>2 DEF Update, DataSame, cursorVars
  <2> QED BY <1>q, <2>2, <2>4, <2>5
<1>3. CASE ExchangeDone(c)
  <2>1. /\ cpc[c] = "exchange" /\ cpc'[c] = "idle" /\ cq[c] /\ ~cq'[c] /\ req' = req
        /\ delivered' = delivered /\ total' = total /\ resp' = resp /\ scans' = scans
    BY <1>3 DEF ExchangeDone, cursorVars, netVars, TypeOK, ClientTypeOK
  <2>2. req[c] = "none" /\ resp[c].kind = "none"
    BY <1>0, <2>1 DEF OneStage
  <2>3. Base(c)' = Base(c)
    BY <2>1 DEF Base
  <2>4. CursorData(c)' /\ StageData(c)'
    BY <1>0, <2>1, <2>2, <2>3 DEF CursorData, StageData
  <2>5. (\A d \in Clients \ {c} : DataSame(d)) /\ UNCHANGED <<ctasks, workerVars, sess>>
    BY <1>3 DEF ExchangeDone, DataSame, cursorVars, netVars
  <2> QED BY <1>q, <2>1, <2>4, <2>5
<1>4. CASE HReceive(c)
  <2>1. /\ cpc[c] = "receive" /\ cpc'[c] = "check" /\ cq[c] /\ ~cq'[c] /\ req' = req
        /\ delivered' = delivered /\ total' = total /\ resp' = resp /\ scans' = scans
        /\ buf' = buf /\ cur' = cur /\ sess' = sess
    BY <1>4 DEF HReceive, cursorVars, netVars, TypeOK, ClientTypeOK
  <2>2. req[c] = "none" /\ resp[c].kind = "none"
    BY <1>0, <2>1 DEF OneStage
  <2>3. Base(c)' = Base(c) /\ Batch(c)' = Batch(c) /\ After(c)' = After(c)
    BY <2>1 DEF Base, Batch, After
  <2>4. CursorData(c)'
    BY <1>0, <2>1, <2>3 DEF CursorData
  <2>5. StageData(c)'
    BY <1>0, <2>1, <2>2, <2>3 DEF StageData, NextAt
  <2>6. (\A d \in Clients \ {c} : DataSame(d)) /\ UNCHANGED <<ctasks, workerVars, sess>>
    BY <1>4 DEF HReceive, DataSame, cursorVars, netVars
  <2> QED BY <1>q, <2>1, <2>4, <2>5, <2>6
<1>5. CASE Accept(c)
  <2>1. CursorData(c)' /\ StageData(c)'
    BY <1>5, AcceptData
  <2>2. ~Awaits(c) /\ UNCHANGED <<ctasks, workerVars, sess>>
    BY <1>5 DEF Accept, Awaits
  <2>3. \A d \in Clients \ {c} : DataSame(d)
    <3>1. \A d \in Clients \ {c} : req'[d] = req[d] /\ posted'[d] = posted[d]
      <4>1. CASE buf[c][cur[c]].more
        BY <1>5, <4>1 DEF Accept, TypeOK, NetTypeOK, ClientTypeOK
      <4>2. CASE ~buf[c][cur[c]].more
        BY <1>5, <4>2 DEF Accept
      <4> QED BY <4>1, <4>2
    <3> QED BY <1>5, <3>1 DEF Accept, DataSame
  <2> QED BY <1>q, <2>1, <2>2, <2>3
<1>6. CASE Recheck(c)
  <2>1. /\ cpc' = cpc /\ code' = code /\ req' = req /\ resp' = resp /\ cq' = cq
        /\ posted' = posted /\ cur' = cur /\ buf' = buf /\ index' = index /\ total' = total
        /\ delivered' = delivered /\ scans' = scans /\ sess' = sess
        /\ UNCHANGED <<ctasks, workerVars, sess>> /\ cpc[c] = "check"
    BY <1>6 DEF Recheck, vars, clientVars, cursorVars, netVars
  <2>2. (\A d \in Clients : DataSame(d)) /\ ~Awaits(c)
    BY <2>1 DEF DataSame, Awaits
  <2>3. CursorData(c)' /\ Base(c)' = Base(c) /\ Batch(c)' = Batch(c) /\ After(c)' = After(c)
    BY <1>0, <2>2, SameCursor
  <2>4. StageData(c)'
    BY <1>0, <2>1, <2>3 DEF StageData, NextAt
  <2> QED BY <1>q, <2>1, <2>2, <2>3, <2>4
<1>7. CASE NextItem(c)
  <2>1. Base(c)' = Base(c) /\ CursorData(c)' /\ StageData(c)'
    BY <1>7, NextItemData
  <2>2. /\ total' = total /\ sess' = sess /\ wres' = wres /\ wpc' = wpc /\ wtask' = wtask
        /\ ctasks' = ctasks /\ UNCHANGED <<ctasks, workerVars, sess>>
    BY <1>7 DEF NextItem, workerVars
  <2>3. Batch(c)' = Batch(c) /\ After(c)' = After(c)
    BY <2>1, <2>2 DEF Batch, After
  <2>4. ASSUME NEW w \in Workers, NEW i \in Slots(w), TaskAt(w, i).client = c
        PROVE  SlotData(w, i)'
    <3>1. /\ SlotData(w, i) /\ TaskAt(w, i)' = TaskAt(w, i)
          /\ Pending(w, i)' = Pending(w, i) /\ Resuming(w, i)' = Resuming(w, i)
      BY <2>2 DEF DataInv, TaskAt, Pending, Resuming
    <3> QED BY <2>1, <2>2, <2>3, <2>4, <3>1 DEF SlotData, NextAt
  <2>5. \A d \in Clients \ {c} : DataSame(d)
    BY <1>7 DEF NextItem, DataSame, netVars
  <2> QED BY <2>1, <2>2, <2>4, <2>5, DataFrame
<1> QED BY <1>1, <1>2, <1>3, <1>4, <1>5, <1>6, <1>7 DEF ClientStep

(* A reply never lands in the buffer the cursor is reading. *)
LEMMA ArriveOther ==
  ASSUME TypeOK, SessionInv, NEW c \in Clients, Arrive(c)
  PROVE  /\ buf'[c][Flip(cur[c])] = buf[c][Flip(cur[c])]
         /\ \A d \in Clients \ {c} : buf'[d] = buf[d]
<1>1. CASE posted[c] = PacketBuf
  BY <1>1 DEF Arrive
<1>2. CASE posted[c] # PacketBuf
  <2>1. posted[c] \in 0 .. 1 /\ cur[c] \in 0 .. 1 /\ buf[c] \in [0 .. 1 -> Batches]
    BY <1>2 DEF Arrive, TypeOK, ClientTypeOK, CursorTypeOK, NoBuf, PacketBuf
  <2>2. Flip(cur[c]) # posted[c] /\ Flip(cur[c]) \in 0 .. 1
    BY <2>1 DEF Flip, SessionInv, OneStage
  <2> QED BY <1>2, <2>1, <2>2 DEF Arrive, TypeOK, CursorTypeOK
<1> QED BY <1>1, <1>2

LEMMA ArriveData ==
  ASSUME TypeOK, HeadersOK, SessionInv, DataInv, NEW c \in Clients, Arrive(c)
  PROVE  DataInv'
<1>0. OneStage(c) /\ LiveOK(c) /\ CursorData(c) /\ StageData(c)
  BY DEF SessionInv, DataInv
<1>1. /\ resp[c].kind # "none" /\ posted[c] # NoBuf /\ resp'[c] = NoResp /\ cq'[c]
      /\ cpc' = cpc /\ cur' = cur /\ code' = code /\ index' = index /\ total' = total
      /\ delivered' = delivered /\ scans' = scans /\ req' = req /\ sess' = sess
      /\ UNCHANGED <<ctasks, workerVars, sess>>
  BY DEF Arrive, TypeOK, NetTypeOK, ClientTypeOK
<1>2. /\ cpc[c] # "exchange" =>
           posted[c] = cur[c] /\ cur[c] \in 0 .. 1 /\ resp[c].kind \in {"RANGE", "GETRANGE"}
      /\ posted[c] \in 0 .. 1 => posted[c] = cur[c]
  <2>1. resp[c].kind \in Requests \cup {"none"} /\ posted[c] \in 0 .. 3 /\ cur[c] \in 0 .. 1
    BY DEF TypeOK, NetTypeOK, ClientTypeOK, CursorTypeOK, Replies
  <2> QED BY <1>0, <1>1, <2>1 DEF OneStage, NoBuf, PacketBuf, Requests
<1>3. /\ Base(c)' = Base(c) /\ Batch(c)' = Batch(c) /\ After(c)' = After(c)
  BY <1>1 DEF Base, Batch, After
<1>4. \A d \in Clients \ {c} : buf'[d] = buf[d]
  BY ArriveOther
<1>5. CursorData(c)'
  BY <1>0, <1>1, <1>3 DEF CursorData
<1>6. cpc[c] # "exchange" => SameHeader(buf'[c][cur[c]], Batch(c))
  <2> SUFFICES ASSUME cpc[c] # "exchange" PROVE SameHeader(buf'[c][cur[c]], Batch(c))
    OBVIOUS
  <2>1. buf'[c][cur[c]] = Landed(buf[c][cur[c]], resp[c].res, resp[c].size)
    BY <1>2 DEF Arrive, NoBuf, PacketBuf, TypeOK, CursorTypeOK
  <2>2. resp[c].res \in Batches /\ resp[c].res = Batch(c)
    BY <1>0, <1>2 DEF StageData, TypeOK, NetTypeOK, Replies
  <2>3. resp[c].size # 0
    BY <1>2 DEF HeadersOK
  <2> QED BY <2>1, <2>2, <2>3 DEF Landed, Batches, SameHeader
<1>7. StageData(c)'
  <2>1. req[c] = "none"
    BY <1>0, <1>1 DEF OneStage
  <2>2. cpc[c] # "exchange" => (sess[c].live => NextAt(c, After(c)))
    BY <1>0, <1>2 DEF StageData
  <2>3. cpc[c] # "check"
    BY <1>0, <1>1 DEF OneStage, Awaits
  <2> QED BY <1>1, <1>3, <1>6, <2>1, <2>2, <2>3 DEF StageData, NextAt, NoResp
<1>8. \A d \in Clients \ {c} : DataSame(d)
  BY <1>1, <1>4 DEF DataSame, Arrive
<1>9. \A w \in Workers : \A i \in Slots(w) :
        TaskAt(w, i).client = c => TaskAt(w, i).kind = "PREFETCH"
  BY <1>1, NotWithServer
<1> QED BY <1>1, <1>5, <1>7, <1>8, <1>9, DataFrame

-----------------------------------------------------------------------------
(* The steps of the server. *)

(* Slot i of w holds what slot j did, and as much has been done about it. *)
SlotKept(w, i, j) ==
  /\ j \in Slots(w) /\ TaskAt(w, i)' = TaskAt(w, j)
  /\ sess'[TaskAt(w, j).client] = sess[TaskAt(w, j).client]
  /\ Pending(w, i)' = Pending(w, j) /\ Resuming(w, i)' = Resuming(w, j)
  /\ wres'[w] = wres[w] \/ (Pending(w, j) /\ ~Resuming(w, j))

(* A step of the server is a step for one client. *)
LEMMA ServerDataFrame ==
  ASSUME TypeOK, DataInv, NEW c \in Clients, UNCHANGED clientVars,
         \A d \in Clients \ {c} : sess'[d] = sess[d] /\ resp'[d] = resp[d] /\ req'[d] = req[d],
         StageData(c)',
         \A w \in Workers : \A i \in Slots(w)' :
           \/ TaskAt(w, i)'.kind \in {"PREFETCH", "UPDATE"}
           \/ SlotData(w, i)'
           \/ \E j \in Slots(w) : SlotKept(w, i, j)
  PROVE  DataInv'
<1>1. ASSUME NEW d \in Clients
      PROVE  /\ Base(d)' = Base(d) /\ Batch(d)' = Batch(d) /\ After(d)' = After(d)
             /\ CursorData(d)'
  <2>1. Base(d)' = Base(d)
    BY DEF Base, clientVars, cursorVars
  <2>2. Batch(d)' = Batch(d)
    BY <2>1 DEF Batch, clientVars, cursorVars
  <2>3. After(d)' = After(d)
    BY <2>1, <2>2 DEF After
  <2>4. CursorData(d)
    BY DEF DataInv
  <2>5. CursorData(d)'
    BY <2>1, <2>4 DEF CursorData, clientVars, cursorVars
  <2> QED BY <2>1, <2>2, <2>3, <2>5
<1>2. ASSUME NEW d \in Clients \ {c} PROVE StageData(d)'
  <2>1. StageData(d)
    BY DEF DataInv
  <2> QED BY <1>1, <2>1 DEF StageData, NextAt, clientVars, cursorVars
<1>3. ASSUME NEW w \in Workers, NEW i \in Slots(w)' PROVE SlotData(w, i)'
  <2>1. CASE TaskAt(w, i)'.kind \in {"PREFETCH", "UPDATE"}
    BY <2>1 DEF SlotData
  <2>2. ASSUME NEW j \in Slots(w), SlotKept(w, i, j) PROVE SlotData(w, i)'
    <3>1. SlotData(w, j) /\ TaskAt(w, j).client \in Clients
      BY SlotTyping DEF DataInv
    <3> QED BY <1>1, <2>2, <3>1 DEF SlotData, SlotKept, NextAt, clientVars, cursorVars
  <2> QED BY <2>1, <2>2
<1> QED BY <1>1, <1>2, <1>3 DEF DataInv

LEMMA PollData ==
  ASSUME TypeOK, SessionInv, DataInv, NEW c \in Clients, Poll(c)
  PROVE  DataInv'
<1>1. /\ req[c] # "none" /\ AddTask(req[c], c) /\ req' = [req EXCEPT ![c] = "none"]
      /\ UNCHANGED clientVars
      /\ wpc' = wpc /\ wtask' = wtask /\ wres' = wres /\ sess' = sess /\ resp' = resp
  BY DEF Poll, workerVars
<1>2. req[c] \in Kinds /\ req \in [Clients -> Requests \cup {"none"}]
  BY <1>1 DEF TypeOK, NetTypeOK, Kinds
<1>3. PICK k \in Kinds : k = req[c]
  BY <1>2
<1>4. PICK v \in Workers, n \in Nat :
        /\ n > 0 /\ TaskAt(v, n)' = [kind |-> k, client |-> c]
        /\ \A w \in Workers : \A i \in Slots(w) :
             i \in Slots(w)' /\ TaskAt(w, i)' = TaskAt(w, i)
        /\ \A w \in Workers : \A i \in Slots(w)' : i \in Slots(w) \/ (w = v /\ i = n)
  BY <1>1, <1>3, SlotsMore
<1>5. OneStage(c) /\ StageData(c)
  BY DEF SessionInv, DataInv
<1>6. Base(c)' = Base(c) /\ Batch(c)' = Batch(c) /\ After(c)' = After(c)
  BY <1>1 DEF Base, Batch, After, clientVars, cursorVars
<1>7. StageData(c)'
  <2>1. req'[c] = "none"
    BY <1>1, <1>2
  <2> QED BY <1>1, <1>5, <1>6, <2>1 DEF StageData, NextAt, clientVars, cursorVars
<1>8. ASSUME NEW w \in Workers, NEW i \in Slots(w)'
      PROVE  SlotData(w, i)' \/ \E j \in Slots(w) : SlotKept(w, i, j)
  <2>1. CASE i \in Slots(w)
    <3>1. /\ TaskAt(w, i)' = TaskAt(w, i) /\ Pending(w, i)' = Pending(w, i)
          /\ Resuming(w, i)' = Resuming(w, i)
      BY <1>1, <1>4, <2>1 DEF Pending, Resuming
    <3> QED BY <1>1, <2>1, <3>1 DEF SlotKept
  <2>2. CASE w = v /\ i = n
    <3>1. TaskAt(w, i)' = [kind |-> k, client |-> c] /\ Pending(w, i)' /\ ~Resuming(w, i)'
      BY <1>4, <2>2 DEF Pending, Resuming
    <3> QED BY <1>1, <1>3, <1>5, <1>6, <3>1
            DEF SlotData, StageData, NextAt, clientVars, cursorVars
  <2> QED BY <1>4, <2>1, <2>2
<1>9. \A d \in Clients \ {c} : sess'[d] = sess[d] /\ resp'[d] = resp[d] /\ req'[d] = req[d]
  BY <1>1, <1>2
<1> QED BY <1>1, <1>7, <1>8, <1>9, ServerDataFrame

LEMMA TakeData ==
  ASSUME TypeOK, DataInv, NEW w \in Workers, Take(w)
  PROVE  DataInv'
<1>1. /\ UNCHANGED clientVars /\ wpc[w] = "idle" /\ wpc'[w] = "run"
      /\ req' = req /\ resp' = resp /\ sess' = sess /\ wres' = wres
  BY DEF Take, netVars, TypeOK, WorkerTypeOK
<1>2. /\ \A i \in Slots(w)' : /\ i + 1 \in Slots(w) /\ TaskAt(w, i)' = TaskAt(w, i + 1)
                              /\ Pending(w, i)' /\ i \in Nat
      /\ \A v \in Workers \ {w} :
           /\ Slots(v)' = Slots(v)
           /\ \A i \in Slots(v) : TaskAt(v, i)' = TaskAt(v, i) /\ Pending(v, i)' = Pending(v, i)
      /\ \A v \in Workers \ {w} : wpc'[v] = wpc[v]
      /\ \A i \in Slots(w) : i > 0
  BY SlotsTake
<1>3. ASSUME NEW v \in Workers, NEW i \in Slots(v)'
      PROVE  \E j \in Slots(v) : SlotKept(v, i, j)
  <2>1. CASE v = w
    <3>1. i \in Nat /\ i + 1 > 0 /\ i + 1 # 0
      BY <1>2, <2>1
    <3>2. Pending(w, i)' = Pending(w, i + 1) /\ Resuming(w, i)' = Resuming(w, i + 1)
      BY <1>1, <3>1 DEF Pending, Resuming
    <3> QED BY <1>1, <1>2, <2>1, <3>2 DEF SlotKept
  <2>2. CASE v # w
    <3>1. Resuming(v, i)' = Resuming(v, i)
      BY <1>2, <2>2 DEF Resuming
    <3> QED BY <1>1, <1>2, <2>2, <3>1 DEF SlotKept
  <2> QED BY <2>1, <2>2
<1>4. PICK c \in Clients : TRUE
  <2>1. Len(ctasks[w]) \in Nat \ {0} /\ ctasks[w] \in Seq(Tasks)
    BY DEF Take, GetTask, TypeOK, QueueTypeOK
  <2>2. 1 \in Slots(w)
    BY <1>1, <2>1 DEF Slots
  <2> QED BY <2>2, SlotTyping
<1>5. StageData(c)'
  <2>1. Base(c)' = Base(c) /\ Batch(c)' = Batch(c) /\ After(c)' = After(c) /\ StageData(c)
    BY <1>1 DEF Base, Batch, After, clientVars, cursorVars, DataInv
  <2> QED BY <1>1, <2>1 DEF StageData, NextAt, clientVars, cursorVars
<1> QED BY <1>1, <1>3, <1>5, ServerDataFrame

(* A worker goes on with its task: all other slots stay as they are. *)
LEMMA WorkerDataFrame ==
  ASSUME TypeOK, SessionInv, DataInv, NEW w \in Workers, wpc[w] # "idle",
         NEW c \in Clients, c = wtask[w].client, wtask[w].kind # "PREFETCH",
         UNCHANGED <<clientVars, req, resp, wtask>>, wpc'[w] # "idle",
         \A v \in Workers \ {w} : wpc'[v] = wpc[v] /\ wres'[v] = wres[v],
         \A d \in Clients \ {c} : sess'[d] = sess[d],
         UNCHANGED ctasks \/ AddTask("PREFETCH", c),
         wtask[w].kind = "UPDATE" \/ SlotData(w, 0)' \/ SlotKept(w, 0, 0)
  PROVE  DataInv'
<1>1. req' = req /\ resp' = resp
  OBVIOUS
<1>2. SlotOK(w, 0) /\ TaskAt(w, 0) = wtask[w] /\ TaskAt(w, 0)' = wtask[w] /\ 0 \in Slots(w)
  BY HeldAlone, HeldSlot DEF TaskAt
<1>3. StageData(c)'
  <2>1. Awaits(c) /\ req[c] = "none" /\ resp[c].kind = "none" /\ ~cq[c]
    BY <1>2 DEF SlotOK
  <2> QED BY <1>1, <2>1 DEF StageData, Awaits, clientVars, cursorVars
<1>4. \A v \in Workers : \A i \in Slots(v)' :
        \/ TaskAt(v, i)'.kind = "PREFETCH"
        \/ i \in Slots(v) /\ TaskAt(v, i)' = TaskAt(v, i)
  <2>1. CASE UNCHANGED ctasks
    BY <2>1, SlotsSame
  <2>2. CASE AddTask("PREFETCH", c)
    <3>1. PICK v \in Workers, n \in Nat :
            /\ TaskAt(v, n)' = [kind |-> "PREFETCH", client |-> c]
            /\ \A u \in Workers : \A i \in Slots(u) :
                 i \in Slots(u)' /\ TaskAt(u, i)' = TaskAt(u, i)
            /\ \A u \in Workers : \A i \in Slots(u)' : i \in Slots(u) \/ (u = v /\ i = n)
      BY <2>2, SlotsMore DEF Kinds
    <3> QED BY <3>1
  <2> QED BY <2>1, <2>2
<1>5. ASSUME NEW v \in Workers, NEW i \in Slots(v)'
      PROVE  \/ TaskAt(v, i)'.kind \in {"PREFETCH", "UPDATE"}
             \/ SlotData(v, i)'
             \/ \E j \in Slots(v) : SlotKept(v, i, j)
  <2>1. CASE v = w /\ i = 0
    BY <1>2, <2>1
  <2>2. CASE TaskAt(v, i)'.kind = "PREFETCH"
    BY <2>2
  <2>3. CASE /\ v # w \/ i # 0
             /\ i \in Slots(v) /\ TaskAt(v, i)' = TaskAt(v, i)
             /\ TaskAt(v, i)'.kind # "PREFETCH"
    <3>1. i \in Nat /\ TaskAt(v, i).client \in Clients
      BY <2>3, SlotTyping
    <3>2. TaskAt(v, i).client # c
      BY <1>2, <2>3, HeldAlone DEF SameToken
    <3>3. /\ Pending(v, i)' = Pending(v, i) /\ Resuming(v, i)' = Resuming(v, i)
          /\ wres'[v] = wres[v] \/ (Pending(v, i) /\ ~Resuming(v, i))
      BY <2>3, <3>1 DEF Pending, Resuming
    <3> QED BY <2>3, <3>1, <3>2, <3>3 DEF SlotKept
  <2> QED BY <1>4, <2>1, <2>2, <2>3
<1> QED BY <1>1, <1>3, <1>5, ServerDataFrame

LEMMA PcStepData ==
  ASSUME TypeOK, SessionInv, DataInv, NEW w \in Workers, DoUpdate(w) \/ WaitBatch(w) \/ ReadSize(w)
  PROVE  DataInv'
<1>1. /\ wpc[w] \in {"run", "size"} /\ wpc'[w] \in {"wait", "reply"}
      /\ wtask[w].kind \in {"UPDATE", "GETRANGE"}
      /\ \A v \in Workers \ {w} : wpc'[v] = wpc[v]
      /\ UNCHANGED <<clientVars, req, resp, ctasks, wtask, wres, sess>>
  BY DEF DoUpdate, WaitBatch, ReadSize, Run, TypeOK, WorkerTypeOK, netVars
<1>2. wtask[w].kind = "UPDATE" \/ SlotKept(w, 0, 0)
  <2>1. 0 \in Slots(w) /\ TaskAt(w, 0)' = TaskAt(w, 0)
    BY <1>1, HeldSlot DEF TaskAt
  <2>2. CASE DoUpdate(w)
    BY <2>2 DEF DoUpdate, Run
  <2>3. CASE WaitBatch(w)
    <3>1. wpc[w] = "run" /\ wpc'[w] = "wait"
      BY <2>3 DEF WaitBatch, Run, TypeOK, WorkerTypeOK
    <3> QED BY <1>1, <2>1, <3>1 DEF SlotKept, Pending, Resuming
  <2>4. CASE ReadSize(w)
    <3>1. wpc[w] = "size" /\ wpc'[w] = "reply"
      BY <2>4 DEF ReadSize, TypeOK, WorkerTypeOK
    <3> QED BY <1>1, <2>1, <3>1 DEF SlotKept, Pending, Resuming
  <2> QED BY <2>2, <2>3, <2>4
<1>3. wtask[w].client \in Clients
  BY <1>1, HeldSlot
<1>4. /\ \A v \in Workers \ {w} : wres'[v] = wres[v]
      /\ \A d \in Clients : sess'[d] = sess[d]
  BY <1>1
<1> QED BY <1>1, <1>2, <1>3, <1>4, WorkerDataFrame

(* The first batch of a range, and the range_ptr that goes on behind it. *)
LEMMA OpenRangeData ==
  ASSUME TypeOK, SessionInv, DataInv, NEW w \in Workers, OpenRange(w)
  PROVE  DataInv'
<1>1. /\ wpc[w] = "run" /\ wpc'[w] = "reply" /\ \A v \in Workers \ {w} : wpc'[v] = wpc[v]
      /\ wtask[w].kind = "RANGE" /\ UNCHANGED <<clientVars, req, resp, wtask>>
      /\ total' = total
  BY DEF OpenRange, Run, TypeOK, WorkerTypeOK, clientVars, cursorVars, netVars
<1>2. PICK c \in Clients : c = wtask[w].client
  BY <1>1, HeldSlot
<1>3. SlotOK(w, 0) /\ SlotData(w, 0) /\ Pending(w, 0) /\ TaskAt(w, 0) = wtask[w]
  BY <1>1, HeldAlone, HeldSlot DEF DataInv
<1>4. Base(c) = 0 /\ ~sess[c].live
  BY <1>1, <1>2, <1>3 DEF SlotData, SlotOK
<1>5. PICK batch \in Batches : batch = GetItems(total[c], 0) /\ batch = Batch(c) /\ batch.num \in Nat
  BY <1>4, ClientFacts DEF Batch
<1>6. /\ Base(c)' = Base(c) /\ Batch(c)' = batch /\ After(c)' = batch.num
  <2>1. Base(c)' = Base(c)
    BY <1>1 DEF Base, clientVars, cursorVars
  <2>2. Batch(c)' = batch
    BY <1>1, <1>5, <2>1 DEF Batch
  <2>3. After(c)' = batch.num
    BY <1>4, <1>5, <2>1, <2>2 DEF After
  <2> QED BY <2>1, <2>2, <2>3
<1>7. wres'[w] = batch /\ \A v \in Workers \ {w} : wres'[v] = wres[v]
  BY <1>2, <1>5 DEF OpenRange, TypeOK, WorkerTypeOK
<1>8. /\ sess'[c].live => NextAt(c, batch.num)'
      /\ \A d \in Clients \ {c} : sess'[d] = sess[d]
      /\ UNCHANGED ctasks \/ AddTask("PREFETCH", c)
  <2>1. CASE batch.more
    <3>1. /\ sess' = [sess EXCEPT ![c] =
                        [NoSession EXCEPT !.live = TRUE, !.n = total[c], !.pos = batch.num]]
          /\ AddTask("PREFETCH", c)
      BY <1>2, <1>5, <2>1 DEF OpenRange
    <3>2. /\ sess'[c].n = total[c] /\ sess'[c].pos = batch.num /\ sess'[c].hasItems = FALSE
          /\ \A d \in Clients \ {c} : sess'[d] = sess[d]
      BY <3>1 DEF TypeOK, SessTypeOK, NoSession
    <3> QED BY <1>1, <3>1, <3>2 DEF NextAt
  <2>2. CASE ~batch.more
    BY <1>2, <1>4, <1>5, <2>2 DEF OpenRange
  <2> QED BY <2>1, <2>2
<1>9. SlotData(w, 0)'
  <2>1. TaskAt(w, 0)' = wtask[w] /\ ~Pending(w, 0)' /\ ~Resuming(w, 0)'
    BY <1>1 DEF TaskAt, Pending, Resuming
  <2> QED BY <1>1, <1>2, <1>6, <1>7, <1>8, <2>1 DEF SlotData
<1> QED BY <1>1, <1>2, <1>7, <1>8, <1>9, WorkerDataFrame

(* update_range takes the batch that follows what the cursor has. *)
LEMMA TakeBatchData ==
  ASSUME TypeOK, SessionInv, DataInv, NEW w \in Workers, TakeBatch(w)
  PROVE  DataInv'
<1>1. /\ wpc[w] = "run" /\ wpc'[w] = "resume" /\ \A v \in Workers \ {w} : wpc'[v] = wpc[v]
      /\ wtask[w].kind = "GETRANGE" /\ UNCHANGED <<clientVars, req, resp, ctasks, wtask>>
      /\ total' = total
  BY DEF TakeBatch, Run, TypeOK, WorkerTypeOK, clientVars, cursorVars, netVars
<1>2. PICK c \in Clients : c = wtask[w].client
  BY <1>1, HeldSlot
<1>3. SlotData(w, 0) /\ Pending(w, 0) /\ ~Resuming(w, 0) /\ TaskAt(w, 0) = wtask[w]
  BY <1>1, HeldAlone, HeldSlot DEF DataInv, Resuming
<1>4. NextAt(c, Base(c)) /\ sess[c].hasItems
  BY <1>1, <1>2, <1>3 DEF SlotData, TakeBatch
<1>5. /\ sess[c].n = total[c] /\ sess[c].res = Batch(c) /\ sess[c].pos = After(c)
  BY <1>4 DEF NextAt, Batch, After
<1>6. /\ wres'[w] = sess[c].res /\ \A v \in Workers \ {w} : wres'[v] = wres[v]
      /\ sess'[c].n = sess[c].n /\ sess'[c].pos = sess[c].pos /\ sess'[c].hasItems = FALSE
      /\ \A d \in Clients \ {c} : sess'[d] = sess[d]
  BY <1>2 DEF TakeBatch, TypeOK, WorkerTypeOK, SessTypeOK, Sessions
<1>7. Base(c)' = Base(c) /\ Batch(c)' = Batch(c) /\ After(c)' = After(c)
  BY <1>1 DEF Base, Batch, After, clientVars, cursorVars
<1>8. NextAt(c, After(c))'
  BY <1>1, <1>5, <1>6, <1>7 DEF NextAt
<1>9. SlotData(w, 0)'
  <2>1. TaskAt(w, 0)' = wtask[w] /\ Pending(w, 0)' /\ Resuming(w, 0)'
    BY <1>1 DEF TaskAt, Pending, Resuming
  <2> QED BY <1>1, <1>2, <1>5, <1>6, <1>7, <1>8, <2>1 DEF SlotData
<1> QED BY <1>1, <1>2, <1>6, <1>9, WorkerDataFrame

LEMMA ResumeData ==
  ASSUME TypeOK, SessionInv, DataInv, NEW w \in Workers, Resume(w)
  PROVE  DataInv'
<1>1. /\ wpc[w] = "resume" /\ wpc'[w] = "size" /\ \A v \in Workers \ {w} : wpc'[v] = wpc[v]
      /\ wtask[w].kind = "GETRANGE" /\ UNCHANGED <<clientVars, req, resp, wtask, wres>>
      /\ wres' = wres /\ total' = total
  BY DEF Resume, TypeOK, WorkerTypeOK, clientVars, cursorVars, netVars
<1>2. PICK c \in Clients : c = wtask[w].client
  BY <1>1, HeldSlot
<1>3. SlotData(w, 0) /\ Resuming(w, 0) /\ TaskAt(w, 0) = wtask[w]
  BY <1>1, HeldAlone, HeldSlot DEF DataInv, Resuming
<1>4. wres[w] = Batch(c) /\ NextAt(c, After(c))
  BY <1>1, <1>2, <1>3 DEF SlotData
<1>5. /\ sess'[c].n = sess[c].n /\ sess'[c].pos = sess[c].pos /\ sess'[c].res = sess[c].res
      /\ sess'[c].hasItems = sess[c].hasItems
      /\ \A d \in Clients \ {c} : sess'[d] = sess[d]
      /\ UNCHANGED ctasks \/ AddTask("PREFETCH", c)
  BY <1>2 DEF Resume, Delete, TypeOK, SessTypeOK, Sessions
<1>6. Base(c)' = Base(c) /\ Batch(c)' = Batch(c) /\ After(c)' = After(c)
  BY <1>1 DEF Base, Batch, After, clientVars, cursorVars
<1>7. NextAt(c, After(c))'
  BY <1>1, <1>4, <1>5, <1>6 DEF NextAt
<1>8. SlotData(w, 0)'
  <2>1. TaskAt(w, 0)' = wtask[w] /\ ~Pending(w, 0)' /\ ~Resuming(w, 0)'
    BY <1>1 DEF TaskAt, Pending, Resuming
  <2> QED BY <1>1, <1>2, <1>4, <1>6, <1>7, <2>1 DEF SlotData
<1> QED BY <1>1, <1>2, <1>5, <1>8, WorkerDataFrame

LEMMA ReplyData ==
  ASSUME TypeOK, SessionInv, DataInv, NEW w \in Workers, Reply(w)
  PROVE  DataInv'
<1>1. /\ wpc[w] = "reply" /\ wpc'[w] = "idle" /\ wtask[w].kind \in Requests
      /\ \A v \in Workers \ {w} :
           wpc'[v] = wpc[v] /\ wtask'[v] = wtask[v] /\ wres'[v] = wres[v]
      /\ UNCHANGED <<clientVars, req, ctasks, sess>> /\ sess' = sess /\ req' = req
  BY DEF Reply, TypeOK, WorkerTypeOK
<1>2. PICK c \in Clients : c = wtask[w].client
  BY <1>1, HeldSlot
<1>3. /\ resp'[c] = [kind |-> wtask[w].kind, res |-> wres[w], size |-> wsize[w]]
      /\ \A d \in Clients \ {c} : resp'[d] = resp[d]
  BY <1>2 DEF Reply, TypeOK, NetTypeOK
<1>4. SlotOK(w, 0) /\ SlotData(w, 0) /\ TaskAt(w, 0) = wtask[w] /\ ~Pending(w, 0)
  BY <1>1, HeldAlone, HeldSlot DEF Pending, DataInv
<1>5. Base(c)' = Base(c) /\ Batch(c)' = Batch(c) /\ After(c)' = After(c)
  BY <1>1 DEF Base, Batch, After, clientVars, cursorVars
<1>6. StageData(c)'
  <2>1. Awaits(c) /\ req[c] = "none" /\ ~cq[c]
    BY <1>1, <1>2, <1>4 DEF SlotOK, Requests
  <2>2. wtask[w].kind \in {"RANGE", "GETRANGE"} =>
          wres[w] = Batch(c) /\ (sess[c].live => NextAt(c, After(c)))
    BY <1>2, <1>4 DEF SlotData
  <2> QED BY <1>1, <1>3, <1>5, <2>1, <2>2 DEF StageData, NextAt, Awaits, clientVars, cursorVars
<1>7. ASSUME NEW v \in Workers, NEW i \in Slots(v)'
      PROVE  \E j \in Slots(v) : SlotKept(v, i, j)
  <2>1. i \in Slots(v) /\ TaskAt(v, i)' = TaskAt(v, i) /\ (v = w => i > 0)
    BY <1>1, SlotsLess
  <2>2. i \in Nat
    BY <2>1, SlotTyping
  <2>3. /\ Pending(v, i)' = Pending(v, i) /\ Resuming(v, i)' = Resuming(v, i)
        /\ wres'[v] = wres[v] \/ (Pending(v, i) /\ ~Resuming(v, i))
    BY <1>1, <2>1, <2>2 DEF Pending, Resuming
  <2> QED BY <1>1, <2>1, <2>3 DEF SlotKept
<1> QED BY <1>1, <1>3, <1>6, <1>7, ServerDataFrame

(* A prefetch gets the batch at which the range_ptr stands. *)
LEMMA PrefetchData ==
  ASSUME TypeOK, SessionInv, DataInv, NEW w \in Workers, Prefetch(w)
  PROVE  DataInv'
<1>1. /\ wpc[w] = "run" /\ wtask[w].kind = "PREFETCH"
      /\ UNCHANGED <<clientVars, netVars, ctasks, wres>>
      /\ req' = req /\ resp' = resp /\ wres' = wres /\ total' = total
  BY DEF Prefetch, Run, netVars, clientVars, cursorVars
<1>2. PICK c \in Clients : c = wtask[w].client
  BY <1>1, HeldSlot
<1>3. /\ wpc'[w] = "idle"
      /\ \A v \in Workers \ {w} :
           /\ wtask'[v] = wtask[v]
           /\ wpc'[v] = IF wpc[v] = "wait" /\ wtask[v].client = c THEN "run" ELSE wpc[v]
  BY <1>2 DEF Prefetch, Woken, TypeOK, WorkerTypeOK
<1>4. ~sess[c].hasItems /\ sess[c].live
  BY <1>1, <1>2, HeldAlone, HeldSlot DEF SlotOK
<1>5. /\ \A d \in Clients \ {c} : sess'[d] = sess[d]
      /\ sess'[c].n = sess[c].n /\ sess'[c].hasItems = TRUE /\ sess'[c].live = sess[c].live
      /\ sess'[c].res = GetItems(sess[c].n, sess[c].pos)
      /\ sess'[c].pos = sess[c].pos + sess'[c].res.num
  <2> DEFINE batch == GetItems(sess[c].n, sess[c].pos)
             s == [sess[c] EXCEPT !.hasItems = TRUE, !.res = batch,
                                  !.size = batch.num + 1, !.pos = @ + batch.num]
  <2>1. sess[c] \in Sessions
    BY DEF TypeOK, SessTypeOK
  <2>2. sess' = [sess EXCEPT ![c] = s]
    BY <1>2 DEF Prefetch
  <2> HIDE DEF batch
  <2>3. /\ s.live = sess[c].live /\ s.hasItems = TRUE /\ s.res = batch
        /\ s.n = sess[c].n /\ s.pos = sess[c].pos + batch.num
    BY <2>1 DEF Sessions
  <2> HIDE DEF s
  <2>4. sess'[c] = s /\ \A d \in Clients \ {c} : sess'[d] = sess[d]
    BY <2>2 DEF TypeOK, SessTypeOK
  <2> QED BY <2>3, <2>4 DEF batch
<1>7. Base(c)' = Base(c) /\ Batch(c)' = Batch(c) /\ After(c)' = After(c)
  BY <1>1 DEF Base, Batch, After, clientVars, cursorVars
<1>8. NextAt(c, Base(c)) => NextAt(c, Base(c))'
  <2>1. NextAt(c, Base(c)) =>
          /\ sess[c].n = total[c] /\ sess[c].pos = Base(c)
    BY <1>4 DEF NextAt
  <2> QED BY <1>1, <1>5, <1>7, <2>1 DEF NextAt
<1>9. NextAt(c, After(c)) => NextAt(c, After(c))'
  <2>1. NextAt(c, After(c)) =>
          /\ sess[c].n = total[c] /\ sess[c].pos = After(c)
    BY <1>4 DEF NextAt
  <2> QED BY <1>1, <1>5, <1>7, <2>1 DEF NextAt
<1>10. StageData(c)'
  <2>1. StageData(c)
    BY DEF DataInv
  <2> QED BY <1>1, <1>5, <1>7, <1>8, <1>9, <2>1 DEF StageData, clientVars, cursorVars
<1>11. ASSUME NEW v \in Workers, NEW i \in Slots(v)'
       PROVE  SlotData(v, i)' \/ \E j \in Slots(v) : SlotKept(v, i, j)
  <2>1. i \in Slots(v) /\ TaskAt(v, i)' = TaskAt(v, i) /\ (v = w => i > 0)
    BY <1>1, <1>3, SlotsLess
  <2>2. i \in Nat /\ TaskAt(v, i).client \in Clients /\ SlotData(v, i)
    BY <2>1, SlotTyping DEF DataInv
  <2>3. Pending(v, i)' = Pending(v, i) /\ Resuming(v, i)' = Resuming(v, i)
    BY <1>1, <1>3, <2>1, <2>2 DEF Pending, Resuming
  <2>4. CASE TaskAt(v, i).client # c
    BY <1>1, <1>5, <2>1, <2>2, <2>3, <2>4 DEF SlotKept
  <2>5. CASE TaskAt(v, i).client = c
    BY <1>1, <1>5, <1>7, <1>8, <1>9, <2>1, <2>2, <2>3, <2>5 DEF SlotData
  <2> QED BY <2>4, <2>5
<1> QED BY <1>1, <1>5, <1>10, <1>11, ServerDataFrame

-----------------------------------------------------------------------------
LEMMA InitData == Init => DataInv
<1> SUFFICES ASSUME Init PROVE DataInv
  OBVIOUS
<1>1. \A w \in Workers : Slots(w) = {}
  BY DEF Init, Slots
<1>2. ASSUME NEW c \in Clients PROVE CursorData(c) /\ StageData(c)
  <2>1. /\ cpc[c] = "idle" /\ delivered[c] = <<>> /\ total[c] = 0 /\ scans[c] = 0
        /\ req[c] = "none" /\ resp[c].kind = "none" /\ cq[c] = FALSE
    BY DEF Init, NoResp
  <2>2. Base(c) = 0 /\ Len(delivered[c]) = 0
    BY <2>1 DEF Base
  <2> QED BY <2>1, <2>2 DEF CursorData, StageData
<1> QED BY <1>1, <1>2 DEF DataInv

LEMMA DataStep ==
  ASSUME TypeOK, BatchesFull, HeadersOK, SessionInv, DataInv, [Next]_vars
  PROVE  DataInv'
<1>1. ASSUME NEW w \in Workers, WorkerStep(w) PROVE DataInv'
  BY <1>1, TakeData, PcStepData, OpenRangeData, TakeBatchData, ResumeData, ReplyData,
     PrefetchData DEF WorkerStep
<1>2. CASE UNCHANGED vars
  <2>1. ASSUME NEW c \in Clients
        PROVE  /\ Base(c)' = Base(c) /\ Batch(c)' = Batch(c) /\ After(c)' = After(c)
               /\ CursorData(c)' /\ StageData(c)'
    <3>1. DataSame(c) /\ CursorData(c) /\ StageData(c) /\ sess' = sess
      BY <1>2 DEF DataInv, DataSame, vars, clientVars, cursorVars, netVars
    <3>2. /\ Base(c)' = Base(c) /\ Batch(c)' = Batch(c) /\ After(c)' = After(c)
          /\ CursorData(c)'
      BY <3>1, SameCursor
    <3> QED BY <3>1, <3>2 DEF DataSame, StageData, NextAt
  <2>2. ASSUME NEW w \in Workers, NEW i \in Slots(w)' PROVE SlotData(w, i)'
    <3>1. i \in Slots(w)
      BY <1>2 DEF vars, workerVars, Slots
    <3>2. SlotData(w, i) /\ TaskAt(w, i).client \in Clients
      BY <3>1, SlotTyping DEF DataInv
    <3>3. /\ TaskAt(w, i)' = TaskAt(w, i) /\ Pending(w, i)' = Pending(w, i)
          /\ Resuming(w, i)' = Resuming(w, i) /\ wres' = wres /\ sess' = sess /\ total' = total
      BY <1>2
      DEF vars, clientVars, cursorVars, workerVars, TaskAt, Pending, Resuming
    <3> QED BY <2>1, <3>2, <3>3 DEF SlotData, NextAt
  <2> QED BY <2>1, <2>2 DEF DataInv
<1> QED BY <1>1, <1>2, ClientStepData, ArriveData, PollData DEF Next

DataGood == SessionGood /\ DataInv

LEMMA DataInductive == Spec => [](HeadersSent => DataGood)
<1>1. (HeadersSent => SessionGood)' /\ (HeadersSent => DataGood) /\ [Next]_vars
        => (HeadersSent => DataGood)'
  BY DataStep, LostStays DEF DataGood, SessionGood
<1>2. (HeadersSent => SessionGood) /\ DataInv => (HeadersSent => DataGood)
  BY DEF DataGood
<1> QED BY <1>1, <1>2, InitData, SessionInductive, PTL DEF Spec

(* A cursor yields no more items than the index cursor goes through, and    *)
(* becomes invalid only after as many, whatever their checksums: a cut      *)
(* batch holds a cursor up or gives it wrong keys, but never too few or too *)
(* many.  Only a reply without its header can.                             *)
CountExact ==
  HeadersSent =>
  \A c \in Clients :
    /\ Len(delivered[c]) <= total[c]
    /\ cpc[c] = "idle" /\ scans[c] > 0 => Len(delivered[c]) = total[c]

LEMMA DataCounts == ASSUME TypeOK, DataInv PROVE CountExact
<1> SUFFICES ASSUME NEW c \in Clients
             PROVE  /\ Len(delivered[c]) <= total[c]
                    /\ cpc[c] = "idle" /\ scans[c] > 0 => Len(delivered[c]) = total[c]
  BY DEF CountExact
<1>1. /\ index[c] \in Nat /\ code[c].num \in Nat
      /\ cpc[c] = "have" => index[c] < code[c].num
  BY CapAssumption DEF TypeOK, CursorTypeOK, ClientTypeOK
<1>2. CursorData(c) /\ Len(delivered[c]) \in Nat /\ total[c] \in Nat /\ Base(c) <= total[c]
  BY ClientFacts DEF DataInv
<1>3. Len(delivered[c]) <= total[c]
  <2>1. CASE cpc[c] = "have"
    <3>1. Base(c) = Len(delivered[c]) + (code[c].num - index[c])
      BY <2>1 DEF Base
    <3>2. \A l, n, i, m \in Nat : i < n /\ l + (n - i) <= m => l <= m
      OBVIOUS
    <3>3. Len(delivered[c]) + (code[c].num - index[c]) <= total[c]
      BY <1>2, <3>1
    <3> QED BY <1>1, <1>2, <2>1, <3>2, <3>3
  <2>2. CASE cpc[c] # "have"
    BY <1>2, <2>2 DEF Base
  <2> QED BY <2>1, <2>2
<1> QED BY <1>2, <1>3 DEF CursorData

(* The cursors of hp-range-search yield as many items as the index cursors  *)
(* of their ranges, as long as every reply has its header                  *)
(* (cursor_imp::next, update_query, get_items).                            *)
THEOREM RangeCountExact == Spec => []CountExact
<1>1. (HeadersSent => DataGood) => CountExact
  BY DataCounts DEF DataGood, SessionGood, CountExact
<1> QED BY <1>1, DataInductive, PTL

-----------------------------------------------------------------------------
(* What may be found in a buffer where a batch is expected: the part of the *)
(* batch that was sent, and what older batches left.                        *)

Sizes(c) == ArrivingSizes(total[c], Base(c))

(* The sizes of a reply with so many items of it. *)
Wire(c) == {0} \cup {k + 1 : k \in Sizes(c)}

WorkerSize(w) ==
  LET c == wtask[w].client
  IN  /\ wpc[w] \in {"resume", "size"} => sess[c].size \in Wire(c)
      /\ wpc[w] = "reply" /\ wtask[w].kind # "UPDATE" => wsize[w] \in Wire(c)

BufferMix(c) ==
  /\ Base(c) \in Starts(total[c])
  /\ sess[c].hasItems => sess[c].size = sess[c].res.num + 1
  /\ cpc[c] = "exchange" => posted[c] \in {PacketBuf, NoBuf}
  /\ resp[c].kind \in {"RANGE", "GETRANGE"} => resp[c].size \in Wire(c)
  /\ \A b \in 0 .. 1 : \A i \in 1 .. Cap : buf[c][b].items[i] \in Left(i)
  /\ cpc[c] = "check" \/ (cq[c] /\ cpc[c] # "exchange") =>
       \E m \in Sizes(c) : \A i \in 1 .. Batch(c).num :
         i <= m => buf[c][cur[c]].items[i] = KeyOf(Base(c) + i)

MixInv ==
  /\ \A w \in Workers : WorkerSize(w)
  /\ \A c \in Clients : BufferMix(c)

LEMMA StartsStep ==
  ASSUME NEW n \in Nat, NEW p \in Starts(n)
  PROVE  p \in 0 .. n /\ Advance(n, p) \in Starts(n)
<1>1. /\ Cap \in Nat \ {0} /\ p \in 0 .. n /\ p \in Nat
      /\ p = n \/ \E j \in 0 .. p : p = j * Cap
  BY CapAssumption DEF Starts
<1>2. Advance(n, p) \in 0 .. n /\ (Advance(n, p) = n \/ Advance(n, p) = p + Cap)
  BY <1>1 DEF Advance, MinOf
<1>3. CASE Advance(n, p) = n
  BY <1>1, <1>2, <1>3 DEF Starts
<1>4. CASE Advance(n, p) # n
  <2>1. p # n
    <3>1. p = n => ~(p + Cap < n)
      BY <1>1
    <3> QED BY <1>1, <1>4, <3>1 DEF Advance, MinOf
  <2>2. PICK j \in 0 .. p : p = j * Cap
    BY <1>1, <2>1
  <2>3. \A k, m \in Nat : (k + 1) * m = k * m + m
    OBVIOUS
  <2>4. j \in Nat /\ p + Cap = (j + 1) * Cap
    BY <1>1, <2>2, <2>3
  <2>5. j + 1 \in 0 .. p + Cap
    BY <1>1, <2>2
  <2> QED BY <1>1, <1>2, <1>4, <2>4, <2>5 DEF Starts
<1> QED BY <1>1, <1>3, <1>4

LEMMA StartsZero == ASSUME NEW n \in Nat PROVE 0 \in Starts(n)
<1>1. Cap \in Nat /\ 0 \in 0 .. n /\ 0 \in 0 .. 0
  BY CapAssumption
<1>2. 0 = 0 * Cap
  BY <1>1
<1> QED BY <1>1, <1>2 DEF Starts

LEMMA GetItemsKeys ==
  ASSUME NEW n \in Ranges, NEW pos \in Nat, pos <= n
  PROVE  \A i \in 1 .. GetItems(n, pos).num :
           i \in 1 .. Cap /\ GetItems(n, pos).items[i] = KeyOf(pos + i)
<1>1. GetItems(n, pos).num \in 0 .. Cap /\ Cap \in Nat
  BY BatchFacts, CapAssumption
<1>2. \A i \in 1 .. GetItems(n, pos).num : i \in 1 .. Cap
  BY <1>1
<1>3. \A i \in 1 .. Cap : i \in 1 .. GetItems(n, pos).num =>
                            GetItems(n, pos).items[i] = KeyOf(pos + i)
  BY DEF GetItems
<1> QED BY <1>2, <1>3

LEMMA LeftBatch ==
  ASSUME NEW n \in Ranges, NEW p \in Starts(n), NEW i
  PROVE  GetItems(n, p).items[i] \in Left(i)
  BY DEF Left

(* ... and a buffer that was never written is no worse. *)
LEMMA BlankLeft == \A i \in 1 .. Cap : Blank.items[i] \in Left(i)
<1>1. 0 \in Starts(0) /\ 0 \in Ranges
  BY StartsZero, RangesTyping
<1>2. \A i \in 1 .. Cap : GetItems(0, 0).items[i] = 0
  <2>1. Advance(0, 0) = 0
    BY CapAssumption DEF Advance, MinOf
  <2> QED BY <2>1 DEF GetItems
<1>3. \A i \in 1 .. Cap : 0 \in Left(i)
  BY <1>1, <1>2, LeftBatch
<1> QED BY <1>3 DEF Blank

(* Both are what they were, if their client's part is. *)
LEMMA SameMix ==
  ASSUME NEW d, DataSame(d), sess'[d] = sess[d]
  PROVE  Sizes(d)' = Sizes(d) /\ Wire(d)' = Wire(d) /\ (BufferMix(d) => BufferMix(d)')
<1>1. Base(d)' = Base(d) /\ Batch(d)' = Batch(d)
  BY SameCursor
<1>2. Sizes(d)' = Sizes(d) /\ Wire(d)' = Wire(d)
  BY <1>1 DEF Sizes, Wire, DataSame
<1> QED BY <1>1, <1>2 DEF BufferMix, DataSame

(* As many items of a batch as it has, or as the next one has, or fewer. *)
LEMMA SizesTyping ==
  ASSUME TypeOK, DataInv, NEW c \in Clients, NEW m \in Sizes(c)
  PROVE  m \in Nat
<1>1. /\ Base(c) \in Nat /\ total[c] \in Ranges /\ Batch(c).num \in 0 .. Cap
      /\ After(c) \in 0 .. total[c] /\ total[c] \in Nat
  BY ClientFacts
<1>2. GetItems(total[c], After(c)).num \in 0 .. Cap
  BY <1>1, BatchFacts
<1> QED BY <1>1, <1>2, CapAssumption DEF Sizes, ArrivingSizes, Batch, After

LEMMA ClientMixFrame ==
  ASSUME TypeOK, SessionInv, MixInv, NEW c \in Clients, UNCHANGED <<ctasks, workerVars, sess>>,
         \A d \in Clients \ {c} : DataSame(d), BufferMix(c)',
         ~Awaits(c) \/ Sizes(c)' = Sizes(c)
  PROVE  MixInv'
<1>1. /\ wpc' = wpc /\ wtask' = wtask /\ wsize' = wsize /\ sess' = sess
  BY DEF workerVars
<1>2. \A d \in Clients \ {c} : Sizes(d)' = Sizes(d) /\ Wire(d)' = Wire(d) /\ BufferMix(d)'
  BY <1>1, SameMix DEF MixInv
<1>3. ASSUME NEW w \in Workers PROVE WorkerSize(w)'
  <2>1. WorkerSize(w)
    BY DEF MixInv
  <2>2. CASE wpc[w] \in {"resume", "size", "reply"}
    <3>1. PICK d \in Clients : d = wtask[w].client /\ SlotOK(w, 0) /\ TaskAt(w, 0) = wtask[w]
      BY <2>2, HeldSlot, HeldAlone
    <3>2. wtask[w].kind # "PREFETCH"
      BY <2>2 DEF TypeOK, WorkerTypeOK, Requests
    <3>3. Awaits(d)
      BY <3>1, <3>2 DEF SlotOK
    <3>4. Sizes(d)' = Sizes(d) /\ Wire(d)' = Wire(d)
      BY <1>2, <3>3 DEF Wire
    <3> QED BY <1>1, <2>1, <3>1, <3>4 DEF WorkerSize
  <2>3. CASE wpc[w] \notin {"resume", "size", "reply"}
    BY <1>1, <2>3 DEF WorkerSize
  <2> QED BY <2>2, <2>3
<1> QED BY <1>2, <1>3 DEF MixInv

(* A step of a client changes nothing of the others. *)
LEMMA ClientStepElse ==
  ASSUME TypeOK, NEW c \in Clients, ClientStep(c)
  PROVE  (\A d \in Clients \ {c} : DataSame(d)) /\ UNCHANGED <<ctasks, workerVars, sess>>
<1>1. CASE \E n \in Totals : \E m \in Passes(n) : Find(c, n, m)
  BY <1>1 DEF Find, DataSame
<1>2. CASE Update(c)
  BY <1>2 DEF Update, DataSame, cursorVars
<1>5. CASE ExchangeDone(c)
  BY <1>5 DEF ExchangeDone, DataSame, cursorVars, netVars
<1>6. CASE HReceive(c)
  BY <1>6 DEF HReceive, DataSame, cursorVars, netVars
<1>7. CASE NextItem(c)
  BY <1>7 DEF NextItem, DataSame, netVars
<1>3. CASE Accept(c)
  <2>1. \A d \in Clients \ {c} : req'[d] = req[d] /\ posted'[d] = posted[d]
    <3>1. CASE buf[c][cur[c]].more
      BY <1>3, <3>1 DEF Accept, TypeOK, NetTypeOK, ClientTypeOK
    <3>2. CASE ~buf[c][cur[c]].more
      BY <1>3, <3>2 DEF Accept
    <3> QED BY <3>1, <3>2
  <2> QED BY <1>3, <2>1 DEF Accept, DataSame
<1>4. CASE Recheck(c)
  BY <1>4 DEF Recheck, DataSame, vars, clientVars, cursorVars, netVars
<1> QED BY <1>1, <1>2, <1>3, <1>4, <1>5, <1>6, <1>7 DEF ClientStep

LEMMA ClientStepMix ==
  ASSUME TypeOK, BatchesFull, SessionInv, DataInv, MixInv, NEW c \in Clients, ClientStep(c)
  PROVE  MixInv'
<1>0. OneStage(c) /\ BufferMix(c)
  BY DEF SessionInv, MixInv
<1>q. ASSUME BufferMix(c)', ~Awaits(c) \/ (Base(c)' = Base(c) /\ total' = total)
      PROVE  MixInv'
  BY <1>q, ClientStepElse, ClientMixFrame DEF Sizes
<1>s. sess' = sess
  BY ClientStepElse
<1>1. ASSUME NEW n \in Totals, NEW m \in Passes(n), Find(c, n, m) PROVE MixInv'
  <2>1. /\ cpc[c] = "idle" /\ cpc'[c] = "receive" /\ delivered'[c] = <<>>
        /\ total'[c] = m /\ m \in Nat /\ resp' = resp /\ cq' = cq
    BY <1>1, RangesTyping DEF Find, TypeOK, CursorTypeOK, ClientTypeOK
  <2>2. ~Awaits(c) /\ resp[c].kind = "none" /\ ~cq[c]
    BY <1>0, <2>1 DEF OneStage, Awaits
  <2>3. Base(c)' = 0
    BY <2>1 DEF Base
  <2>4. BufferMix(c)'
    <3>1. \A b \in 0 .. 1 : \A i \in 1 .. Cap : buf'[c][b].items[i] \in Left(i)
      <4>1. PICK first \in {Blank, buf[c][0], buf[c][1]}, second \in {Blank, buf[c][0], buf[c][1]} :
              buf' = [buf EXCEPT ![c] = [i \in 0 .. 1 |-> IF i = 0 THEN Cleared(first) ELSE second]]
        BY <1>1 DEF Find
      <4>2. first \in Batches
        BY BlankTyping DEF TypeOK, CursorTypeOK
      <4>3. /\ \A i \in 1 .. Cap : first.items[i] \in Left(i)
            /\ \A i \in 1 .. Cap : second.items[i] \in Left(i)
        BY <1>0, BlankLeft DEF BufferMix
      <4>4. Cleared(first).items = first.items
        BY <4>2 DEF Cleared, Batches
      <4>5. \A b \in 0 .. 1 : buf'[c][b] = IF b = 0 THEN Cleared(first) ELSE second
        BY <4>1 DEF TypeOK, CursorTypeOK
      <4> QED BY <4>3, <4>4, <4>5
    <3> QED BY <1>0, <1>s, <2>1, <2>2, <2>3, <3>1, StartsZero DEF BufferMix
  <2> QED BY <1>q, <2>2, <2>4
<1>2. CASE Update(c) \/ ExchangeDone(c)
  <2>1. /\ cpc[c] \in {"idle", "exchange"} /\ cpc'[c] \in {"idle", "exchange"}
        /\ delivered' = delivered /\ total' = total /\ resp' = resp /\ buf' = buf
        /\ resp[c].kind = "none" /\ (cpc'[c] = "idle" => ~cq'[c])
        /\ cpc'[c] = "exchange" => posted'[c] = PacketBuf
    BY <1>0, <1>2 DEF Update, ExchangeDone, OneStage, Awaits, cursorVars, netVars, TypeOK,
                      ClientTypeOK
  <2>2. Base(c)' = Base(c)
    BY <2>1 DEF Base
  <2>3. BufferMix(c)'
    BY <1>0, <1>s, <2>1, <2>2 DEF BufferMix
  <2> QED BY <1>q, <2>1, <2>2, <2>3
<1>3. CASE HReceive(c)
  <2>1. /\ cpc[c] = "receive" /\ cpc'[c] = "check" /\ cq[c] /\ resp[c].kind = "none"
        /\ delivered' = delivered /\ total' = total /\ resp' = resp /\ buf' = buf
        /\ cur' = cur
    BY <1>0, <1>3 DEF HReceive, OneStage, cursorVars, netVars, TypeOK, ClientTypeOK
  <2>2. Base(c)' = Base(c) /\ Batch(c)' = Batch(c)
    BY <2>1 DEF Base, Batch
  <2>3. Sizes(c)' = Sizes(c) /\ Wire(c)' = Wire(c)
    BY <2>1, <2>2 DEF Sizes, Wire
  <2>4. BufferMix(c)'
    BY <1>0, <1>s, <2>1, <2>2, <2>3 DEF BufferMix
  <2> QED BY <1>q, <2>1, <2>2, <2>4
<1>4. CASE Accept(c)
  <2>1. /\ cpc[c] = "check" /\ cpc'[c] \in {"have", "idle"}
        /\ buf' = buf /\ total' = total /\ resp' = resp /\ cq' = cq
    BY <1>4 DEF Accept, TypeOK, ClientTypeOK
  <2>2. ~Awaits(c) /\ resp[c].kind = "none" /\ ~cq[c]
    BY <1>0, <2>1 DEF OneStage, Awaits
  <2>3. Base(c)' = After(c)
    BY <1>4, AcceptData
  <2>4. After(c) \in Starts(total[c])
    <3>1. /\ Base(c) \in Nat /\ Base(c) <= total[c] /\ total[c] \in Ranges /\ total[c] \in Nat
          /\ Base(c) \in Starts(total[c])
      BY <1>0, ClientFacts DEF BufferMix
    <3>2. /\ Batch(c).num = Advance(total[c], Base(c)) - Base(c)
          /\ Advance(total[c], Base(c)) \in Nat
      BY <3>1, GetItemsTyping DEF Batch
    <3>3. After(c) = Advance(total[c], Base(c))
      BY <3>1, <3>2 DEF After
    <3> QED BY <3>1, <3>3, StartsStep
  <2>5. BufferMix(c)'
    BY <1>0, <1>s, <2>1, <2>2, <2>3, <2>4 DEF BufferMix
  <2> QED BY <1>q, <2>2, <2>5
<1>5. CASE Recheck(c)
  <2>1. DataSame(c) /\ cpc[c] = "check"
    BY <1>5 DEF Recheck, DataSame, vars, clientVars, cursorVars, netVars
  <2>2. BufferMix(c)' /\ ~Awaits(c)
    BY <1>0, <1>s, <2>1, SameMix DEF Awaits
  <2> QED BY <1>q, <2>2
<1>6. CASE NextItem(c)
  <2>1. /\ cpc[c] = "have" /\ cpc'[c] \in {"have", "receive", "idle"}
        /\ total' = total /\ resp' = resp /\ buf' = buf /\ cur' = cur /\ cq' = cq
    BY <1>6 DEF NextItem, netVars, TypeOK, ClientTypeOK
  <2>2. Base(c)' = Base(c)
    BY <1>6, NextItemData
  <2>3. Sizes(c)' = Sizes(c) /\ Wire(c)' = Wire(c) /\ Batch(c)' = Batch(c)
    BY <2>1, <2>2 DEF Sizes, Wire, Batch
  <2>4. BufferMix(c)'
    BY <1>0, <1>s, <2>1, <2>2, <2>3 DEF BufferMix
  <2> QED BY <1>q, <2>1, <2>2, <2>4
<1> QED BY <1>1, <1>2, <1>3, <1>4, <1>5, <1>6 DEF ClientStep

(* A reply covers as much of the buffer as was sent of it. *)
LEMMA ArriveMix ==
  ASSUME TypeOK, HeadersOK, SessionInv, DataInv, MixInv, NEW c \in Clients, Arrive(c)
  PROVE  MixInv'
<1>0. OneStage(c) /\ BufferMix(c) /\ StageData(c)
  BY DEF SessionInv, MixInv, DataInv
<1>1. /\ resp[c].kind # "none" /\ posted[c] # NoBuf /\ resp'[c] = NoResp
      /\ cpc' = cpc /\ cur' = cur /\ code' = code /\ index' = index /\ total' = total
      /\ delivered' = delivered /\ req' = req /\ sess' = sess /\ cpc[c] # "check"
      /\ posted'[c] = NoBuf
      /\ UNCHANGED <<ctasks, workerVars, sess>>
  BY <1>0 DEF Arrive, TypeOK, NetTypeOK, ClientTypeOK, OneStage, Awaits
<1>2. Base(c)' = Base(c) /\ Batch(c)' = Batch(c)
  BY <1>1 DEF Base, Batch
<1>3. Sizes(c)' = Sizes(c)
  BY <1>1, <1>2 DEF Sizes
<1>4. \A d \in Clients \ {c} : DataSame(d)
  <2>1. \A d \in Clients \ {c} : buf'[d] = buf[d]
    BY ArriveOther
  <2> QED BY <1>1, <2>1 DEF DataSame, Arrive
<1>5. CASE posted[c] = PacketBuf
  <2>1. buf' = buf /\ cpc[c] = "exchange"
    BY <1>0, <1>5 DEF Arrive, OneStage
  <2>2. BufferMix(c)'
    BY <1>0, <1>1, <1>2, <2>1 DEF BufferMix, NoResp
  <2> QED BY <1>1, <1>3, <1>4, <2>2, ClientMixFrame
<1>6. CASE posted[c] # PacketBuf
  <2>1. /\ posted[c] = cur[c] /\ cur[c] \in 0 .. 1 /\ resp[c].kind \in Requests
        /\ buf[c] \in [0 .. 1 -> Batches] /\ resp[c].size \in 0 .. Cap + 1
    BY <1>0, <1>1, <1>6
    DEF OneStage, NoBuf, PacketBuf, TypeOK, NetTypeOK, ClientTypeOK, CursorTypeOK, Replies
  <2>2. PICK old \in Batches : old = buf[c][cur[c]]
    BY <2>1
  <2>n. cpc[c] # "exchange" /\ resp[c].kind \in {"RANGE", "GETRANGE"} /\ resp[c].size # 0
    <3>1. cpc[c] # "exchange"
      BY <1>0, <2>1 DEF BufferMix, NoBuf, PacketBuf
    <3>2. resp[c].kind \in {"RANGE", "GETRANGE"}
      BY <1>0, <2>1, <3>1 DEF OneStage, Requests
    <3> QED BY <3>1, <3>2 DEF HeadersOK
  <2>3. PICK m \in Sizes(c) : m \in 0 .. Cap /\ resp[c].size = m + 1
    <3>1. resp[c].size \in Wire(c)
      BY <1>0, <2>n DEF BufferMix
    <3>2. PICK m \in Sizes(c) : resp[c].size = m + 1
      BY <2>n, <3>1 DEF Wire
    <3>3. m \in Nat
      BY <3>2, SizesTyping
    <3> QED BY <2>1, <3>2, <3>3, CapAssumption
  <2>4. /\ buf'[c][cur[c]] = Landed(old, resp[c].res, m + 1)
        /\ \A b \in 0 .. 1 : b # cur[c] => buf'[c][b] = buf[c][b]
    BY <1>6, <2>1, <2>2, <2>3 DEF Arrive, TypeOK, CursorTypeOK
  <2>5. PICK b \in Batches : b = resp[c].res
    BY DEF TypeOK, NetTypeOK, Replies
  <2>6. /\ Base(c) \in Nat /\ Base(c) <= total[c] /\ total[c] \in Ranges
        /\ Base(c) \in Starts(total[c])
    BY <1>0, ClientFacts DEF BufferMix
  <2>7. \A i \in 1 .. Cap : buf'[c][cur[c]].items[i] = IF i <= m THEN b.items[i] ELSE old.items[i]
    <3>1. m + 1 # 0 /\ (m + 1) - 1 = m
      BY <2>3, CapAssumption
    <3> QED BY <2>4, <2>5, <3>1 DEF Landed, Batches
  <2>8. b = Batch(c)
    BY <1>0, <2>n, <2>5 DEF StageData
  <2>9. \A i \in 1 .. Cap : b.items[i] \in Left(i) /\ old.items[i] \in Left(i)
    BY <1>0, <2>1, <2>2, <2>6, <2>8, LeftBatch DEF Batch, BufferMix
  <2>10. \A i \in 1 .. Cap : buf'[c][cur[c]].items[i] \in Left(i)
    BY <2>7, <2>9
  <2>11. \A i \in 1 .. Batch(c).num : i \in 1 .. Cap /\ b.items[i] = KeyOf(Base(c) + i)
    BY <2>6, <2>8, GetItemsKeys DEF Batch
  <2>12. \A i \in 1 .. Batch(c).num :
           i <= m => buf'[c][cur[c]].items[i] = KeyOf(Base(c) + i)
    BY <2>7, <2>11
  <2>13. \A d \in 0 .. 1 : \A i \in 1 .. Cap : buf'[c][d].items[i] \in Left(i)
    BY <1>0, <2>4, <2>10 DEF BufferMix
  <2>14. BufferMix(c)'
    BY <1>0, <1>1, <1>2, <1>3, <2>n, <2>3, <2>12, <2>13 DEF BufferMix, NoResp
  <2> QED BY <1>1, <1>3, <1>4, <2>14, ClientMixFrame
<1> QED BY <1>5, <1>6

(* A step of a worker, for one client. *)
LEMMA WorkerMixFrame ==
  ASSUME MixInv, NEW c \in Clients, UNCHANGED clientVars,
         \A d \in Clients \ {c} : sess'[d] = sess[d] /\ resp'[d] = resp[d],
         sess'[c].hasItems => sess'[c].size = sess'[c].res.num + 1,
         resp'[c].kind \in {"RANGE", "GETRANGE"} => resp'[c].size \in Wire(c),
         \A v \in Workers :
           \/ wpc'[v] \in {"idle", "run", "wait"}
           \/ WorkerSize(v)'
           \/ /\ wtask[v].client \in Clients
              /\ wpc'[v] = wpc[v] /\ wtask'[v] = wtask[v] /\ wsize'[v] = wsize[v]
              /\ sess'[wtask[v].client] = sess[wtask[v].client]
  PROVE  MixInv'
<1>1. ASSUME NEW d \in Clients
      PROVE  Base(d)' = Base(d) /\ Batch(d)' = Batch(d) /\ Sizes(d)' = Sizes(d) /\ Wire(d)' = Wire(d)
  <2>1. Base(d)' = Base(d)
    BY DEF Base, clientVars, cursorVars
  <2> QED BY <2>1 DEF Batch, Sizes, Wire, clientVars, cursorVars
<1>2. ASSUME NEW d \in Clients PROVE BufferMix(d)'
  <2>1. BufferMix(d)
    BY DEF MixInv
  <2>2. CASE d = c
    BY <1>1, <2>1, <2>2 DEF BufferMix, clientVars, cursorVars
  <2>3. CASE d # c
    BY <1>1, <2>1, <2>3 DEF BufferMix, clientVars, cursorVars
  <2> QED BY <2>2, <2>3
<1>3. ASSUME NEW v \in Workers PROVE WorkerSize(v)'
  <2>1. WorkerSize(v)
    BY DEF MixInv
  <2>2. CASE wpc'[v] \in {"idle", "run", "wait"}
    BY <2>2 DEF WorkerSize
  <2>3. CASE /\ wtask[v].client \in Clients
             /\ wpc'[v] = wpc[v] /\ wtask'[v] = wtask[v] /\ wsize'[v] = wsize[v]
             /\ sess'[wtask[v].client] = sess[wtask[v].client]
    <3>1. PICK d \in Clients : d = wtask[v].client
      BY <2>3
    <3>2. Sizes(d)' = Sizes(d) /\ Wire(d)' = Wire(d)
      BY <1>1
    <3> QED BY <2>1, <2>3, <3>1, <3>2 DEF WorkerSize
  <2> QED BY <2>2, <2>3
<1> QED BY <1>2, <1>3 DEF MixInv

(* The other workers are not busy with a batch of the same client. *)
LEMMA OtherSizes ==
  ASSUME TypeOK, SessionInv, NEW w \in Workers, wpc[w] # "idle", wtask[w].kind # "PREFETCH",
         NEW v \in Workers \ {w}
  PROVE  \/ wpc[v] \in {"idle", "run", "wait"}
         \/ wtask[v].client \in Clients /\ wtask[v].client # wtask[w].client
<1> SUFFICES ASSUME wpc[v] \in {"resume", "size", "reply"}
             PROVE  wtask[v].client \in Clients /\ wtask[v].client # wtask[w].client
  BY DEF TypeOK, WorkerTypeOK
<1>1. wtask[v].kind # "PREFETCH"
  BY DEF TypeOK, WorkerTypeOK, Requests
<1> QED BY <1>1, HeldAlone, HeldSlot DEF SameToken

LEMMA BatchSize == ASSUME NEW c PROVE Batch(c).num + 1 \in Wire(c)
  BY DEF Batch, Sizes, Wire, ArrivingSizes

LEMMA WorkerStepMix ==
  ASSUME TypeOK, SessionInv, DataInv, MixInv, NEW w \in Workers, WorkerStep(w)
  PROVE  MixInv'
<1>1. CASE Take(w)
  <2>1. /\ UNCHANGED clientVars /\ resp' = resp /\ sess' = sess /\ wsize' = wsize
        /\ wpc'[w] = "run"
        /\ \A v \in Workers \ {w} : wpc'[v] = wpc[v] /\ wtask'[v] = wtask[v]
    BY <1>1 DEF Take, GetTask, netVars, TypeOK, WorkerTypeOK
  <2>2. PICK c \in Clients : TRUE
    <3>1. Len(ctasks[w]) \in Nat \ {0} /\ ctasks[w] \in Seq(Tasks) /\ wpc[w] = "idle"
      BY <1>1 DEF Take, GetTask, TypeOK, QueueTypeOK
    <3>2. 1 \in Slots(w)
      BY <3>1 DEF Slots
    <3> QED BY <3>2, SlotTyping
  <2>3. BufferMix(c)
    BY DEF MixInv
  <2>4. \A v \in Workers \ {w} : wpc[v] = "idle" \/ wtask[v].client \in Clients
    BY HeldSlot
  <2> QED BY <2>1, <2>3, <2>4, WorkerMixFrame DEF BufferMix
<1> SUFFICES ASSUME wpc[w] # "idle", NEW c \in Clients, c = wtask[w].client PROVE MixInv'
  <2>1. CASE wpc[w] = "idle"
    BY <1>1, <2>1 DEF WorkerStep, DoUpdate, OpenRange, WaitBatch, TakeBatch, Resume, ReadSize,
                      Reply, Prefetch, Run
  <2> QED BY <2>1, HeldSlot
<1>0. /\ BufferMix(c) /\ WorkerSize(w)
      /\ SlotOK(w, 0) /\ SlotData(w, 0) /\ TaskAt(w, 0) = wtask[w]
  BY HeldAlone, HeldSlot DEF MixInv, DataInv
<1>q. ASSUME UNCHANGED clientVars, wtask[w].kind # "PREFETCH",
             \A d \in Clients \ {c} : sess'[d] = sess[d] /\ resp'[d] = resp[d],
             sess'[c].hasItems => sess'[c].size = sess'[c].res.num + 1,
             resp'[c].kind \in {"RANGE", "GETRANGE"} => resp'[c].size \in Wire(c),
             \A v \in Workers \ {w} :
               wpc'[v] = wpc[v] /\ wtask'[v] = wtask[v] /\ wsize'[v] = wsize[v],
             wpc'[w] \in {"idle", "run", "wait"} \/ WorkerSize(w)'
      PROVE  MixInv'
  <2>1. \A v \in Workers \ {w} :
          \/ wpc'[v] \in {"idle", "run", "wait"}
          \/ /\ wtask[v].client \in Clients
             /\ sess'[wtask[v].client] = sess[wtask[v].client]
    BY <1>q, OtherSizes
  <2> QED BY <1>q, <2>1, WorkerMixFrame
<1>s. UNCHANGED clientVars => Wire(c)' = Wire(c)
  <2>1. UNCHANGED clientVars => Base(c)' = Base(c)
    BY DEF Base, clientVars, cursorVars
  <2> QED BY <2>1 DEF Sizes, Wire, clientVars, cursorVars
<1>2. CASE DoUpdate(w) \/ WaitBatch(w)
  <2>1. /\ UNCHANGED clientVars /\ resp' = resp /\ sess' = sess /\ wsize' = wsize
        /\ wtask' = wtask /\ wtask[w].kind \in {"UPDATE", "GETRANGE"}
        /\ wpc'[w] = "wait" \/ (wpc'[w] = "reply" /\ wtask[w].kind = "UPDATE")
        /\ \A v \in Workers \ {w} : wpc'[v] = wpc[v]
    BY <1>2 DEF DoUpdate, WaitBatch, Run, netVars, TypeOK, WorkerTypeOK
  <2>2. wpc'[w] = "wait" \/ WorkerSize(w)'
    BY <2>1 DEF WorkerSize
  <2> QED BY <1>0, <1>q, <2>1, <2>2 DEF BufferMix
<1>3. CASE OpenRange(w)
  <2>1. /\ UNCHANGED clientVars /\ resp' = resp /\ wtask' = wtask
        /\ wtask[w].kind = "RANGE" /\ wpc[w] = "run" /\ wpc'[w] = "reply"
        /\ wsize'[w] = GetItems(total[c], 0).num + 1
        /\ \A v \in Workers \ {w} : wpc'[v] = wpc[v] /\ wsize'[v] = wsize[v]
    BY <1>3 DEF OpenRange, Run, netVars, TypeOK, WorkerTypeOK
  <2>2. Base(c) = 0
    BY <1>0, <2>1 DEF SlotData, Pending
  <2>3. /\ \A d \in Clients \ {c} : sess'[d] = sess[d]
        /\ sess'[c].hasItems => sess'[c].size = sess'[c].res.num + 1
    <3>1. CASE GetItems(total[c], 0).more
      <4>1. /\ sess'[c].hasItems = FALSE
            /\ \A d \in Clients \ {c} : sess'[d] = sess[d]
        BY <1>3, <3>1 DEF OpenRange, TypeOK, SessTypeOK, NoSession
      <4> QED BY <4>1
    <3>2. CASE ~GetItems(total[c], 0).more
      BY <1>0, <1>3, <3>2 DEF OpenRange, BufferMix
    <3> QED BY <3>1, <3>2
  <2>4. WorkerSize(w)'
    <3>1. wsize'[w] \in Wire(c)'
      BY <1>s, <2>1, <2>2, BatchSize DEF Batch
    <3> QED BY <2>1, <3>1 DEF WorkerSize
  <2> QED BY <1>0, <1>q, <2>1, <2>3, <2>4 DEF BufferMix
<1>4. CASE TakeBatch(w)
  <2>1. /\ UNCHANGED clientVars /\ resp' = resp /\ wtask' = wtask /\ wsize' = wsize
        /\ wtask[w].kind = "GETRANGE" /\ wpc[w] = "run" /\ wpc'[w] = "resume"
        /\ \A v \in Workers \ {w} : wpc'[v] = wpc[v]
        /\ sess[c].hasItems /\ sess'[c].hasItems = FALSE /\ sess'[c].size = sess[c].size
        /\ \A d \in Clients \ {c} : sess'[d] = sess[d]
    BY <1>4 DEF TakeBatch, Run, netVars, TypeOK, WorkerTypeOK, SessTypeOK, Sessions
  <2>2. NextAt(c, Base(c))
    BY <1>0, <2>1 DEF SlotData, Pending, Resuming
  <2>3. sess[c].size = Batch(c).num + 1
    BY <1>0, <2>1, <2>2 DEF NextAt, Batch, BufferMix
  <2>4. WorkerSize(w)'
    <3>1. sess'[c].size \in Wire(c)'
      BY <1>s, <2>1, <2>3, BatchSize
    <3> QED BY <2>1, <3>1 DEF WorkerSize
  <2> QED BY <1>0, <1>q, <2>1, <2>4 DEF BufferMix
<1>5. CASE Resume(w)
  <2>1. /\ UNCHANGED clientVars /\ resp' = resp /\ wtask' = wtask /\ wsize' = wsize
        /\ wtask[w].kind = "GETRANGE" /\ wpc[w] = "resume" /\ wpc'[w] = "size"
        /\ \A v \in Workers \ {w} : wpc'[v] = wpc[v]
        /\ sess'[c].hasItems = sess[c].hasItems /\ sess'[c].size = sess[c].size
        /\ sess'[c].res = sess[c].res
        /\ \A d \in Clients \ {c} : sess'[d] = sess[d]
    BY <1>5 DEF Resume, Delete, netVars, TypeOK, WorkerTypeOK, SessTypeOK, Sessions
  <2>2. WorkerSize(w)'
    <3>1. sess'[c].size \in Wire(c)'
      BY <1>0, <1>s, <2>1 DEF WorkerSize
    <3> QED BY <2>1, <3>1 DEF WorkerSize
  <2> QED BY <1>0, <1>q, <2>1, <2>2 DEF BufferMix
<1>6. CASE ReadSize(w)
  <2>1. /\ UNCHANGED clientVars /\ resp' = resp /\ sess' = sess /\ wtask' = wtask
        /\ wpc[w] = "size" /\ wpc'[w] = "reply" /\ wtask[w].kind = "GETRANGE"
        /\ \A v \in Workers \ {w} : wpc'[v] = wpc[v] /\ wsize'[v] = wsize[v]
        /\ wsize'[w] \in {sess[c].size} \cup (IF sess[c].live THEN {} ELSE FreedSizes)
    BY <1>6 DEF ReadSize, netVars, TypeOK, WorkerTypeOK
  <2>2. sess[c].live = Batch(c).more
    BY <1>0, <2>1 DEF SlotOK, SlotData, Pending
  <2>3. wsize'[w] \in Wire(c)
    <3>1. sess[c].size \in Wire(c)
      BY <1>0, <2>1 DEF WorkerSize
    <3>2. ~Batch(c).more => FreedSizes \subseteq Wire(c)
      <4> SUFFICES ASSUME ~Batch(c).more, NEW x \in FreedSizes PROVE x \in Wire(c)
        OBVIOUS
      <4>1. x \in 0 .. Cap + 1
        BY FreedAssumption
      <4>2. CASE x # 0
        <5>1. x - 1 \in 0 .. Cap /\ (x - 1) + 1 = x
          BY <4>1, <4>2, CapAssumption
        <5>2. x - 1 \in Sizes(c)
          BY <5>1 DEF Batch, Sizes, ArrivingSizes
        <5> QED BY <5>1, <5>2 DEF Wire
      <4> QED BY <4>2 DEF Wire
    <3> QED BY <2>1, <2>2, <3>1, <3>2
  <2>4. WorkerSize(w)'
    <3>1. wsize'[w] \in Wire(c)'
      BY <1>s, <2>1, <2>3
    <3> QED BY <2>1, <3>1 DEF WorkerSize
  <2> QED BY <1>0, <1>q, <2>1, <2>4 DEF BufferMix
<1>7. CASE Reply(w)
  <2>1. /\ UNCHANGED clientVars /\ sess' = sess /\ wpc[w] = "reply" /\ wpc'[w] = "idle"
        /\ wtask[w].kind \in Requests
        /\ resp'[c] = [kind |-> wtask[w].kind, res |-> wres[w], size |-> wsize[w]]
        /\ \A d \in Clients \ {c} : resp'[d] = resp[d]
        /\ \A v \in Workers \ {w} :
             wpc'[v] = wpc[v] /\ wtask'[v] = wtask[v] /\ wsize'[v] = wsize[v]
    BY <1>7 DEF Reply, TypeOK, WorkerTypeOK, NetTypeOK
  <2>2. resp'[c].kind \in {"RANGE", "GETRANGE"} => resp'[c].size \in Wire(c)
    BY <1>0, <2>1 DEF WorkerSize
  <2> QED BY <1>0, <1>q, <2>1, <2>2 DEF BufferMix, Requests
<1>8. CASE Prefetch(w)
  <2>1. /\ UNCHANGED clientVars /\ resp' = resp /\ wsize' = wsize
        /\ wpc[w] = "run" /\ wtask[w].kind = "PREFETCH" /\ wpc'[w] = "idle"
        /\ \A v \in Workers \ {w} :
             /\ wtask'[v] = wtask[v]
             /\ wpc'[v] = wpc[v] \/ wpc'[v] = "run"
    BY <1>8 DEF Prefetch, Run, Woken, netVars, TypeOK, WorkerTypeOK
  <2>2. /\ \A d \in Clients \ {c} : sess'[d] = sess[d]
        /\ sess'[c].res = GetItems(sess[c].n, sess[c].pos)
        /\ sess'[c].size = sess'[c].res.num + 1
    <3> DEFINE batch == GetItems(sess[c].n, sess[c].pos)
               s == [sess[c] EXCEPT !.hasItems = TRUE, !.res = batch,
                                    !.size = batch.num + 1, !.pos = @ + batch.num]
    <3>1. sess[c] \in Sessions
      BY DEF TypeOK, SessTypeOK
    <3>2. sess' = [sess EXCEPT ![c] = s]
      BY <1>8 DEF Prefetch
    <3> HIDE DEF batch
    <3>3. s.res = batch /\ s.size = batch.num + 1
      BY <3>1 DEF Sessions
    <3> HIDE DEF s
    <3>4. sess'[c] = s /\ \A d \in Clients \ {c} : sess'[d] = sess[d]
      BY <3>2 DEF TypeOK, SessTypeOK
    <3> QED BY <3>3, <3>4 DEF batch
  <2>3. sess[c].live /\ ~sess[c].hasItems /\ HasPrefetch(c)
    BY <1>0, <2>1, HeldSlot DEF SlotOK, HasPrefetch
  <2>4. ASSUME NEW v \in Workers \ {w}, wpc[v] \in {"resume", "size", "reply"},
               wtask[v].client = c
        PROVE  WorkerSize(v)' \/ wpc'[v] = "run"
    <3>1. CASE wpc[v] = "resume"
      <4>1. ~HasPrefetch(c)
        BY <2>4, <3>1 DEF SessionInv, WorkerOK
      <4> QED BY <2>3, <4>1
    <3>2. CASE wpc[v] = "size"
      <4>1. /\ SlotOK(v, 0) /\ SlotData(v, 0) /\ TaskAt(v, 0) = wtask[v]
            /\ wtask[v].kind = "GETRANGE" /\ ~Pending(v, 0)
        BY <3>2, HeldAlone, HeldSlot DEF DataInv, TypeOK, WorkerTypeOK
      <4>2. Batch(c).more /\ NextAt(c, After(c))
        BY <2>3, <2>4, <4>1 DEF SlotOK, SlotData
      <4>3. sess[c].n = total[c] /\ sess[c].pos = Base(c) + Batch(c).num
        BY <2>3, <4>2 DEF NextAt, After
      <4>4. sess'[c].size \in Wire(c)
        BY <2>2, <4>2, <4>3 DEF Wire, Sizes, ArrivingSizes, Batch
      <4>5. sess'[c].size \in Wire(c)'
        BY <1>s, <2>1, <4>4
      <4> QED BY <2>1, <2>4, <3>2, <4>5 DEF WorkerSize
    <3>3. CASE wpc[v] = "reply"
      <4>1. wsize[v] \in Wire(c) \/ wtask[v].kind = "UPDATE"
        BY <2>4, <3>3 DEF MixInv, WorkerSize
      <4>2. wsize'[v] \in Wire(c)' \/ wtask'[v].kind = "UPDATE"
        BY <1>s, <2>1, <4>1
      <4> QED BY <2>1, <2>4, <3>3, <4>2 DEF WorkerSize
    <3> QED BY <2>4, <3>1, <3>2, <3>3
  <2>5. ASSUME NEW v \in Workers
        PROVE  \/ wpc'[v] \in {"idle", "run", "wait"}
               \/ WorkerSize(v)'
               \/ /\ wtask[v].client \in Clients
                  /\ wpc'[v] = wpc[v] /\ wtask'[v] = wtask[v] /\ wsize'[v] = wsize[v]
                  /\ sess'[wtask[v].client] = sess[wtask[v].client]
    <3>1. CASE v = w
      BY <2>1, <3>1
    <3>2. CASE v # w /\ wpc[v] \in {"idle", "run", "wait"}
      BY <2>1, <3>2
    <3>3. CASE v # w /\ wpc[v] \notin {"idle", "run", "wait"}
      <4>1. wpc[v] \in {"resume", "size", "reply"} /\ wtask[v].client \in Clients
        BY <3>3, HeldSlot DEF TypeOK, WorkerTypeOK
      <4> QED BY <2>1, <2>2, <2>4, <3>3, <4>1
    <3> QED BY <3>1, <3>2, <3>3
  <2> QED BY <1>0, <2>1, <2>2, <2>5, WorkerMixFrame DEF BufferMix
<1> QED BY <1>1, <1>2, <1>3, <1>4, <1>5, <1>6, <1>7, <1>8 DEF WorkerStep

LEMMA InitMix == Init => MixInv
<1> SUFFICES ASSUME Init PROVE MixInv
  OBVIOUS
<1>1. \A w \in Workers : WorkerSize(w)
  BY DEF Init, WorkerSize
<1>2. ASSUME NEW c \in Clients PROVE BufferMix(c)
  <2>1. /\ cpc[c] = "idle" /\ delivered[c] = <<>> /\ total[c] = 0 /\ cq[c] = FALSE
        /\ resp[c].kind = "none" /\ sess[c].hasItems = FALSE
    BY DEF Init, NoResp, NoSession
  <2>2. Base(c) = 0
    BY <2>1 DEF Base
  <2>3. 0 \in Starts(0)
    BY StartsZero
  <2>4. \A b \in 0 .. 1 : \A i \in 1 .. Cap : buf[c][b].items[i] \in Left(i)
    BY BlankLeft DEF Init
  <2> QED BY <2>1, <2>2, <2>3, <2>4 DEF BufferMix
<1> QED BY <1>1, <1>2 DEF MixInv

LEMMA MixStep ==
  ASSUME TypeOK, BatchesFull, HeadersOK, SessionInv, DataInv, MixInv, [Next]_vars
  PROVE  MixInv'
<1>1. ASSUME UNCHANGED <<clientVars, resp, workerVars, sess>> PROVE MixInv'
  <2>1. ASSUME NEW d \in Clients
        PROVE  Base(d)' = Base(d) /\ Batch(d)' = Batch(d) /\ Sizes(d)' = Sizes(d) /\ Wire(d)' = Wire(d)
    <3>1. Base(d)' = Base(d)
      BY <1>1 DEF Base, clientVars, cursorVars
    <3> QED BY <1>1, <3>1 DEF Batch, Sizes, Wire, clientVars, cursorVars
  <2>2. ASSUME NEW d \in Clients PROVE BufferMix(d)'
    BY <1>1, <2>1 DEF MixInv, BufferMix, clientVars, cursorVars
  <2>3. ASSUME NEW w \in Workers PROVE WorkerSize(w)'
    <3>1. WorkerSize(w)
      BY DEF MixInv
    <3>2. CASE wpc[w] # "idle"
      <4>1. PICK d \in Clients : d = wtask[w].client
        BY <3>2, HeldSlot
      <4> QED BY <1>1, <2>1, <3>1, <4>1 DEF WorkerSize, workerVars
    <3>3. CASE wpc[w] = "idle"
      BY <1>1, <3>3 DEF WorkerSize, workerVars
    <3> QED BY <3>2, <3>3
  <2> QED BY <2>2, <2>3 DEF MixInv
<1>2. CASE UNCHANGED vars
  BY <1>1, <1>2 DEF vars, netVars
<1>3. ASSUME NEW c \in Clients, Poll(c) PROVE MixInv'
  BY <1>1, <1>3 DEF Poll
<1> QED BY <1>2, <1>3, ClientStepMix, ArriveMix, WorkerStepMix DEF Next

MixGood == DataGood /\ MixInv

LEMMA MixInductive == Spec => [](HeadersSent => MixGood)
<1>1. (HeadersSent => DataGood)' /\ (HeadersSent => MixGood) /\ [Next]_vars
        => (HeadersSent => MixGood)'
  BY MixStep, LostStays DEF MixGood, DataGood, SessionGood
<1>2. (HeadersSent => DataGood) /\ MixInv => (HeadersSent => MixGood)
  BY DEF MixGood
<1> QED BY <1>1, <1>2, InitMix, DataInductive, PTL DEF Spec

-----------------------------------------------------------------------------
(* The keys.  Only update_query's test of a batch depends on the checksum.  *)

KeyInv == \A c \in Clients : KeyData(c)

LEMMA AcceptKeys ==
  ASSUME ChecksumTells, TypeOK, DataInv, MixInv, KeyInv, NEW c \in Clients, Accept(c)
  PROVE  KeyData(c)'
<1>1. cur[c] \in 0 .. 1 /\ buf[c][cur[c]] \in Batches
  BY DEF TypeOK, CursorTypeOK
<1>2. PICK b \in Batches :
        /\ b = buf[c][cur[c]] /\ b.num \in 0 .. Cap /\ b.more \in BOOLEAN
        /\ b.items \in [1 .. Cap -> Keys]
  BY <1>1 DEF Batches
<1>3. /\ cpc[c] = "check" /\ cur'[c] = Flip(cur[c]) /\ buf' = buf /\ Intact(b)
      /\ code'[c] = [num |-> b.num, more |-> b.more] /\ index'[c] = 0
      /\ delivered' = delivered
  BY <1>2 DEF Accept, TypeOK, CursorTypeOK
<1>4. Base(c) = Len(delivered[c]) /\ SameHeader(b, Batch(c))
  BY <1>2, <1>3 DEF Base, DataInv, StageData
<1>5. Base(c) \in Nat /\ Base(c) <= total[c] /\ total[c] \in Ranges /\ total[c] \in Nat
  BY ClientFacts
<1>6. \A i \in 1 .. b.num : b.items[i] = KeyOf(Base(c) + i)
  <2> DEFINE s == [i \in 1 .. b.num |-> b.items[i]]
  <2>1. s \in [1 .. b.num -> Keys]
    <3>1. \A i \in 1 .. b.num : i \in 1 .. Cap
      BY <1>2, CapAssumption
    <3> QED BY <1>2, <3>1
  <2>2. Checksum(s) = b.sum
    BY <1>3, <1>2 DEF Intact
  <2> HIDE DEF s
  <2>3. /\ total[c] \in Ranges /\ Base(c) \in Starts(total[c])
        /\ GetItems(total[c], Base(c)).num = b.num
        /\ GetItems(total[c], Base(c)).sum = b.sum
    BY <1>4, <1>5 DEF SameHeader, Batch, MixInv, BufferMix
  <2>4. s \in MayHold(total[c], Base(c))
    <3>1. PICK m \in Sizes(c) :
            \A i \in 1 .. b.num : i <= m => b.items[i] = KeyOf(Base(c) + i)
      BY <1>2, <1>3, <2>3 DEF MixInv, BufferMix, Batch
    <3>2. \A i \in 1 .. b.num : i \in 1 .. Cap /\ b.items[i] \in Left(i)
      BY <1>1, <1>2, CapAssumption DEF MixInv, BufferMix
    <3>3. \A i \in 1 .. b.num :
            IF i <= m THEN s[i] = KeyOf(Base(c) + i) ELSE s[i] \in Left(i)
      BY <3>1, <3>2 DEF s
    <3> QED BY <2>1, <2>3, <3>1, <3>3 DEF MayHold, Sizes
  <2>5. \A i \in 1 .. b.num : s[i] = KeyOf(Base(c) + i)
    BY <2>2, <2>3, <2>4 DEF ChecksumTells
  <2> QED BY <2>5 DEF s
<1>7. /\ code'[c].num = b.num /\ b.num - 0 = b.num
      /\ \A i \in 1 .. b.num : 0 + i = i
  BY <1>2, <1>3
<1>8. Flip(cur'[c]) = cur[c]
  BY <1>1, <1>3 DEF Flip
<1>9. \A i \in 1 .. code'[c].num - index'[c] :
        buf'[c][Flip(cur'[c])].items[index'[c] + i] = KeyOf(Len(delivered'[c]) + i)
  <2>1. ASSUME NEW i \in 1 .. b.num
        PROVE  buf'[c][Flip(cur'[c])].items[0 + i] = KeyOf(Len(delivered'[c]) + i)
    BY <1>2, <1>3, <1>4, <1>6, <1>7, <1>8
  <2> QED BY <1>3, <1>7, <2>1
<1> QED BY <1>3, <1>9 DEF KeyInv, KeyData

LEMMA NextItemKeys ==
  ASSUME TypeOK, KeyInv, NEW c \in Clients, NextItem(c)
  PROVE  KeyData(c)'
<1>1. /\ cpc[c] = "have" /\ index'[c] = index[c] + 1
      /\ delivered'[c] = Append(delivered[c], buf[c][Flip(cur[c])].items[index[c] + 1])
      /\ buf' = buf /\ cur' = cur /\ code' = code
  BY DEF NextItem, TypeOK, CursorTypeOK
<1>2. /\ index[c] \in Nat /\ code[c].num \in 0 .. Cap /\ code[c].num \in Nat
      /\ index[c] < code[c].num /\ cur[c] \in 0 .. 1
      /\ delivered[c] \in Seq(Keys) /\ Len(delivered[c]) \in Nat
  BY <1>1, CapAssumption DEF TypeOK, CursorTypeOK, ClientTypeOK
<1>3. KeyData(c)
  BY DEF KeyInv
<1>4. buf[c][Flip(cur[c])].items[index[c] + 1] = KeyOf(Len(delivered[c]) + 1)
  <2>1. 1 \in 1 .. code[c].num - index[c]
    BY <1>2
  <2> QED BY <1>1, <1>3, <2>1 DEF KeyData
<1>5. PICK k \in Keys : k = buf[c][Flip(cur[c])].items[index[c] + 1]
  <2>1. Flip(cur[c]) \in 0 .. 1 /\ index[c] + 1 \in 1 .. Cap
    BY <1>2, FlipTyping, CapAssumption
  <2>2. buf[c][Flip(cur[c])].items \in [1 .. Cap -> Keys]
    BY <2>1 DEF TypeOK, CursorTypeOK, Batches
  <2> QED BY <2>1, <2>2
<1>6. /\ Len(delivered'[c]) = Len(delivered[c]) + 1
      /\ \A i \in 1 .. Len(delivered[c]) : delivered'[c][i] = delivered[c][i]
      /\ delivered'[c][Len(delivered[c]) + 1] = KeyOf(Len(delivered[c]) + 1)
  BY <1>1, <1>2, <1>4, <1>5
<1>7. ASSUME NEW i \in 1 .. Len(delivered'[c]) PROVE delivered'[c][i] = KeyOf(i)
  <2>1. CASE i \in 1 .. Len(delivered[c])
    BY <1>3, <1>6, <2>1 DEF KeyData
  <2>2. CASE i = Len(delivered[c]) + 1
    BY <1>6, <2>2
  <2> QED BY <1>2, <1>6, <2>1, <2>2
<1>8. ASSUME NEW i \in 1 .. code'[c].num - index'[c]
      PROVE  buf'[c][Flip(cur'[c])].items[index'[c] + i] = KeyOf(Len(delivered'[c]) + i)
  <2>1. i \in Nat /\ i + 1 \in 1 .. code[c].num - index[c]
    BY <1>1, <1>2, <1>8
  <2>2. buf[c][Flip(cur[c])].items[index[c] + (i + 1)] = KeyOf(Len(delivered[c]) + (i + 1))
    BY <1>1, <1>3, <2>1 DEF KeyData
  <2>3. /\ index[c] + (i + 1) = index'[c] + i
        /\ Len(delivered[c]) + (i + 1) = Len(delivered'[c]) + i
    <3>1. \A a, b \in Nat : a + (b + 1) = (a + 1) + b
      OBVIOUS
    <3>2. index'[c] = index[c] + 1 /\ Len(delivered'[c]) = Len(delivered[c]) + 1
      BY <1>1, <1>6
    <3> QED BY <1>2, <2>1, <3>1, <3>2
  <2> QED BY <1>1, <2>2, <2>3
<1> QED BY <1>7, <1>8 DEF KeyData

(* What KeyData(c) speaks of. *)
KeysSame(c) ==
  /\ delivered'[c] = delivered[c]
  /\ cpc'[c] = "have" =>
       /\ cpc[c] = "have" /\ code'[c] = code[c] /\ index'[c] = index[c]
       /\ buf'[c][Flip(cur'[c])] = buf[c][Flip(cur[c])]

LEMMA KeyStep ==
  ASSUME ChecksumTells, TypeOK, SessionInv, DataInv, MixInv, KeyInv, [Next]_vars
  PROVE  KeyInv'
<1>0. ASSUME NEW c \in Clients, KeysSame(c) PROVE KeyData(c)'
  BY <1>0 DEF KeyInv, KeyData, KeysSame
<1>1. ASSUME NEW c \in Clients, ClientStep(c) PROVE KeyInv'
  <2>1. \A d \in Clients \ {c} : KeysSame(d)
    <3>1. CASE \E n \in Totals : \E m \in Passes(n) : Find(c, n, m)
      BY <3>1 DEF Find, KeysSame
    <3>2. CASE Update(c) \/ ExchangeDone(c) \/ HReceive(c) \/ Recheck(c)
      <4>1. \A d \in Clients \ {c} : cpc'[d] = cpc[d]
        BY <3>2 DEF Update, ExchangeDone, HReceive, Recheck, vars, clientVars, TypeOK, ClientTypeOK
      <4>2. UNCHANGED cursorVars
        BY <3>2 DEF Update, ExchangeDone, HReceive, Recheck, vars, clientVars
      <4> QED BY <4>1, <4>2 DEF KeysSame, cursorVars
    <3>3. CASE Accept(c)
      BY <3>3 DEF Accept, KeysSame, TypeOK, CursorTypeOK, ClientTypeOK
    <3>4. CASE NextItem(c)
      BY <3>4 DEF NextItem, KeysSame, TypeOK, CursorTypeOK, ClientTypeOK
    <3> QED BY <1>1, <3>1, <3>2, <3>3, <3>4 DEF ClientStep
  <2>2. CASE Accept(c)
    BY <1>0, <2>1, <2>2, AcceptKeys DEF KeyInv
  <2>3. CASE NextItem(c)
    BY <1>0, <2>1, <2>3, NextItemKeys DEF KeyInv
  <2>4. CASE \E n \in Totals : \E m \in Passes(n) : Find(c, n, m)
    <3>1. delivered'[c] = <<>> /\ cpc'[c] = "receive"
      BY <2>4 DEF Find, TypeOK, CursorTypeOK, ClientTypeOK
    <3>2. KeyData(c)'
      BY <3>1 DEF KeyData
    <3> QED BY <1>0, <2>1, <3>2 DEF KeyInv
  <2>5. CASE Update(c) \/ ExchangeDone(c) \/ HReceive(c) \/ Recheck(c)
    <3>1. KeysSame(c)
      BY <2>5 DEF Update, ExchangeDone, HReceive, Recheck, KeysSame, vars, clientVars, cursorVars,
                  TypeOK, ClientTypeOK
    <3> QED BY <1>0, <2>1, <3>1 DEF KeyInv
  <2> QED BY <1>1, <2>2, <2>3, <2>4, <2>5 DEF ClientStep
<1>2. ASSUME NEW c \in Clients, Arrive(c) PROVE KeyInv'
  <2>1. \A d \in Clients : KeysSame(d)
    BY <1>2, ArriveOther DEF Arrive, KeysSame
  <2> QED BY <1>0, <2>1 DEF KeyInv
<1>3. CASE UNCHANGED clientVars
  BY <1>0, <1>3 DEF KeyInv, KeysSame, clientVars, cursorVars
<1>4. ASSUME NEW c \in Clients, Poll(c) PROVE UNCHANGED clientVars
  BY <1>4 DEF Poll
<1>5. ASSUME NEW w \in Workers, WorkerStep(w) PROVE UNCHANGED clientVars
  BY <1>5 DEF WorkerStep, Take, DoUpdate, OpenRange, WaitBatch, TakeBatch, Resume, ReadSize,
              Reply, Prefetch
<1>6. CASE UNCHANGED vars
  BY <1>3, <1>6 DEF vars
<1> QED BY <1>1, <1>2, <1>3, <1>4, <1>5, <1>6 DEF Next

(* Where the checksum tells a batch from a part of it that lands over what  *)
(* older batches left, a cursor yields the keys of the queried range in     *)
(* order, without a gap or a repetition, and becomes invalid only after the *)
(* last of them, however requests, prefetches and replies interleave and    *)
(* whatever ptr->size was when update_range read it, unless a reply goes    *)
(* out without its header (query_ol.h, procs_ol.cpp).  Nothing else is      *)
(* asked of the checksum.                                                  *)
THEOREM RangeDeliveredExactly ==
  ASSUME ChecksumTells
  PROVE  Spec => []DeliveredExactly
<1> DEFINE KeyGood == MixGood /\ KeyInv
<1>1. Init => KeyInv
  BY DEF Init, KeyInv, KeyData
<1>2. (HeadersSent => MixGood)' /\ (HeadersSent => KeyGood) /\ [Next]_vars
        => (HeadersSent => KeyGood)'
  BY KeyStep, LostStays DEF MixGood, DataGood, SessionGood
<1>3. (HeadersSent => KeyGood) => DeliveredExactly
  <2> SUFFICES ASSUME HeadersSent, TypeOK, DataInv, KeyInv, NEW c \in Clients
               PROVE  /\ \A i \in 1 .. Len(delivered[c]) : delivered[c][i] = KeyOf(i)
                      /\ \E n \in Passes(asked[c]) : Len(delivered[c]) <= n
                      /\ cpc[c] = "idle" /\ scans[c] > 0 =>
                           Len(delivered[c]) \in Passes(asked[c])
    BY DEF DeliveredExactly, MixGood, DataGood, SessionGood
  <2>1. KeyData(c) /\ total[c] \in Passes(asked[c])
    BY DEF KeyInv, TypeOK, CursorTypeOK
  <2>2. /\ Len(delivered[c]) <= total[c]
        /\ cpc[c] = "idle" /\ scans[c] > 0 => Len(delivered[c]) = total[c]
    BY DataCounts DEF CountExact
  <2> QED BY <2>1, <2>2 DEF KeyData
<1>4. (HeadersSent => MixGood) /\ KeyInv => (HeadersSent => KeyGood)
  OBVIOUS
<1> QED BY <1>1, <1>2, <1>3, <1>4, MixInductive, PTL DEF Spec
=============================================================================
