------------------------------ MODULE RangeScan ------------------------------
(***************************************************************************)
(* The range search of hp-range-search, end to end: a client cursor with   *)
(* two receive buffers (include/query_ol.h), the reliable connection and   *)
(* the task queues of the server (src/bnet.cpp), and the request handlers  *)
(* that stream a range in batches and prefetch the next batch              *)
(* (src/procs_ol.cpp).                                                     *)
(*                                                                         *)
(* A client has one connection, makes one request at a time and drains the *)
(* cursor it opened, as the programs in tests/ do; so the range_ptr of a   *)
(* scan is named by its client.  INSERT and REMOVE requests touch keys     *)
(* outside the ranges being scanned: item i of a range is KeyOf(i), and    *)
(* only keys travel because item_t::operator= copies only keys.  A size is *)
(* 0 for nothing at all and n + 1 for the rcode_t header and n items.      *)
(***************************************************************************)
EXTENDS Naturals, Sequences, FiniteSets

CONSTANTS
  Clients,      \* client processes, one connection each
  Workers,      \* the NUM_WORKERS threads that run process_task
  Cap,          \* items get_items puts in a full batch
  Totals,       \* the numbers of items the queried ranges may hold
  MaxScans,     \* bound: scans a client makes
  MaxUpdates,   \* bound: INSERT and REMOVE requests made, in all
  FirstKey,     \* key of the first item of every range
  FreedSizes,   \* other values a read of `size' in a deleted range_ptr may give:
                \* the size of a range_ptr that took over its memory
  Checksum(_)   \* checksum of a sequence of keys

KeyOf(i) == FirstKey + i - 1

(* How many items the index cursor of a range of n items may go through:    *)
(* the cursor of an empty range is valid on the item that follows it, if   *)
(* the tree has one (include/bptree.h).                                    *)
Passes(n) == {n} \cup (IF n = 0 THEN {1} ELSE {})
Ranges == {0} \cup UNION {Passes(n) : n \in Totals}

(* Keys a buffer may hold: 0 where nothing was ever written. *)
Keys == {0} \cup {KeyOf(i) : i \in UNION {1 .. n : n \in Ranges}}

ASSUME WorkersAssumption == IsFiniteSet(Workers)
ASSUME CapAssumption == Cap \in Nat \ {0}
ASSUME BoundAssumption == MaxScans \in Nat /\ MaxUpdates \in Nat
ASSUME RangeAssumption == Totals \subseteq Nat /\ FirstKey \in Nat \ {0}
ASSUME FreedAssumption == FreedSizes \subseteq 0 .. Cap + 1
ASSUME ChecksumAssumption ==
  \A n \in 0 .. Cap : \A s \in [1 .. n -> Keys] : Checksum(s) \in Nat

VARIABLES
  (* client: dbint_base::cursor_imp and base_client *)
  cpc,       \* where the client thread is
  buf,       \* _buffer[2], what they contain
  cur,       \* _buffer_index
  code,      \* _code: num and has_next of the batch being read
  index,     \* _index
  posted,    \* the buffer of the posted receive, or NoBuf
  cq,        \* is a receive completion waiting in _cq
  asked,     \* items in the range the client is scanning
  total,     \* items the index cursor goes through for it
  delivered, \* history: the keys value() has returned in this scan
  scans,     \* scans started
  updates,   \* INSERT and REMOVE requests sent
  (* the connection *)
  req,       \* kind of the request on its way to the server
  resp,      \* reply on its way to the client
  lost,      \* history: the clients that were sent a reply of size 0
  (* server *)
  ctasks,    \* the base_tasks queued for a worker
  wpc,       \* where a worker thread is
  wtask,     \* the base_task it took last
  wres,      \* arg.res of that task
  wsize,     \* arg.size of that task
  sess       \* the range_ptr of a client's scan

cursorVars == <<buf, cur, code, index, asked, total, delivered>>
clientVars == <<cpc, cursorVars, posted, cq, scans, updates>>
netVars    == <<req, resp, lost>>
workerVars == <<wpc, wtask, wres, wsize>>
vars == <<clientVars, netVars, ctasks, workerVars, sess>>
-----------------------------------------------------------------------------
(* Data *)

NoBuf     == 2
PacketBuf == 3   \* exchange() receives the answer over the request packet
NoClient  == "none"

Requests == {"RANGE", "GETRANGE", "UPDATE"}
Kinds    == Requests \cup {"PREFETCH"}

MinOf(a, b) == IF a < b THEN a ELSE b

(* cursor.valid(): the cursor of a range of n items stands before one more. *)
More(n, pos) == pos < n

(* The position of the index cursor once get_items has run. *)
Advance(n, pos) == MinOf(pos + Cap, n)

(* What get_items writes for a cursor standing before item pos + 1.  The   *)
(* items after num are left as they were in the slot; nothing reads them.  *)
GetItems(n, pos) ==
  LET num  == Advance(n, pos) - pos
      keys == [i \in 1 .. num |-> KeyOf(pos + i)]
  IN  [filled |-> TRUE, num |-> num, sum |-> Checksum(keys), more |-> More(n, pos + num),
       items |-> [i \in 1 .. Cap |-> IF i <= num THEN keys[i] ELSE 0]]

(* `filled' says that the header's code is not 0. *)
Blank == [filled |-> FALSE, num |-> 0, sum |-> 0, more |-> FALSE, items |-> [i \in 1 .. Cap |-> 0]]

(* The constructor of a cursor clears the header of its first buffer only. *)
Cleared(b) == [b EXCEPT !.filled = FALSE, !.num = 0]

(* The receive buffer when a reply of that size lands over its content.    *)
Landed(old, res, size) ==
  IF size = 0 THEN old
  ELSE [res EXCEPT !.items = [i \in 1 .. Cap |-> IF i <= size - 1 THEN res.items[i]
                                                             ELSE old.items[i]]]

(* update_query's tests: a header is there, and the keys the buffer holds   *)
(* have the checksum it gives.                                             *)
Intact_WholeBuffer(b) == b.filled /\ Checksum(b.items) = b.sum
Intact(b) == b.filled /\ Checksum([i \in 1 .. b.num |-> b.items[i]]) = b.sum

(* The other buffer of the cursor. *)
Flip_SameBuffer(b) == b
Flip(b) == 1 - b

NoTask    == [kind |-> "none", client |-> NoClient]
NoSession == [live |-> FALSE, n |-> 0, pos |-> 0, hasItems |-> FALSE,
              res |-> Blank, size |-> 0]
NoResp    == [kind |-> "none", res |-> Blank, size |-> 0]

(* get_task takes the first base_task of the worker's list ... *)
GetTask_Newest(w) ==
  /\ ctasks[w] # <<>>
  /\ wtask' = [wtask EXCEPT ![w] = ctasks[w][Len(ctasks[w])]]
  /\ ctasks' = [ctasks EXCEPT ![w] = SubSeq(@, 1, Len(@) - 1)]
GetTask(w) ==
  /\ ctasks[w] # <<>>
  /\ wtask' = [wtask EXCEPT ![w] = Head(ctasks[w])]
  /\ ctasks' = [ctasks EXCEPT ![w] = Tail(@)]

(* ... and add_task appends to it; make_product and request_task let        *)
(* genindex pick any worker.                                               *)
AddTask(kind, c) ==
  \E w \in Workers :
    ctasks' = [ctasks EXCEPT ![w] = Append(@, [kind |-> kind, client |-> c])]

Init ==
  /\ cpc = [c \in Clients |-> "idle"]
  /\ buf = [c \in Clients |-> [b \in 0 .. 1 |-> Blank]]
  /\ cur = [c \in Clients |-> 0]
  /\ code = [c \in Clients |-> [num |-> 0, more |-> FALSE]]
  /\ index = [c \in Clients |-> 0]
  /\ posted = [c \in Clients |-> NoBuf]
  /\ cq = [c \in Clients |-> FALSE]
  /\ asked = [c \in Clients |-> 0]
  /\ total = [c \in Clients |-> 0]
  /\ delivered = [c \in Clients |-> <<>>]
  /\ scans = [c \in Clients |-> 0]
  /\ updates = 0
  /\ req = [c \in Clients |-> "none"]
  /\ resp = [c \in Clients |-> NoResp]
  /\ lost = {}
  /\ ctasks = [w \in Workers |-> <<>>]
  /\ wpc = [w \in Workers |-> "idle"]
  /\ wtask = [w \in Workers |-> NoTask]
  /\ wres = [w \in Workers |-> Blank]
  /\ wsize = [w \in Workers |-> 0]
  /\ sess = [c \in Clients |-> NoSession]
-----------------------------------------------------------------------------
(* Client *)

(* dbint_base::find: a new cursor, a RANGE request and a receive posted on *)
(* _buffer[0].  A reply that beats the receive is retried by the NIC until *)
(* it can land (rnr_retry_count = 7), so the two posts are one step.  The  *)
(* buffers come from larm_malloc's free list, never written or as a cursor *)
(* left them: the last cursor's stand for those of any earlier one.  m is  *)
(* what isearch's cursor will go through of the n items asked for.         *)
Find(c, n, m) ==
  /\ cpc[c] = "idle" /\ scans[c] < MaxScans
  /\ \E first, second \in {Blank, buf[c][0], buf[c][1]} :
       buf' = [buf EXCEPT ![c] = [i \in 0 .. 1 |-> IF i = 0 THEN Cleared(first) ELSE second]]
  /\ scans' = [scans EXCEPT ![c] = @ + 1]
  /\ cur' = [cur EXCEPT ![c] = 0]
  /\ index' = [index EXCEPT ![c] = 0]
  /\ asked' = [asked EXCEPT ![c] = n]
  /\ total' = [total EXCEPT ![c] = m]
  /\ delivered' = [delivered EXCEPT ![c] = <<>>]
  /\ req' = [req EXCEPT ![c] = "RANGE"]
  /\ posted' = [posted EXCEPT ![c] = 0]
  /\ cpc' = [cpc EXCEPT ![c] = "receive"]
  /\ UNCHANGED <<code, cq, updates, resp, lost, ctasks, workerVars, sess>>

(* dbint_base::insert and remove: exchange() sends the packet and receives *)
(* the answer over it.                                                     *)
Update(c) ==
  /\ cpc[c] = "idle" /\ updates < MaxUpdates
  /\ updates' = updates + 1
  /\ req' = [req EXCEPT ![c] = "UPDATE"]
  /\ posted' = [posted EXCEPT ![c] = PacketBuf]
  /\ cpc' = [cpc EXCEPT ![c] = "exchange"]
  /\ UNCHANGED <<cursorVars, cq, scans, resp, lost, ctasks, workerVars, sess>>

(* The poll loop of exchange() sees the receive completion. *)
ExchangeDone(c) ==
  /\ cpc[c] = "exchange" /\ cq[c]
  /\ cq' = [cq EXCEPT ![c] = FALSE]
  /\ cpc' = [cpc EXCEPT ![c] = "idle"]
  /\ UNCHANGED <<cursorVars, posted, scans, updates, netVars, ctasks, workerVars, sess>>

(* base_client::hreceive: take the receive completion, drain the rest. *)
HReceive(c) ==
  /\ cpc[c] = "receive" /\ cq[c]
  /\ cq' = [cq EXCEPT ![c] = FALSE]
  /\ cpc' = [cpc EXCEPT ![c] = "check"]
  /\ UNCHANGED <<cursorVars, posted, scans, updates, netVars, ctasks, workerVars, sess>>

(* update_query with a batch whose checksum is right: flip the buffers, ask *)
(* for the next batch into the other one if there is a next batch.          *)
Accept(c) ==
  LET b == buf[c][cur[c]]
  IN  /\ cpc[c] = "check" /\ Intact(b)
      /\ cur' = [cur EXCEPT ![c] = Flip(@)]
      /\ code' = [code EXCEPT ![c] = [num |-> b.num, more |-> b.more]]
      /\ index' = [index EXCEPT ![c] = 0]
      /\ IF b.more
           THEN /\ req' = [req EXCEPT ![c] = "GETRANGE"]
                /\ posted' = [posted EXCEPT ![c] = Flip(cur[c])]
           ELSE UNCHANGED <<req, posted>>
      /\ cpc' = [cpc EXCEPT ![c] = IF b.num > 0 THEN "have" ELSE "idle"]
      /\ UNCHANGED <<buf, asked, total, delivered, cq, scans, updates, resp, lost,
                     ctasks, workerVars, sess>>

(* ... and with no header or a wrong checksum: read the buffer again. *)
Recheck(c) ==
  /\ cpc[c] = "check" /\ ~Intact(buf[c][cur[c]])
  /\ UNCHANGED vars

(* cursor.value() and cursor.next(): _data walks the buffer that _code     *)
(* came in, which is not the one the next batch is received in.            *)
NextItem_WholeBuffer(c) ==
  /\ cpc[c] = "have"
  /\ delivered' = [delivered EXCEPT ![c] =
                     Append(@, buf[c][Flip(cur[c])].items[index[c] + 1])]
  /\ index' = [index EXCEPT ![c] = @ + 1]
  /\ cpc' = [cpc EXCEPT ![c] = IF index[c] + 1 # Cap THEN "have"
                               ELSE IF code[c].more THEN "receive" ELSE "idle"]
  /\ UNCHANGED <<buf, cur, code, asked, total, posted, cq, scans, updates, netVars,
                 ctasks, workerVars, sess>>
NextItem(c) ==
  /\ cpc[c] = "have"
  /\ delivered' = [delivered EXCEPT ![c] =
                     Append(@, buf[c][Flip(cur[c])].items[index[c] + 1])]
  /\ index' = [index EXCEPT ![c] = @ + 1]
  /\ cpc' = [cpc EXCEPT ![c] = IF index[c] + 1 # code[c].num THEN "have"
                               ELSE IF code[c].more THEN "receive" ELSE "idle"]
  /\ UNCHANGED <<buf, cur, code, asked, total, posted, cq, scans, updates, netVars,
                 ctasks, workerVars, sess>>
-----------------------------------------------------------------------------
(* Connection *)

(* The reply lands in the posted receive buffer and completes it. *)
Arrive(c) ==
  /\ resp[c].kind # "none" /\ posted[c] # NoBuf
  /\ IF posted[c] = PacketBuf
       THEN UNCHANGED buf
       ELSE buf' = [buf EXCEPT ![c][posted[c]] = Landed(@, resp[c].res, resp[c].size)]
  /\ posted' = [posted EXCEPT ![c] = NoBuf]
  /\ cq' = [cq EXCEPT ![c] = TRUE]
  /\ resp' = [resp EXCEPT ![c] = NoResp]
  /\ UNCHANGED <<cpc, cur, code, index, asked, total, delivered, scans, updates, req,
                 lost, ctasks, workerVars, sess>>

(* process_data_req polls a request, make_product copies it to a base_task  *)
(* and queues it; the receive is posted again.                              *)
Poll(c) ==
  /\ req[c] # "none"
  /\ AddTask(req[c], c)
  /\ req' = [req EXCEPT ![c] = "none"]
  /\ UNCHANGED <<clientVars, resp, lost, workerVars, sess>>
-----------------------------------------------------------------------------
(* Server: process_task and the handlers of procs_ol.cpp *)

Run(w, kind) == wpc[w] = "run" /\ wtask[w].kind = kind

(* The worker loop takes the oldest task of its queue. *)
Take(w) ==
  /\ wpc[w] = "idle"
  /\ GetTask(w)
  /\ wpc' = [wpc EXCEPT ![w] = "run"]
  /\ UNCHANGED <<clientVars, netVars, wres, wsize, sess>>

(* processor, INSERT and REMOVE. *)
DoUpdate(w) ==
  /\ Run(w, "UPDATE")
  /\ wpc' = [wpc EXCEPT ![w] = "reply"]
  /\ UNCHANGED <<clientVars, netVars, ctasks, wtask, wres, wsize, sess>>

(* process_range: the first batch, and a range_ptr with a first prefetch   *)
(* unless the batch was also the last.                                     *)
OpenRange(w) ==
  LET c     == wtask[w].client
      batch == GetItems(total[c], 0)
  IN  /\ Run(w, "RANGE")
      /\ wres' = [wres EXCEPT ![w] = batch]
      /\ wsize' = [wsize EXCEPT ![w] = batch.num + 1]
      /\ IF batch.more
           THEN /\ sess' = [sess EXCEPT ![c] =
                              [NoSession EXCEPT !.live = TRUE, !.n = total[c], !.pos = batch.num]]
                /\ AddTask("PREFETCH", c)
           ELSE UNCHANGED <<sess, ctasks>>
      /\ wpc' = [wpc EXCEPT ![w] = "reply"]
      /\ UNCHANGED <<clientVars, netVars, wtask>>

(* update_range waits for has_items on ptr_cond_mutex ... *)
WaitBatch(w) ==
  /\ Run(w, "GETRANGE") /\ ~sess[wtask[w].client].hasItems
  /\ wpc' = [wpc EXCEPT ![w] = "wait"]
  /\ UNCHANGED <<clientVars, netVars, ctasks, wtask, wres, wsize, sess>>

(* ... and swaps the prefetched batch with the buffer of its own task. *)
TakeBatch_KeepsFlag(w) ==
  LET c == wtask[w].client
  IN  /\ Run(w, "GETRANGE") /\ sess[c].hasItems
      /\ wres' = [wres EXCEPT ![w] = sess[c].res]
      /\ sess' = [sess EXCEPT ![c].res = wres[w]]
      /\ wpc' = [wpc EXCEPT ![w] = "resume"]
      /\ UNCHANGED <<clientVars, netVars, ctasks, wtask, wsize>>
TakeBatch(w) ==
  LET c == wtask[w].client
  IN  /\ Run(w, "GETRANGE") /\ sess[c].hasItems
      /\ wres' = [wres EXCEPT ![w] = sess[c].res]
      /\ sess' = [sess EXCEPT ![c].hasItems = FALSE, ![c].res = wres[w]]
      /\ wpc' = [wpc EXCEPT ![w] = "resume"]
      /\ UNCHANGED <<clientVars, netVars, ctasks, wtask, wsize>>

(* After the unlock: delete the range_ptr of a finished scan or queue the  *)
(* next prefetch.                                                          *)
Delete_Leak(c) == UNCHANGED sess
Delete(c) == sess' = [sess EXCEPT ![c].live = FALSE]

Resume_DeletesEarly(w) ==
  LET c == wtask[w].client
  IN  /\ wpc[w] = "resume"
      /\ IF More(sess[c].n, sess[c].pos) THEN AddTask("PREFETCH", c) ELSE UNCHANGED ctasks
      /\ Delete(c)
      /\ wpc' = [wpc EXCEPT ![w] = "size"]
      /\ UNCHANGED <<clientVars, netVars, wtask, wres, wsize>>
Resume(w) ==
  LET c == wtask[w].client
  IN  /\ wpc[w] = "resume"
      /\ IF More(sess[c].n, sess[c].pos)
           THEN AddTask("PREFETCH", c) /\ UNCHANGED sess
           ELSE Delete(c) /\ UNCHANGED ctasks
      /\ wpc' = [wpc EXCEPT ![w] = "size"]
      /\ UNCHANGED <<clientVars, netVars, wtask, wres, wsize>>

(* return ptr->size: the mutex is not held, a prefetch may already have    *)
(* stored the size of the next batch, and the range_ptr may be deleted:    *)
(* its memory may then be the range_ptr of another scan, whose size is 0   *)
(* until its first prefetch.                                               *)
ReadSize(w) ==
  LET s == sess[wtask[w].client]
  IN  /\ wpc[w] = "size"
      /\ \E n \in {s.size} \cup (IF s.live THEN {} ELSE FreedSizes) :
            wsize' = [wsize EXCEPT ![w] = n]
      /\ lost' = IF wsize'[w] = 0 THEN lost \cup {wtask[w].client} ELSE lost
      /\ wpc' = [wpc EXCEPT ![w] = "reply"]
      /\ UNCHANGED <<clientVars, req, resp, ctasks, wtask, wres, sess>>

(* process_task posts the reply, frees the task's buffers and the task. *)
Reply(w) ==
  /\ wpc[w] = "reply"
  /\ resp' = [resp EXCEPT ![wtask[w].client] =
                [kind |-> wtask[w].kind, res |-> wres[w], size |-> wsize[w]]]
  /\ wpc' = [wpc EXCEPT ![w] = "idle"]
  /\ wtask' = [wtask EXCEPT ![w] = NoTask]
  /\ wres' = [wres EXCEPT ![w] = Blank]
  /\ wsize' = [wsize EXCEPT ![w] = 0]
  /\ UNCHANGED <<clientVars, req, lost, ctasks, sess>>

(* pthread_cond_signal: the worker waiting for the session looks again. *)
Woken(c) == [w \in Workers |-> IF wpc[w] = "wait" /\ wtask[w].client = c
                                 THEN "run" ELSE wpc[w]]

(* request_range, the prefetch: one critical section of ptr_mutex. *)
Prefetch(w) ==
  LET c     == wtask[w].client
      batch == GetItems(sess[c].n, sess[c].pos)
  IN  /\ Run(w, "PREFETCH")
      /\ sess' = [sess EXCEPT ![c].hasItems = TRUE, ![c].res = batch,
                              ![c].size = batch.num + 1, ![c].pos = @ + batch.num]
      /\ wpc' = [Woken(c) EXCEPT ![w] = "idle"]
      /\ wtask' = [wtask EXCEPT ![w] = NoTask]
      /\ UNCHANGED <<clientVars, netVars, ctasks, wres, wsize>>
-----------------------------------------------------------------------------
(* No reply was sent without its header, because the `size' of a deleted   *)
(* range_ptr was read when its memory was a new one of another scan.  When *)
(* one is, its client may take an earlier batch for it, and then send the  *)
(* address of the deleted range_ptr; that is beyond this model, and the    *)
(* properties say what holds until then.                                   *)
HeadersSent == lost = {}

(* Every client is out of work and the server has nothing left to do.  The *)
(* system may also come to a stop after a reply without its header.        *)
Finished == /\ \A c \in Clients : /\ cpc[c] = "idle" /\ req[c] = "none"
                                  /\ scans[c] = MaxScans
            /\ updates = MaxUpdates
            /\ \A w \in Workers : wpc[w] = "idle" /\ ctasks[w] = <<>>

ClientStep(c) ==
  \/ \E n \in Totals : \E m \in Passes(n) : Find(c, n, m)
  \/ Update(c) \/ ExchangeDone(c) \/ HReceive(c) \/ Accept(c) \/ Recheck(c) \/ NextItem(c)

WorkerStep(w) ==
  \/ Take(w) \/ DoUpdate(w) \/ OpenRange(w) \/ WaitBatch(w) \/ TakeBatch(w)
  \/ Resume(w) \/ ReadSize(w) \/ Reply(w) \/ Prefetch(w)

Next ==
  \/ \E c \in Clients : ClientStep(c) \/ Arrive(c) \/ Poll(c)
  \/ \E w \in Workers : WorkerStep(w)
  \/ (Finished \/ ~HeadersSent) /\ UNCHANGED vars

Spec == Init /\ [][Next]_vars

(* A client inside a call keeps running it; the NIC delivers (reliable      *)
(* connection); the poll threads and workers are threads of the server.     *)
Fairness ==
  /\ \A c \in Clients : /\ WF_vars(ExchangeDone(c) \/ HReceive(c) \/ Accept(c) \/ NextItem(c))
                        /\ WF_vars(Arrive(c))
                        /\ WF_vars(Poll(c))
  /\ \A w \in Workers : WF_vars(WorkerStep(w))

FairSpec == Spec /\ Fairness
-----------------------------------------------------------------------------
(* Properties *)

Batches  == [filled : BOOLEAN, num : 0 .. Cap, sum : Nat, more : BOOLEAN, items : [1 .. Cap -> Keys]]
Tasks    == [kind : Kinds, client : Clients]
Replies  == [kind : Requests \cup {"none"}, res : Batches, size : 0 .. Cap + 1]
Sessions == [live : BOOLEAN, n : Ranges, pos : Nat, hasItems : BOOLEAN,
             res : Batches, size : 0 .. Cap + 1]

CursorTypeOK ==
  /\ buf \in [Clients -> [0 .. 1 -> Batches]]
  /\ cur \in [Clients -> 0 .. 1]
  /\ code \in [Clients -> [num : 0 .. Cap, more : BOOLEAN]]
  /\ index \in [Clients -> 0 .. Cap]
  /\ asked \in [Clients -> Totals \cup {0}]
  /\ total \in [Clients -> Ranges]
  /\ \A c \in Clients : total[c] \in Passes(asked[c])
  /\ delivered \in [Clients -> Seq(Keys)]

ClientTypeOK ==
  /\ cpc \in [Clients -> {"idle", "exchange", "receive", "check", "have"}]
  /\ posted \in [Clients -> 0 .. 3]
  /\ cq \in [Clients -> BOOLEAN]
  /\ scans \in [Clients -> 0 .. MaxScans]
  /\ updates \in 0 .. MaxUpdates
  /\ \A c \in Clients : cpc[c] = "have" => index[c] < code[c].num

NetTypeOK ==
  /\ req \in [Clients -> Requests \cup {"none"}]
  /\ resp \in [Clients -> Replies]
  /\ lost \in SUBSET Clients

QueueTypeOK == ctasks \in [Workers -> Seq(Tasks)]

WorkerTypeOK ==
  /\ wpc \in [Workers -> {"idle", "run", "wait", "resume", "size", "reply"}]
  /\ wtask \in [Workers -> Tasks \cup {NoTask}]
  /\ \A w \in Workers :
       /\ wpc[w] # "idle" => wtask[w] \in Tasks
       /\ wpc[w] \in {"wait", "resume", "size"} => wtask[w].kind = "GETRANGE"
       /\ wpc[w] = "reply" => wtask[w].kind \in Requests
  /\ wres \in [Workers -> Batches]
  /\ wsize \in [Workers -> 0 .. Cap + 1]

SessTypeOK == sess \in [Clients -> Sessions] /\ \A c \in Clients : sess[c].pos <= sess[c].n

TypeOK == /\ CursorTypeOK /\ ClientTypeOK /\ NetTypeOK
          /\ QueueTypeOK /\ WorkerTypeOK /\ SessTypeOK

(* The keys a cursor yields are those of the queried range, in order,      *)
(* without a gap or a repetition, however prefetches, replies and the two  *)
(* buffers interleave, and it becomes invalid only after the whole range   *)
(* (update_query, update_range, request_range).  An empty range may yield  *)
(* the one item that follows it.                                           *)
DeliveredExactly ==
  HeadersSent =>
  \A c \in Clients :
    /\ \A i \in 1 .. Len(delivered[c]) : delivered[c][i] = KeyOf(i)
    /\ \E n \in Passes(asked[c]) : Len(delivered[c]) <= n
    /\ cpc[c] = "idle" /\ scans[c] > 0 => Len(delivered[c]) \in Passes(asked[c])

Holds(w, c, kind) == wpc[w] # "idle" /\ wtask[w].client = c /\ wtask[w].kind = kind

(* Where a GETRANGE of client c has been received and not yet finished with *)
(* the range_ptr, or a prefetch is due.                                    *)
UsesSession(c) ==
  \/ req[c] = "GETRANGE"
  \/ \E w \in Workers : \E i \in DOMAIN ctasks[w] :
        ctasks[w][i].client = c /\ ctasks[w][i].kind \in {"GETRANGE", "PREFETCH"}
  \/ \E w \in Workers : \/ Holds(w, c, "PREFETCH")
                        \/ Holds(w, c, "GETRANGE") /\ wpc[w] \in {"run", "wait", "resume"}

(* No request and no task refers to a deleted range_ptr, up to the point   *)
(* where update_range resumes: the address in code->code is good whenever  *)
(* the handlers lock ptr_mutex or touch the cursor.                        *)
NoDanglingSession == \A c \in Clients : UsesSession(c) => sess[c].live

(* A prefetched batch is never overwritten before update_range swapped it  *)
(* out, and two prefetches of a range are never outstanding together.      *)
PrefetchKept ==
  [][HeadersSent =>
     \A c \in Clients : sess[c].live /\ sess[c].hasItems /\ sess'[c].hasItems
                          => sess'[c] = sess[c]]_vars

(* A range_ptr does not outlive its scan: once the cursor is invalid the   *)
(* server has deleted it and holds no prefetch for it.                     *)
SessionReleased ==
  \A c \in Clients : cpc[c] \in {"idle", "exchange"} => ~sess[c].live

CanStep(w) == \/ wpc[w] \notin {"idle", "wait"}
              \/ wpc[w] = "idle" /\ ctasks[w] # <<>>

(* The workers never all block: update_range holds its thread while it     *)
(* waits for a prefetch that may be queued behind another blocked thread,  *)
(* yet some worker can always go on.                                       *)
NoWorkerDeadlock ==
  HeadersSent /\ (\E w \in Workers : wpc[w] = "wait") => \E w \in Workers : CanStep(w)

(* Every call of the client library returns, and a cursor that is drained  *)
(* becomes invalid.                                                        *)
CallsReturn == \A c \in Clients : cpc[c] # "idle" ~> cpc[c] = "idle"

(* A batch that was cut short on its way (ReadSize) lacks an item: its      *)
(* checksum never matches and update_query reads it again for ever.        *)
(* Nothing else holds a client up: no complete batch is refused, no wakeup  *)
(* is lost, and no worker waits for what is queued behind it.              *)
CutShort(c) ==
  LET b == buf[c][cur[c]]
  IN  cpc[c] = "check" /\ \E i \in 1 .. b.num : b.items[i] # KeyOf(Len(delivered[c]) + i)
OnlyCutBatchesHang ==
  \A c \in Clients : cpc[c] # "idle" ~> cpc[c] = "idle" \/ CutShort(c) \/ ~HeadersSent

(* The range_ptr of a scan lives exactly as long as something needs it.     *)
SessionLifetime == HeadersSent => NoDanglingSession /\ SessionReleased
-----------------------------------------------------------------------------
(* What has to be true of the checksum for the keys to be right.            *)

(* Where the batches of a range of n items begin, its end included. *)
Starts(n) == {p \in 0 .. n : p = n \/ \E j \in 0 .. p : p = j * Cap}

(* What the batches received before may have left at place i of a buffer. *)
Left(i) == UNION {{GetItems(n, p).items[i] : p \in Starts(n)} : n \in Ranges}

(* How many items may arrive of the batch that begins after item pos, when *)
(* its header does: all, or as many as the next batch has, or, when the    *)
(* range_ptr is deleted, what its memory says (return ptr->size).          *)
ArrivingSizes(n, pos) ==
  LET b == GetItems(n, pos)
  IN  {b.num} \cup IF b.more THEN {GetItems(n, pos + b.num).num}
                            ELSE {k \in 0 .. Cap : k + 1 \in FreedSizes}

(* What update_query may therefore find where it expects that batch. *)
MayHold(n, pos) ==
  LET num == GetItems(n, pos).num
  IN  {s \in [1 .. num -> Keys] :
         \E m \in ArrivingSizes(n, pos) : \A i \in 1 .. num :
           IF i <= m THEN s[i] = KeyOf(pos + i) ELSE s[i] \in Left(i)}

(* The checksum tells the batch from all of this. *)
ChecksumTells ==
  \A n \in Ranges : \A pos \in Starts(n) : \A s \in MayHold(n, pos) :
    Checksum(s) = GetItems(n, pos).sum =>
      \A i \in 1 .. GetItems(n, pos).num : s[i] = KeyOf(pos + i)
=============================================================================
