---------------------------- MODULE Connections ----------------------------
(***************************************************************************)
(* Connections and the threads that serve them (src/bnet.cpp): one thread   *)
(* handles connection events (process_conn_req), one polls each completion  *)
(* queue and queues requests (process_data_req, make_product), and workers  *)
(* run them and answer (process_task), while start_net is still making      *)
(* their queues.  A base_client connects, learns the memory keys, makes     *)
(* requests one at a time and disconnects when none is outstanding, as the  *)
(* programs in tests/ do; it connects once, so it stands for its rdma_cm_id *)
(* and queue pairs too.  What the handlers do is in RangeScan.              *)
(*                                                                         *)
(* The network delivers reliably and in order, and a message waits until    *)
(* the other side has posted a receive (rnr_retry_count is 7, for ever).    *)
(* The timeouts of the handshake never strike.                              *)
(***************************************************************************)
EXTENDS Naturals, Sequences, FiniteSets

CONSTANTS
  Clients,      \* clients, which connect once
  Addrs,        \* addresses `new base_connection' may return
  Workers,      \* the NUM_WORKERS threads that run process_task
  NumQueues,    \* completion queues, each polled by a thread
  MaxRequests   \* bound: requests a client makes

ASSUME QueueAssumption == NumQueues \in Nat \ {0} /\ MaxRequests \in Nat
ASSUME AddrAssumption == Cardinality(Addrs) >= Cardinality(Clients)

VARIABLES
  (* base_client *)
  cpc, posted, ccq,   \* where it is, receives posted, completions in _cq
  requests,           \* requests made
  (* the network *)
  up, down,           \* requests and answers on their way
  (* process_conn_req *)
  events,             \* events of ec
  aq,                 \* s_ctx->aq, the queue of the next connection
  object,             \* whose base_connection is at an address
  context,            \* id->context
  qp,                 \* id->qp: its completion queue and receives posted
  (* process_data_req *)
  cq,                 \* completions by queue
  ppc, wr_id,         \* where a poller is, and with what connection
  (* process_task *)
  started,            \* workers whose queue exists
  asleep,             \* workers in pthread_cond_wait
  ctasks, wtask,      \* tasks queued, and the one being run: whose it is
  (* history *)
  lost,               \* clients whose request was put in an uninitialised queue
  fault               \* what ended the server

clientVars == <<cpc, posted, ccq, requests>>
connVars   == <<events, aq, object, context, qp>>
pollVars   == <<cq, ppc, wr_id>>
taskVars   == <<started, asleep, ctasks, wtask>>
endVars    == <<lost, fault>>
vars == <<clientVars, up, down, connVars, pollVars, taskVars, endVars>>

Queues == 0 .. NumQueues - 1
None   == "none"
ASSUME NoneAssumption == None \notin Clients \cup Addrs
NoQp   == [live |-> FALSE, cq |-> 0, recvs |-> 0]

Init ==
  /\ cpc = [c \in Clients |-> "start"]
  /\ posted = [c \in Clients |-> 0]
  /\ ccq = [c \in Clients |-> <<>>]
  /\ requests = [c \in Clients |-> 0]
  /\ up = [c \in Clients |-> 0]
  /\ down = [c \in Clients |-> 0]
  /\ events = <<>>
  /\ aq = 0
  /\ object = [a \in Addrs |-> None]
  /\ context = [c \in Clients |-> None]
  /\ qp = [c \in Clients |-> NoQp]
  /\ cq = [q \in Queues |-> <<>>]
  /\ ppc = [q \in Queues |-> "poll"]
  /\ wr_id = [q \in Queues |-> None]
  /\ started = {}
  /\ asleep = {}
  /\ ctasks = [w \in Workers |-> <<>>]
  /\ wtask = [w \in Workers |-> None]
  /\ lost = {}
  /\ fault = None

Event(type, c) == [type |-> type, client |-> c]
Completion(kind, c) == [kind |-> kind, client |-> c, wr_id |-> context[c]]
-----------------------------------------------------------------------------
(* base_client *)

(* The constructor: address, route, one receive posted, rdma_connect.       *)
Connect(c) ==
  /\ cpc[c] = "start"
  /\ cpc' = [cpc EXCEPT ![c] = "connect"]
  /\ posted' = [posted EXCEPT ![c] = 1]
  /\ events' = Append(events, Event("CONNECT_REQUEST", c))
  /\ UNCHANGED <<ccq, requests, up, down, aq, object, context, qp, pollVars, taskVars, endVars>>

(* Once accepted, it waits for the keys.                                    *)
OnEstablished(c) ==
  /\ cpc[c] = "connect" /\ qp[c].live
  /\ cpc' = [cpc EXCEPT ![c] = "keys"]
  /\ events' = Append(events, Event("ESTABLISHED", c))
  /\ UNCHANGED <<posted, ccq, requests, up, down, aq, object, context, qp, pollVars, taskVars, endVars>>

Exchange(c) ==
  /\ cpc[c] = "ready" /\ requests[c] < MaxRequests
  /\ requests' = [requests EXCEPT ![c] = @ + 1]
  /\ up' = [up EXCEPT ![c] = @ + 1]
  /\ posted' = [posted EXCEPT ![c] = @ + 1]
  /\ cpc' = [cpc EXCEPT ![c] = "exchange"]
  /\ UNCHANGED <<ccq, down, connVars, pollVars, taskVars, endVars>>

(* Its completion queue has sends and receives; a receive ends the call,    *)
(* which then empties the queue.                                            *)
Completes_Any(kind) == TRUE
Completes(kind) == kind = "recv"

PollOwn(c) ==
  /\ cpc[c] \in {"keys", "exchange"} /\ ccq[c] # <<>>
  /\ IF Completes(Head(ccq[c]))
     THEN ccq' = [ccq EXCEPT ![c] = <<>>] /\ cpc' = [cpc EXCEPT ![c] = "ready"]
     ELSE ccq' = [ccq EXCEPT ![c] = Tail(@)] /\ UNCHANGED cpc
  /\ UNCHANGED <<posted, requests, up, down, connVars, pollVars, taskVars, endVars>>

Disconnect(c) ==
  /\ cpc[c] = "ready"
  /\ cpc' = [cpc EXCEPT ![c] = "closed"]
  /\ events' = Append(events, Event("DISCONNECTED", c))
  /\ UNCHANGED <<posted, ccq, requests, up, down, aq, object, context, qp, pollVars, taskVars, endVars>>
-----------------------------------------------------------------------------
(* The network *)

DeliverRequest(c) ==
  /\ fault = None /\ up[c] > 0 /\ qp[c].live /\ qp[c].recvs > 0
  /\ up' = [up EXCEPT ![c] = @ - 1]
  /\ qp' = [qp EXCEPT ![c].recvs = @ - 1]
  /\ cq' = [cq EXCEPT ![qp[c].cq] = Append(@, Completion("recv", c))]
  /\ ccq' = [ccq EXCEPT ![c] = Append(@, "send")]
  /\ UNCHANGED <<cpc, posted, requests, down, events, aq, object, context, ppc, wr_id, taskVars, endVars>>

DeliverAnswer(c) ==
  /\ down[c] > 0 /\ posted[c] > 0 /\ cpc[c] # "closed"
  /\ down' = [down EXCEPT ![c] = @ - 1]
  /\ posted' = [posted EXCEPT ![c] = @ - 1]
  /\ ccq' = [ccq EXCEPT ![c] = Append(@, "recv")]
  /\ cq' = [cq EXCEPT ![qp[c].cq] = Append(@, Completion("send", c))]
  /\ UNCHANGED <<cpc, requests, up, connVars, ppc, wr_id, taskVars, endVars>>
-----------------------------------------------------------------------------
(* process_conn_req *)

(* A failed CHECK_RUNTIME ends the process.                                 *)
Running == fault = None

Handle(type, c) ==
  /\ Running /\ events # <<>> /\ Head(events) = Event(type, c)
  /\ events' = Tail(events)

(* build_qp_attr, new base_connection, register_buffer, post_receive,       *)
(* rdma_accept.                                                             *)
NewQp_NoReceive == [live |-> TRUE, cq |-> aq, recvs |-> 0]
NewQp == [live |-> TRUE, cq |-> aq, recvs |-> 1]

OnConnectRequest(c) ==
  /\ Handle("CONNECT_REQUEST", c)
  /\ \E a \in Addrs :
       /\ object[a] = None
       /\ object' = [object EXCEPT ![a] = c]
       /\ context' = [context EXCEPT ![c] = a]
  /\ qp' = [qp EXCEPT ![c] = NewQp]
  /\ aq' = (aq + 1) % NumQueues
  /\ UNCHANGED <<clientVars, up, down, pollVars, taskVars, endVars>>

(* The keys go out.                                                         *)
OnEstablishedServer(c) ==
  /\ Handle("ESTABLISHED", c)
  /\ down' = [down EXCEPT ![c] = @ + 1]
  /\ UNCHANGED <<clientVars, up, aq, object, context, qp, pollVars, taskVars, endVars>>

(* rdma_destroy_qp takes the completions of the queue pair along; what is   *)
(* left, in its order, is defined without the recursion of SelectSeq.       *)
NthOf(S, k) == CHOOSE i \in S : Cardinality({j \in S : j <= i}) = k
Without(wcs, c) ==
  LET rest == {i \in DOMAIN wcs : wcs[i].client # c}
  IN  [k \in 1 .. Cardinality(rest) |-> wcs[NthOf(rest, k)]]

OnDisconnected(c) ==
  /\ Handle("DISCONNECTED", c)
  /\ qp' = [qp EXCEPT ![c] = NoQp]
  /\ cq' = [q \in Queues |-> Without(cq[q], c)]
  /\ object' = [object EXCEPT ![context[c]] = None]
  /\ context' = [context EXCEPT ![c] = None]
  /\ UNCHANGED <<clientVars, up, down, aq, ppc, wr_id, taskVars, endVars>>
-----------------------------------------------------------------------------
(* process_data_req *)

Poll(q) ==
  /\ Running /\ ppc[q] = "poll" /\ cq[q] # <<>>
  /\ cq' = [cq EXCEPT ![q] = Tail(@)]
  /\ LET wc == Head(cq[q])
     IN IF wc.kind = "recv"
        THEN ppc' = [ppc EXCEPT ![q] = "make"] /\ wr_id' = [wr_id EXCEPT ![q] = wc.wr_id]
        ELSE UNCHANGED <<ppc, wr_id>>
  /\ UNCHANGED <<clientVars, up, down, connVars, taskVars, endVars>>

(* add_task puts the task last.                                             *)
AddTask_Over(tasks, c) == <<c>>
AddTask(tasks, c) == Append(tasks, c)

(* pthread_cond_signal                                                      *)
Signal_Forgotten(w) == asleep
Signal(w) == asleep \ {w}

(* make_product: the task takes conn->qp and the request with it.  The      *)
(* mutex of the queue makes this, TakeTask and Sleep single steps.          *)
MakeProduct(q, w) ==
  LET c == object[wr_id[q]]
  IN /\ Running /\ ppc[q] = "make"
     /\ c # None /\ w \in started
     /\ ctasks' = [ctasks EXCEPT ![w] = AddTask(@, c)]
     /\ asleep' = Signal(w)
     /\ ppc' = [ppc EXCEPT ![q] = "post"]
     /\ UNCHANGED <<clientVars, up, down, connVars, cq, wr_id, started, wtask, endVars>>

(* Before start_net has made the queue, the mutex and the list head are     *)
(* whatever was there: the server fails, or the list is cleared later.      *)
MakeTooEarly(q, w) ==
  /\ Running /\ ppc[q] = "make"
  /\ object[wr_id[q]] # None /\ w \notin started
  /\ \/ fault' = "queue not made" /\ UNCHANGED lost
     \/ lost' = lost \cup {object[wr_id[q]]} /\ UNCHANGED fault
  /\ ppc' = [ppc EXCEPT ![q] = "post"]
  /\ UNCHANGED <<clientVars, up, down, connVars, cq, wr_id, taskVars>>

(* post_receive(conn), after the task was queued: it may have been answered *)
(* and conn deleted, or its memory be that of another connection.           *)
PostReceive(q) ==
  LET c == object[wr_id[q]]
  IN /\ Running /\ ppc[q] = "post"
     /\ IF c = None
        THEN fault' = "receive on a deleted connection" /\ UNCHANGED qp
        ELSE qp' = [qp EXCEPT ![c].recvs = @ + 1] /\ UNCHANGED fault
     /\ ppc' = [ppc EXCEPT ![q] = "poll"]
     /\ wr_id' = [wr_id EXCEPT ![q] = None]
     /\ UNCHANGED <<clientVars, up, down, events, aq, object, context, cq, taskVars, lost>>
-----------------------------------------------------------------------------
(* start_net and process_task *)

StartQueue(w) ==
  /\ Running /\ w \notin started
  /\ started' = started \cup {w}
  /\ UNCHANGED <<clientVars, up, down, connVars, pollVars, asleep, ctasks, wtask, endVars>>

(* get_task                                                                 *)
GetTask_Keep(tasks) == tasks
GetTask(tasks) == Tail(tasks)

Idle(w) == Running /\ w \in started \ asleep /\ wtask[w] = None

Sleep(w) ==
  /\ Idle(w) /\ ctasks[w] = <<>>
  /\ asleep' = asleep \cup {w}
  /\ UNCHANGED <<clientVars, up, down, connVars, pollVars, started, ctasks, wtask, endVars>>

TakeTask(w) ==
  /\ Idle(w) /\ ctasks[w] # <<>>
  /\ wtask' = [wtask EXCEPT ![w] = Head(ctasks[w])]
  /\ ctasks' = [ctasks EXCEPT ![w] = GetTask(@)]
  /\ UNCHANGED <<clientVars, up, down, connVars, pollVars, started, asleep, endVars>>

(* The answer goes to arg.qp.                                               *)
SendAnswer(w) ==
  LET c == wtask[w]
  IN /\ Running /\ c # None
     /\ IF qp[c].live
        THEN down' = [down EXCEPT ![c] = @ + 1] /\ UNCHANGED fault
        ELSE fault' = "send on a destroyed queue pair" /\ UNCHANGED down
     /\ wtask' = [wtask EXCEPT ![w] = None]
     /\ UNCHANGED <<clientVars, up, connVars, pollVars, started, asleep, ctasks, lost>>

Next ==
  \/ \E c \in Clients :
       \/ Connect(c) \/ OnEstablished(c) \/ Exchange(c) \/ PollOwn(c) \/ Disconnect(c)
       \/ DeliverRequest(c) \/ DeliverAnswer(c)
       \/ OnConnectRequest(c) \/ OnEstablishedServer(c) \/ OnDisconnected(c)
  \/ \E q \in Queues :
       \/ Poll(q) \/ PostReceive(q)
       \/ \E w \in Workers : MakeProduct(q, w) \/ MakeTooEarly(q, w)
  \/ \E w \in Workers : StartQueue(w) \/ Sleep(w) \/ TakeTask(w) \/ SendAnswer(w)

Spec == Init /\ [][Next]_vars

(* Threads run on and messages arrive; a client need not call again.        *)
Fairness ==
  /\ \A c \in Clients :
       /\ WF_vars(OnEstablished(c)) /\ WF_vars(PollOwn(c))
       /\ WF_vars(DeliverRequest(c)) /\ WF_vars(DeliverAnswer(c))
       /\ WF_vars(OnConnectRequest(c) \/ OnEstablishedServer(c) \/ OnDisconnected(c))
  /\ \A q \in Queues :
       WF_vars(Poll(q) \/ PostReceive(q)
                 \/ \E w \in Workers : MakeProduct(q, w) \/ MakeTooEarly(q, w))
  /\ \A w \in Workers :
       WF_vars(StartQueue(w)) /\ WF_vars(TakeTask(w) \/ SendAnswer(w))

FairSpec == Spec /\ Fairness
-----------------------------------------------------------------------------
(* Properties *)

(* A live queue pair has its base_connection, which no other client has; a  *)
(* client past the handshake has a live one; and while it asks nothing a    *)
(* receive is posted for it, or a poller is about to post it.               *)
TypeOK ==
  /\ cpc \in [Clients -> {"start", "connect", "keys", "ready", "exchange", "closed"}]
  /\ fault # None \/ \A c \in Clients :
       /\ qp[c].live <=> context[c] # None
       /\ context[c] # None => object[context[c]] = c
       /\ cpc[c] \in {"keys", "ready", "exchange"} => qp[c].live
       /\ cpc[c] = "ready" =>
            qp[c].recvs + Cardinality({q \in Queues : wr_id[q] = context[c]}) >= 1

Occurrences(s, P(_)) == Cardinality({i \in DOMAIN s : P(s[i])})

(* Where a client's request or the answer to it may be.                     *)
Outstanding(c) ==
  up[c] + down[c]
    + Occurrences(ccq[c], LAMBDA k : k = "recv")
    + Occurrences(events, LAMBDA e : e = Event("ESTABLISHED", c))
    + Cardinality({q \in Queues : ppc[q] = "make" /\ wr_id[q] = context[c]})
    + Cardinality({w \in Workers : wtask[w] = c})

InQueues(c) ==
  (UNION {{<<q, i>> : i \in {j \in DOMAIN cq[q] : cq[q][j] = Completion("recv", c)}} : q \in Queues})
    \cup (UNION {{<<w, i>> : i \in {j \in DOMAIN ctasks[w] : ctasks[w][j] = c}} : w \in Workers})

(* A request is in one place, from the call to the completion the client    *)
(* polls: none is dropped, run twice or answered to another connection, and *)
(* the keys come once (make_product, add_task, get_task, process_task).     *)
RequestsConserved ==
  fault = None =>
    \A c \in Clients \ lost :
      Outstanding(c) + Cardinality(InQueues(c)) = IF cpc[c] \in {"keys", "exchange"} THEN 1 ELSE 0

(* Two things only can end the server while clients behave: a request that  *)
(* comes before start_net has made the queues, and the receive that is      *)
(* posted again after the answer to a client that has left.  No answer is   *)
(* ever sent on a queue pair that is gone.                                  *)
OnlyKnownFaults ==
  /\ fault = "queue not made" => started # Workers
  /\ fault # "send on a destroyed queue pair"
  /\ \A q \in Queues : ppc[q] = "make" => object[wr_id[q]] # None

(* Every call of a base_client returns, unless the server has ended or lost *)
(* the request to an uninitialised queue.                                   *)
CallsReturn ==
  \A c \in Clients :
    cpc[c] \in {"connect", "keys", "exchange"}
      ~> cpc[c] = "ready" \/ c \in lost \/ fault # None
=============================================================================
