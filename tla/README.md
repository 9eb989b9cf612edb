# A specification of hp-range-search

hp-range-search answers range queries over an in-memory Bw-tree to clients on
RDMA connections. A client opens a cursor, the server streams the range to it
batch by batch, and while the client reads one batch the server prepares the
next. This directory holds TLA+ modules of the parts of the system where
something can go wrong, TLC configurations that check them on small instances,
and theorems proved with TLAPS for instances of any size. Lines are those of the
files under `src/`; `bwtree.h` is `include/bwtree/bwtree.h`.

What is described is the program the Makefile builds: the server is
`src/procs_ol.cpp` with `src/bnet.cpp`, the client library is
`include/query_ol.h` (the variants with overlapped communication), and `-DNDEBUG
-DBWTREE_NODEBUG` (Makefile:10) compile the assertions out.

1. [The system](#1-the-system)
2. [The modules](#2-the-modules)
3. [The runs](#3-the-runs)
4. [Fairness](#4-fairness)
5. [What the code does that its text does not
   say](#5-what-the-code-does-that-its-text-does-not-say)
6. [The theorems](#6-the-theorems)
7. [What is not modelled](#7-what-is-not-modelled)
8. [Plan](#8-plan)

## 1. The system

### Parts, their state and their operations

| Part | Where | State | Operations |
|---|---|---|---|
| Client cursor | `include/query_ol.h` | two receive buffers, which one comes next, the batch being read, an index into it | `find`, `valid`, `value`, `next`, `update_query`; `insert`, `remove` |
| Client connection | `src/bnet.cpp` 544-939 | one queue pair, one completion queue, a request packet | `handshake`, `exchange`, `hexchange`, `hreceive` |
| Task queues | `src/bnet.cpp` 364-542 | one list of tasks per worker | `make_product` (a request becomes a task), `request_task`, `add_task`, `get_task`, `process_task` |
| Request handlers | `src/procs_ol.cpp` | a `range_ptr` per open scan: mutex, condition, index cursor, prefetched batch, `has_items`, `size` | `processor`, `process_range`, `update_range`, `request_range` (the prefetch), `get_items` |
| Slot allocator | `src/mm.cpp`, `include/mm.h` | a free list per size class, a bump pointer over huge pages, three kinds of spinlock | `init_mem`, `larm_new_item`, `larm_delete_item` |
| Index interface | `include/index.h`, `include/bptree.h` | a cursor: an iterator, its end key, `_valid` | `isearch`, `find`, `next`, `insert`, `remove` |
| Bw-tree | `bwtree.h` | mapping table from NodeID to a chain of delta records, `root_id` | `Insert`, `Delete`, `GetValue`, `Traverse`, consolidation, split, removal, merge |
| Range iterator | `bwtree.h` 7690-8290 | a counted private copy of one leaf and a position in it | `LowerBound`, `MoveAheadByOne`, copy, assignment |
| Epoch manager | `bwtree.h` 6960-7690 | a list of epochs, each with a count of threads and a garbage list | `JoinEpoch`, `LeaveEpoch`, `AddGarbageNode`, `ClearEpoch`, `CreateNewEpoch` |
| NodeID allocation | `bwtree.h`, `atomic_stack.h` | a counter and a lock-free stack of free NodeIDs with a versioned top | `GetNextNodeID`, `InvalidateNodeID`, `Pop`, `SingleThreadPush` |
| Delta allocation | `bwtree.h` 1440-1960 | chunks in front of each base page, filled downwards | `TryAllocate`, `GrowChunk`, `Allocate`, `Destroy` |
| Freeing a chain | `bwtree.h` 7334-7511 | a delta chain nobody can reach any more | `FreeEpochDeltaChain` |
| Connections | `src/bnet.cpp` 46-440, 589-665 | a `base_connection` and a queue pair per client, completion queues, one event channel | `start_net`, `end_net`, `on_connect_request`, `on_established`, `on_disconnected`, `process_data_req`; the client's constructor and destructor |

### How they interact

A request travels: client call → request packet → `process_data_req` polls it →
`make_product` copies it to a task in a random worker's queue → a worker takes
the oldest task of its own queue → `processor` → the reply is posted from the
worker → the NIC puts it in the receive buffer the client posted → the client
polls its completion. Two things leave this line. A handler that has given out a
batch and sees more items queues a prefetch task with `request_task`, again in a
random queue. And `update_range`, which has to hand out a prefetched batch,
waits on the condition of the `range_ptr` until the prefetch has run, and so
keeps a worker waiting for a task that is in some worker's queue.

The handlers call the index, the index runs one Bw-tree operation. Each Bw-tree
operation joins an epoch, walks the mapping table, replaces one table entry with
one compare-and-swap (CAS), and hands what it unlinked to the epoch manager. A
scan keeps no epoch between batches: its iterator owns a copy of a leaf. Tasks,
sessions and reply buffers come from the slot allocator, whose huge pages the
network layer registers with the NIC one by one.

### What is hard, and what makes each part correct

- **Range protocol.** Clients, poll threads, workers and the NIC interleave;
  replies land in a buffer while another one is read; a `range_ptr` is deleted
  by one worker while others know its address; workers block on each other.
  Correct means: the cursor yields exactly the range, no deleted `range_ptr` is
  used, each is deleted, no prefetched batch is lost, the workers never all
  wait, every call returns.
- **Slot allocator.** The head of a free list and its tail have different locks,
  so a producer and a consumer are in the same list at once; the bump pointer
  must step over the end of a segment. Correct means: slots never overlap, a
  slot lies within one registered segment, the list keeps its shape, and the
  whole is a pool of slots.
- **Epochs.** Joining is a read and an increment; claiming an epoch for deletion
  is a test and a subtraction. Correct means: nothing a thread can still read is
  freed, nothing is freed twice, all garbage is freed in the end.
- **Delta chains.** A node is what its records say: inserts, deletes, one split,
  merges with branches to the right, each record with positions in the base page
  it was written for. Correct means: searches and consolidation agree with the
  set of items, in every order in which the records can come.
- **Structure modifications.** A split, a removal or a merge takes several CASes
  on two or three nodes, any thread may finish another's, and a parent is
  blocked with an abort record meanwhile. Correct means: the tree is a set of
  keys, the leaves always partition the key space, no NodeID is retired twice or
  used after it was given back, every call returns.
- **Memory of the tree.** Threads carve records out of one chunk with
  `fetch_sub` and race to append the next chunk; NodeIDs are popped from a stack
  without locks while the cleaner pushes; a merge record is read again after the
  page below it was freed. Correct means: records never overlap, no chunk or
  NodeID is lost or given back twice, nothing freed is read.
- **Connections.** Events, completions, queues and answers are four streams that
  run past each other, and `start_net` accepts connections before its queues
  exist. Correct means: a request is in one place until it is answered, every
  call returns, and the faults that can end the server are known.
- **Range iterator.** The tree changes between two pages of a scan, and the
  iterator's page copy has a reference count that is not atomic although its
  copies are used by two threads. Correct means: ascending keys, no key left out
  that was there all the time, counts that are exact for as long as one thread
  at a time changes them.

`PROJECT.json` lists these and the other hazards line by line with the
properties that watch them.

## 2. The modules

A specification `M` comes with `MCM` and one or more `MCM_*.cfg` for TLC, and
with `MProofs` where theorems are proved about it. `BwTreeSMO` has two modules
of proofs: `BwTreeTableProofs` (what each kind of write does to the tree as a
whole) and, on top of it, `BwTreeSMOProofs` (the threads). `MCTreeMemory` has
`InnerChain` beside `TreeMemory`, so that one run covers both: a behaviour is of
one of them, and the other stays as it began.

| Module | Models | Grain of a step |
|---|---|---|
| `RangeScan` | the range protocol, client to index and back | the code between two points where another thread can see or change shared state |
| `SlotPool` | what the slot allocator promises | one call |
| `SlotAllocator` | `larm_new_item` and `larm_delete_item` | one statement on shared memory; refines `SlotPool` |
| `EpochManager` | epochs, joiners, the cleaner | one atomic operation |
| `LeafChain` | what the delta chains of leaves mean | one operation of the tree |
| `InnerChain` | what the delta chains of inner nodes mean | one operation of the tree |
| `KeySet` | what `Insert`, `Delete` and `GetValue` promise | one call, at the moment it takes effect |
| `BwTreeSMO` | traversal, help-along, splits, removals, merges | one read of the table or one CAS; refines `KeySet` |
| `TreeMemory` | record chunks, the NodeID stack, freeing delta chains | one atomic operation |
| `Connections` | connecting, disconnecting, polling, queueing, sleeping and answering | the code under one mutex, or between two calls of the verbs library |
| `RangeCursor` | the iterator over a changing tree and its hand-over to a prefetching thread | one leaf loaded or one item moved |

The Bw-tree is cut in four. `LeafChain` and `InnerChain` keep the records of a
node and take whole operations as steps: a record's meaning depends on what lies
above and below it, not on who posted it. `BwTreeSMO` keeps the logical content
of a node and the type of its topmost record, which is all that a CAS and the
help-along code look at, and takes single CASes as steps. `TreeMemory` keeps
what memory a node consists of and who frees it, with calls that post one thing
each, in the orders `BwTreeSMO` allows. `RangeCursor` uses the tree as these
three show it: a set of key-value pairs cut into leaves, which writers change
and re-cut at any moment.

### RangeScan

`cpc`, `buf`, `cur`, `code`, `index` are the client's place in its code and the
fields of `cursor_imp` (`_buffer`, `_buffer_index`, `_code`, `_index`).
`posted`, `cq`, `req` and `resp` are the connection: the posted receive, its
completion, the request and the reply under way. `ctasks` are the lists of tasks
of the workers. `wpc`, `wtask`, `wres` and `wsize` are a worker in
`process_task`. `sess` is the `range_ptr` of a client's scan. `asked` is the
number of items in the range a client asked for, `total` the number that the
index cursor goes through: the cursor is made valid without a look at the end of
the range (`include/bptree.h:27`), so for an empty range that is one item,
unless the tree ends there (`Passes`). `delivered` and `lost` are history.

A size, which in the code counts bytes with the `rcode_t` header, is 0 for
nothing and n + 1 for the header and n items. `ReadSize` is `return ptr->size`
(`src/procs_ol.cpp:114`). When `update_range` has deleted the `range_ptr` just
before, its memory may have gone to a new `range_ptr` of another scan, and the
size read is of that: `FreedSizes` are the values it may have, 0 until its first
prefetch has run (37). A reply of size 0 leaves the receive buffer as it is
(`Landed`), header included; `lost` then has the client, and `HeadersSent` is
false. From there on the client may take an older batch for the new one and send
the address of the deleted `range_ptr` (section 5, 5). Up to that the model
follows it; what the handlers then do with freed memory is left out, and the
properties other than `TypeOK` say what holds until a reply is sent without its
header.

Client: `Find` (`dbint_base::find`), `Update` and `ExchangeDone` (`insert`,
`remove` through `exchange`), `HReceive`, `Accept` and `Recheck` (`update_query`
with a right and a wrong checksum), `NextItem`. Connection: `Arrive`, `Poll`.
Worker: `Take`, `DoUpdate`, `OpenRange` (`process_range`), `WaitBatch`,
`TakeBatch`, `Resume`, `ReadSize` (`update_range`, cut where it unlocks
`ptr_mutex` and where it reads `ptr->size` after that), `Prefetch`
(`request_range`, one critical section of `ptr_mutex`), `Reply`.

What is assumed: the memory of a deleted `range_ptr` is read as itself or as
another `range_ptr` (`FreedAssumption`: from 0 to a full batch); any other use
of it is left out. The scan that took it over is not modelled as a client of its
own, only by what its size may be. A client makes one request at a time and
drains a cursor before its next request, as all programs in `tests/` do, so a
scan is named by its client. Updates touch keys outside the scanned ranges
(`RangeCursor` has the other case). The NIC sends what the reply buffer holds
when the reply is posted. The checksum is a parameter; the runs use the
exclusive-or of the keys that `get_items` and `update_query` compute.
`ChecksumTells` says what the keys of a scan depend on: that the checksum tells
each batch from what may be found in its place when its header did arrive, which
is the part of it that arrived and what older batches left behind that part
(`MayHold`). TLC evaluates it for the runs (`ChecksumAssumed`); section 5 has a
case where it fails.

### SlotPool and SlotAllocator

`head`, `tail`, the locks, `next_slot`, `lsize`, `current`, `region` are the
fields of the C structures; `pc`, `index`, `item` and `ptr` a thread's place and
locals; `owned`, `chain` and `faulted` history. `larm_new_item` is `NewItem`,
`LockHead`, `ReadNext`, then `Pop` or `ReleaseHead`, `LockPool` and `OutOfSpace`
or `Place`, `Carve`; `larm_delete_item` is `DeleteItem`, `LockTail`, `Link`,
`SetTail`. The refinement maps the linked slots to `free` and the slots in
users' hands, and those still on their way back, to `used`: a slot is free from
the write of `tail->next_slot` on. `StraySegs` is what `seg_info[num_segs]` may
hold, one past its end: `larm_malloc` reads it when the last segment is nearly
full (mm.cpp:207).

### EpochManager and EpochManagerProofs

`epochs`, `count` and `garbage` are the list and the fields of its nodes; `gpc`
is the cleaner, `pc`, `joined`, `target` and `victim` a thread in `JoinEpoch`,
`LeaveEpoch` or `AddGarbageNode`; `holds`, `linked` and `freed` say which nodes
a thread has reached, the table leads to, and the allocator owns. An `EpochNode`
is named by its address, so that a deleted one can come back as a new one.
`Reuse` says whether that may happen while a thread that has read
`current_epoch_p` has not yet incremented the counter in it. With `Reuse` the
thread may find any count there; without it the deleted node keeps the negative
count the cleaner left in it.

### LeafChain and InnerChain

A leaf is its records above a base page, the count in the top record's metadata
and its low key; a record has its item and its position (`index`, and whether it
overwrites an item of the page). `PostData` is `Insert` and `Delete`,
`ConsolidateLeafNode`, `SplitLeaf` and `MergeLeaf` the rest. The operators are
the code's algorithms: `FindItem` (`NavigateLeafNode` with a value), `GetValue`
(`NavigateLeafNode` with the list of values), `CollectAllValuesOnLeaf` with
`Drain`, `FindSplitPoint`. An inner node is the same with index terms, their
neighbours (`prev`, `next`), and the searches `NavigateInnerNode`,
`FindSeparator`, `FindLeftSibling` and `CollectAllSepsOnInner`. NodeIDs are
given out again while old records still name them. `contents` and `children` are
the truth the operators are compared with. `InnerChain` posts the index term of
one child before its neighbours' next one, which is what help-along gives.

### KeySet and BwTreeSMO

`table` is the mapping table: each entry a node with its low and high key, right
sibling, items, and the type of its topmost record. A thread has `cur` and
`par`, the current and the parent snapshot of its `Context`, each with a mark
that says whether a CAS through it would still succeed (`match`, `stale`, or
`under` an abort record, from which it comes back), the remove records it is
being redirected from, and its place `pc` in the traversal. `unused` and
`retired` are the free NodeIDs and those handed to the epoch manager.

Traversal: `Call` (of `Insert`, `Delete` or `GetValue`), `ReadRoot`, `LoadRoot`,
`GoDown`, `GoRight`, `JumpToNodeID`, `Answer`, `PostData`. Help-along
(`FinishPartialSMO`): `JumpToLeftSibling` (where `FindLeftSibling` consolidates
a parent with a merge record before it searches it, bwtree.h:6428-6448: to the
table that is a `ConsolidateNode` of another thread at the parent, and no step
of its own) and `PostMergeNode` on a remove record, `FinishMerge` on a merge
record, `SplitRoot` and `FinishSplit` on a split record. Size adjustment
(`AdjustNodeSize`): `CheckSplitChild`, `SplitNode`, `PostAbortOnParent`,
`PostRemoveNode`, `RemoveAbortOnParent`. Also `ConsolidateNode` and
`InvalidateNodeID`. A failed CAS is the branch of the same action on `~Matches`,
and leads where the code goes: a fresh traversal, or on without the change.

`GetValue` goes down with `LoadNodeIDReadOptimized`, which keeps neither the
parent nor the NodeID it came from, finishes nothing, and starts over on a
remove record; on its way to the right it uses the writers' `JumpToNodeID`, as
the code does (bwtree.h:2930). A get that meets a half-done modification there
has no parent to finish it in, and neither has a writer that went right from an
old root: such a thread is `Astray`. The help-along actions need `HasParent`, so
the model says no more about it (section 5).

The refinement maps the items of the leaves, found along the next pointers from
the first leaf, to the set. A call that changes nothing must answer as the set
was at some moment of the call; `seen` records those moments.

### TreeMemory

A block is what one `new char[]` returns: a base page with its first chunk of
records in front, a further chunk, or a remove record. `tail` and `next` are the
fields of `AllocationMeta`; `heap` says what stands where, a pointer being a
block and an offset above the chunk's limit. `TryAllocate`, `Take` (the
`fetch_sub`), `GoOn` and `LinkChunk` are the allocation; a record costs two
units if it is a data record and one otherwise, so that chunks fill unevenly.
`data`, `top` and `next_unused` are `free_node_id_list` and
`next_unused_node_id`; `Pop`, `PopRead`, `PopCas` and `Fresh` are
`GetNextNodeID`, `PreparePush` and `SingleThreadPush` the two writes of the
cleaner to the top. `ClearEpoch` takes something nobody inside can still have,
`FreeEpochDeltaChain` visits one node of it. Blocks are never given out again,
so a use of a freed one shows; the epoch protocol itself is `EpochManager`.

The merge record is allocated from the chunks of the branch that is merged in
(`MergeBase`), because the cleaner comes back to it after it has freed the left
branch. The mutant that allocates it on the left breaks `NoReadOfFreed`: the
comment in `PostLeafMergeNode` (bwtree.h:6526) is right to insist. `MergeNode`
posts the record and deletes the separator in one step, since `BwTreeSMO` shows
nobody touches the chain between.

### Connections

`cpc`, `posted` and `ccq` are a `base_client`; `up` and `down` the messages
under way; `events` the event channel; `object`, `context` and `qp` the
`base_connection` at an address, `id->context` and the queue pair; `cq`, `ppc`
and `wr_id` the completion queues and their pollers; `started`, `asleep`,
`ctasks` and `wtask` the workers. An address whose connection was deleted may be
that of the next one. The events are `OnConnectRequest`, `OnEstablishedServer`,
`OnDisconnected`; a poller does `Poll`, `MakeProduct`, `PostReceive`; a worker
`Sleep`, `TakeTask`, `SendAnswer`; `StartQueue` is one round of the loop of
`start_net`, and `MakeTooEarly` what happens to a request that comes before it.
What stops the server (`CHECK_RUNTIME`, `TEST_NZ`) sets `fault`. The handlers
are those of `RangeScan`: here a task is answered once.

### RangeCursor

The tree is a set of key-value pairs, numbered in the order of their keys;
`KeyStarts` says which pairs are the first of their key, so a key may have any
number of values. `fences` is where the leaves begin, always between two keys:
`SplitLeaf` cuts where `FindSplitPoint` does, before the key in the middle of a
leaf or behind it, and never a leaf of one key, however large it is
(bwtree.h:2124 and 5690-5697). A page can so have more items than a batch.

`contexts` are the `IteratorContext`s with their counts; `iters` the three
iterators of a scan: that of `process_range`, that of the `range_ptr`, and the
copy that `ptr++` makes. `Find`, `LoadPage` (one round of `LowerBound`),
`CloneCursor`, `NextItem`, `HandOver`, `DeleteSession`, `ReturnFromOpen`,
`Finish` follow the cursor from one call to the next; `Insert`, `Delete`,
`SplitLeaf`, `MergeLeaf` are other threads and are not bounded. `ref_count` is a
plain integer. `RaceCounts` is the step in which the thread that opened the
range destroys its cursor while the prefetching thread copies the other one in
the same page: one of the two changes is lost, the count is one too high or too
low, and the model ends the scan there (`phase = "raced"`).

## 3. The runs

| Run | Expected | Bounds | Shows |
|---|---|---|---|
| `range` | pass | 2 clients, 2 workers, batch of 2, ranges of 0 and 5, `FreedSizes` 0 and 2, one scan each and one update in all | until a reply is sent without its header: order and completeness of a scan, life of the `range_ptr`, prefetched batches, no worker deadlock, and that nothing but a batch cut short keeps a client from returning |
| `range_partial_batch` | violation of `CallsReturn` | 1 client, range of 5 | the drain of a cursor may never end |
| `alloc` | pass | 3 threads, 1 class, 2 segments of 5 bytes, slots of 2 | disjoint slots within segments, list shape, `SlotPool` |
| `epoch` | pass | 2 threads, 3 nodes, 2 epochs, `Reuse = FALSE` | no use after free, one fate, all garbage freed |
| `epoch_reuse` | violation of `JoinedEpochLive` | 2 threads, 3 epochs, `Reuse = TRUE` | a thread joins an epoch that is not in the list |
| `leaf` | pass | 3 keys, 2 values, 2 records per chain, 2 merges | searches and consolidation are exact |
| `leaf_merged` | violation of `ValuesExact` | 4 keys, 1 value, 3 records, 1 merge | `GetValue` misses a value below a merge record |
| `smo` | pass | 2 threads, 2 calls of insert, delete or get, three trees | splits, root splits, removals, merges and aborts refine the set of keys; separators lead to their nodes, nothing dangling or retired twice; calls return |
| `smo_beyond` | violation of `SplitsInserted` | 2 threads, 3 calls, one tree | a separator is never inserted |
| `memory` | pass | 2 threads, 3 calls, chunks of 2 units, 8 NodeIDs; for `InnerChain` 4 keys, 5 NodeIDs, 2 records, 2 merges | records apart, no chunk or NodeID lost or freed twice, nothing freed is read; navigation, separators, left sibling and consolidation of inner nodes are exact |
| `net` | pass | 2 clients of 2 requests, 2 addresses, 2 queues, 2 workers | requests conserved, the known faults only, every call returns |
| `cursor` | pass | 5 pairs of 3 keys, batch of 2, leaves split from 4 on, 3 contexts, writers without bound | order, completeness, range, counts until two threads change one at once, which takes a page larger than a batch |

### Why these bounds

- *Batch of 2, range of 5* is two full batches and a partial one: the first
  batch of `process_range`, a prefetched one with a successor, and a last one.
  The range of 0 is the empty one, with and without an item that follows it.
  `FreedSizes` of 0 and 2 are a deleted `range_ptr` taken over by one before its
  first prefetch, and by one whose last batch is of one item, which cuts nothing
  here. Two clients with two workers are the smallest system in which both
  workers can wait for prefetches that are queued behind each other's requests.
- *Segments of 5 bytes with slots of 2* leave a rest at the end of a segment, so
  that the bump pointer must skip it; the second segment runs full. A third
  thread lets two producers compete while a consumer pops.
- *Two epochs* are the oldest and the current one. The list grows with the
  rounds of the cleaner, but only its two ends are looked at; the theorems lift
  the bound. `MAX_THREAD_COUNT` only has to exceed the number of threads.
- *Five NodeIDs* for the children of inner nodes are as many as there are low
  keys: with up to four children at least one is free, and is given out again at
  once.
- *Two merges in a chain* give three base pages, one of them in the middle. Two
  records above each base page let one overwrite another, or lie on either side
  of a merge record.
- *Three trees* begin where the interesting steps are two calls away: a
  three-level tree with an emptied leaf, in which a leaf and then an inner node
  with one separator left are removed and merged; a leaf that splits twice under
  a root that is then full; and a root that splits while the child its upper
  half would begin with is being removed. Two calls are enough for one thread to
  leave each modification half done and the other to run into it.
- *Chunks of 2 units* hold one data record or two small ones, so the second
  thread always finds the chunk full or about to be; three calls grow a chunk,
  merge two pages and consolidate what results, with a NodeID on the stack, one
  in the cleaner's hands and fresh ones.
- *Two requests and as many addresses as clients* let a connection be deleted
  and its address reused while a poller still has it; two queues and two workers
  let requests of one client end in different queues.
- *Three contexts* are one for each of the three iterators of a scan. Five pairs
  in one leaf are more than twice a batch of 2; leaves of 4 and 5 pairs with
  keys of one and two values take both branches of `FindSplitPoint` and the one
  in which nothing is cut.

### What the properties say

The following hold until a reply is sent without its header (`HeadersSent`;
section 5, 5). `DeliveredExactly`: the keys a cursor yields are the range, in
order, and it becomes invalid only after all of it; an empty range may yield the
item that follows it. `SessionLifetime`: no request, task or worker refers to a
deleted `range_ptr` before `update_range` resumes (`NoDanglingSession`), and it
does not outlive its scan (`SessionReleased`). `PrefetchKept`: no prefetched
batch is overwritten before it was handed out. `NoWorkerDeadlock`: when a worker
waits, some worker can go on. `OnlyCutBatchesHang`: every call returns unless
the batch it reads was cut short by finding 1 of section 5.

`SlotsApart` (`SlotsDisjoint`, `SlotsWithinSegment`), `ListShape`, `PoolSpec`:
slots share no byte, cross no segment, form the list the pointers say, and
implement the pool.

`NoUseAfterFree`, `OneFate`, `GarbageFreed`: as their names say, for the nodes
of the tree.

`SearchExact` (`ExistenceExact`, `ValuesExactBelowMerge`), `ConsolidationExact`;
`RoutesExact` (`NavigationExact`, `LeftSiblingExact`), `SeparatorsExact`: each
algorithm on a chain against the plain set.

`LeavesPartition`, `SeparatorsResolve`: the leaves cover the key space without
overlap at every moment, and every separator leads to a node in the tree that
starts there. `NoDanglingId`, `RemovedNotLeftmost` and `AssertsHold`
(`AbortIsMine`, `RetiredOnce`: asserts that the build leaves out): the protocol
of removals. `KeySetSpec`: `Insert`, `Delete` and `GetValue` are atomic
operations on a set.

`RecordsApart`: records carved by several threads never overlap, nor leave their
chunk. `NothingLost`: each block is freed by one holder (`OneHolder`) and each
NodeID is in one place (`IdsConserved`), whatever races on the stack.
`NoReadOfFreed`: neither a thread inside the tree nor the cleaner reads freed
memory.

`RequestsConserved`: a request or its answer is in one place until the client
has it. `OnlyKnownFaults`: no answer is sent on a destroyed queue pair, and no
poller finds the connection of a request it has still to queue deleted; the two
faults left are in section 5.

`ScanExact` (`ScanOrdered`, `ScanComplete`, `ScanWithin`): the iterator under
change; of what is not in the range at most the first item is returned.
`ContextsSound` (`ContextsCounted`, `SingleThreaded`): the counts are exact
until two threads have changed one at once, and two threads hold one page copy
only if it has more items than a batch.

`CallsReturn`, `OnlyCutBatchesHang`, `LowerBoundReturns` and `GarbageFreed` are
the liveness properties.

`PROJECT.json` gives for each property a change of the model, like a bug in the
code, that TLC answers with a counterexample to it.

## 4. Fairness

- `RangeScan`: weak fairness of each client inside a call (not of starting a
  call), of the delivery of a reply (a reliable connection), of the poll thread
  for each connection, and of each worker. These are threads and hardware that
  run on their own; nothing chooses between them but the scheduler. Re-reading a
  batch with a wrong checksum is a stuttering step and gets none.
- `EpochManager`: weak fairness of the cleaner, which wakes up every
  `GC_INTERVAL`, and of a thread's next step inside `JoinEpoch` and
  `AddGarbageNode`. Strong fairness of `LeaveEpoch`: an operation of the tree
  ends, whatever it retires on its way (the action is disabled again and again
  while the thread is in `AddGarbageNode`). `CallsReturn` of `BwTreeSMO` is why
  that is assumed.
- `BwTreeSMO`: weak fairness of each thread inside a call. A single CAS may fail
  for ever under real contention; that calls return all the same comes from the
  bound on the number of calls, and the property shows that no modification
  leaves something behind that would make them go round with nobody else
  working.
- `Connections`: weak fairness of the network, of the event thread, of each
  poller, of each round of `start_net` and of each worker that has something to
  do; a client finishes the call it is in, but need not call again or leave.
- `RangeCursor`: weak fairness of the thread inside `LowerBound`, none of the
  writers.

## 5. What the code does that its text does not say

Four runs have a counterexample as their result (1 to 4). The models reach three
more states (5 to 7) at which the properties of passing runs draw the line.

1. **`range_partial_batch`** (`src/procs_ol.cpp:114`). `update_range` returns
   `ptr->size` after it has unlocked `ptr_mutex` and queued the next prefetch.
   If that prefetch runs first, the size is that of the *next* batch. When the
   next batch is the partial last one, the reply of a full batch is cut to its
   length, the rest of the client's buffer keeps older items, the checksum is
   wrong, and `update_query` reads the same buffer again for ever. The drain
   loop in `tests/stress.cpp:93`, whose ranges may be of any length, expects to
   end. It takes three batches: the first one comes from `process_range`, which
   has its size at hand, so the ranges of two batches in `tests/uni.cpp:35` are
   not concerned. The same read happens when the `range_ptr` is deleted
   (`FreedSizes`; 5 below). With the small batches of the runs the exclusive-or
   notices every cut, and no wrong item is delivered. With longer ones it need
   not: for batches of 5 and a range of 16, the second batch may be cut to one
   item, and the items 2 to 5 left from the first have the exclusive-or of 12 to
   15, so that the cursor yields 11, 2, 3, 4, 5. TLC finds this schedule after
   changing `Cap` and `Totals` in `MCRangeScan_range.cfg`, where
   `ChecksumAssumed` then fails as well. `RangeDeliveredExactly` proves that as
   long as replies have their headers such a coincidence is the only way to a
   wrong key, and `RangeCountExact` that the number of items is right even then.
2. **`epoch_reuse`** (`bwtree.h:7289`). `JoinEpoch` reads `current_epoch_p` and
   then increments a counter in what it points to. Between the two the cleaner
   can append an epoch, claim the old one, find it empty and delete it. The
   comment at `bwtree.h:7565` relies on the counter being negative from then on;
   the memory may hold something else by then. The theorems in section 6 show
   that this is the only way: without reuse the protocol is right.
3. **`leaf_merged`** (`bwtree.h:3635`). `GetValue` narrows the search in the
   base page with the positions of records it passed on the way down. A record
   above a merge record was written for one branch of the merge; a search that
   goes into the other branch uses a position of the wrong page. A stored value
   is not found. The comment at `bwtree.h:3493` says the function deals with
   merges.
4. **`smo_beyond`** (`bwtree.h:5443`). A thread that meets a split record
   inserts the separator in the parent, unless the key is not below the high key
   of its snapshot of the parent: then, the comment at 5437 says, the separator
   must have been inserted already. Nobody looks whether the snapshot is still
   the parent. The run: thread 1 reads parent P and stops. Thread 2 removes the
   right neighbour of P and merges it into P, removes a leaf that came from
   there and merges it into the last leaf of the old P, inserts a key and splits
   that leaf at a key beyond what P was when thread 1 read it, and stops before
   the separator is inserted. Thread 1 goes down to that leaf, takes the
   separator for one of the next parent, passes, and consolidates the leaf. Now
   no split record is left to tell anybody. The new leaf is found along next
   pointers, so the tree still answers as a set of keys; but once it is emptied
   and removed, `JumpToLeftSibling` reads a wrong left sibling off the parent,
   and the removal cannot be finished. With two calls this does not happen
   (`smo`); three are needed.
5. *A reply without its header* (`src/procs_ol.cpp:114`). For the last batch
   `update_range` deletes the `range_ptr` (110) before it reads `ptr->size`. If
   another worker has made a new `range_ptr` in that memory meanwhile, the size
   is 0 (37) and the reply is empty. Nothing lands in the receive buffer, which
   still holds the batch of two before, with its own header and checksum.
   `update_query` accepts it once more: a range of 5 in batches of 2 is read as
   1, 2, 3, 4, 1, 2, and the loop in `tests/stress.cpp:93-100` counts items
   twice. The old header also says that there is more and has the address of the
   deleted `range_ptr`, so a GETRANGE for it follows, which a worker may serve
   from the wrong scan or wait over for ever; if the buffer never held a header,
   the client waits for one for ever. TLC gives the schedule when `HeadersSent
   =>` is taken out of `DeliveredExactly`. The theorems about `RangeScan` say
   that nothing of this happens before a reply is sent without its header.
6. *A reference count in two threads* (`bwtree.h:7786`). The comment at
   7714-7716 takes for granted that an `IteratorContext` is used by one thread,
   and the one at 8239-8240 that `ref_count` is always consistent.
   `process_range` gives the `range_ptr` a copy of its cursor, queues the
   prefetch (`src/procs_ol.cpp:92`) and then destroys its own; both hold one
   context while the first batch ends in the page it began in. A leaf of one key
   is never split, so with more values than fit a batch (8190 items) that comes
   about: an increment and a decrement of the plain `ref_count` in two threads,
   one is lost, and the page is freed under a cursor or never. TLC gives the
   schedule when `ContextsCounted` is an invariant of the run `cursor`;
   `RangeContextsSound` shows that smaller pages are not concerned.
7. *An item beyond the range* (`include/bptree.h:27`). `include/index.h:62-63`
   says that `find` gives an iterator to an item within the range. The
   constructor of the cursor looks only for the end of the tree, so that of a
   range without items stands on the first item after it, which the server sends
   and the client counts. `ScanWithin` and `Passes` have it as the only such
   item.

Seen while reading, without a run of its own:

- `Traverse` works on the root it read first (bwtree.h:2764). After the root has
  split and grown a level, a thread that still holds the old root takes it for a
  node without a parent, and on a removed child of another level it would ask a
  parent snapshot nothing has written. `HasParent` in `BwTreeSMO` marks the
  places, and such a thread is `Astray`: `CallsReturn` says nothing of it.
- `GetValue` walks with `TraverseReadOptimized` (6845; the iterator calls
  `Traverse`, 8282), whose comment (4831-4832) says it "does not try to adjust
  node size and consolidate node", yet the walk along siblings calls
  `JumpToNodeID` (2930), which helps along, and does so with a parent snapshot
  that was never filled in. `Astray` names the state, and `CallsReturn` of
  `BwTreeSMO` ends there for a get.
- A poller queues a task and then posts the next receive with the connection's
  pointer (`src/bnet.cpp:436`). A worker may have answered, the client left and
  `on_disconnected` deleted the connection by then: the server ends in `TEST_NZ`
  (`src/bnet.cpp:185`), or the receive goes to another client's connection.
  `Connections` reaches both with clients that behave.
- `start_net` creates the thread that accepts connections before the queues and
  mutexes of the workers (`src/bnet.cpp:73`); a request in between is lost or
  ends the server. `Connections` reaches both; `CallsReturn` excepts them.
- The comment at 5668 speaks of the number of keys where `AdjustNodeSize` counts
  items; the one at 2136 says a leaf is split so that the number of keys is
  even, while `FindSplitPoint` starts from the middle item.
- `mm.h:15` says "2MB" beside `1 << 20`; `larm_malloc` reads `seg_info` one past
  its end (mm.cpp:207), which `SlotAllocator` has as `StraySegs`.

## 6. The theorems

All hold for every value of the constants that satisfies the named assumptions
of the module.

| Theorem | Assumptions beside those of the module | States |
|---|---|---|
| `RangeScanTypeOK` | none | `[]TypeOK` of `RangeScan` |
| `RangeSessionLifetime` | none | `[]SessionLifetime`: until a reply lacks its header, no deleted `range_ptr` is used, none is left over |
| `RangePrefetchKept` | none | `PrefetchKept`: until a reply lacks its header, no step overwrites a prefetched batch |
| `RangeNoWorkerDeadlock` | none | `[]NoWorkerDeadlock`: until a reply lacks its header, when a worker waits, some worker can go on |
| `RangeCountExact` | none | until a reply lacks its header, a cursor yields as many items as the index cursor goes through, then ends |
| `RangeDeliveredExactly` | `ChecksumTells` | `[]DeliveredExactly`: until then, they are the keys of the range in order |
| `AllocatorTypeOK` | `StrayOutside` | `[]TypeOK` of `SlotAllocator` |
| `AllocatorListShape` | `StrayOutside` | `[]ListShape`: the lists are what the pointers say |
| `AllocatorSlotsApart` | `StrayOutside` | `[]SlotsApart`: no two slots share a byte, none crosses a segment |
| `AllocatorIsPool` | `StrayOutside` | `Spec => PoolSpec`: the allocator implements `SlotPool` |
| `EpochTypeOK` | none | `[]TypeOK` of `EpochManager` |
| `EpochJoinedLive` | `~Reuse` | no thread is ever in a deleted epoch |
| `EpochNoUseAfterFree` | `~Reuse` | no thread holds a freed node |
| `EpochOneFate` | `~Reuse` | every node is linked, retired or free, and one of them only |
| `TreeMemoryTypeOK` | none | `[]TypeOK` of `TreeMemory` |
| `TreeMemoryRecordsApart` | none | `[]RecordsApart`: records of all threads lie apart, within their chunk |
| `TreeMemoryIdsConserved` | none | `[]IdsConserved`: each NodeID is in one place |
| `TreeMemoryNoReadOfFreed` | none | `[]NoReadOfFreed`: no thread and not the cleaner reads a freed block |
| `TreeMemoryNothingLost` | none | `[]NothingLost`: and each block will be freed by one, until it has been |
| `ConnectionsTypeOK` | none | `[]TypeOK` of `Connections` |
| `ConnectionsConserve` | none | `[]RequestsConserved`: a request is in one place until its client has the answer |
| `ConnectionsFaults` | none | `[]OnlyKnownFaults`: the server ends in the two known ways only |
| `TypeSafe` | `SplitsInserted` | `[]TypeOK` of `BwTreeSMO` |
| `LeavesPartitionHolds` | `SplitsInserted` | `[]LeavesPartition`: the leaves share out the keys at every moment |
| `RemovedNotLeftmostHolds` | `SplitsInserted` | `[]RemovedNotLeftmost`: a removed node has a left sibling in its parent |
| `SeparatorsResolveHolds` | `SplitsInserted` | `[]SeparatorsResolve`: a separator leads to a node that starts there |
| `NoOrphanHolds` | `SplitsInserted` | `[]NoOrphanNode`: a leaf without a separator is right of a split record |
| `NoDanglingHolds` | `SplitsInserted` | `[]NoDanglingId`: nobody can follow a NodeID that was given back |
| `AssertsHoldAlways` | `SplitsInserted` | `AssertsHold`: the asserts that the build leaves out |
| `KeySetImplemented` | `SplitsInserted` | `KeySetSpec`: `BwTreeSMO` implements `KeySet` |
| `RangeCursorTypeOK` | none | `[]TypeOK` of `RangeCursor` |
| `RangeScanExact` | none | `[]ScanExact`: ascending, nothing left out that was there all the time, at most the first item beyond the range |
| `RangeContextsSound` | none | `[]ContextsSound`: exact counts until two threads change one at once; those are of a page larger than a batch |

### What is assumed

- `ChecksumTells` (`RangeScan`): see section 2. A checksum that gives different
  keys different values has it, and so has the exclusive-or in the runs. The
  exclusive-or of the code does not have it for long batches (section 5, 1).
- `FreedAssumption` (`RangeScan`): the memory of a deleted `range_ptr` is, when
  `update_range` reads its size, still as it was or another `range_ptr` (0 to a
  full batch). Any other use of it is left out.
- `HeadersSent` (`RangeScan`) is no assumption: it is a condition in the
  properties themselves, which say what holds until a reply of size 0 is sent
  (section 5, 5).
- `StrayOutside`: the word that follows `seg_info[]` in memory, which
  `larm_malloc` reads in the last segment (mm.cpp:207), is not the address of a
  segment. If it is none, the allocator either stops handing out memory or
  faults. The run includes such words.
- `~Reuse`: the memory of a deleted `EpochNode` is not given out again while a
  thread that has read `current_epoch_p` has still to increment the counter
  there (section 5, 2).
- `SplitsInserted` (`BwTreeSMO`): no step passes a split record whose separator
  is not in the tree. It is an action property of the behaviour, the claim of
  the comment in `FinishPartialSMO`. It is not true of all behaviours (section
  5, 4), so the theorems are about those in which the schedule of that finding
  does not come up. It is a condition on one branch of one action,
  `FinishSplit`, and only that action's lemma uses it. Without it nothing like
  `NoOrphanNode` holds, and the removal of a leaf without a separator is a case
  the code does not deal with.
- `TreesAssumption` (`BwTreeSMO`): the tree to begin with is what loading keys
  leaves behind, `WellFormed`.
- The assumptions of the modules are what the code or its constants give: at
  least one item per batch, `Workers` and `Threads` finite, three iterator
  contexts for a scan, a slot no larger than a segment, and names for "nobody"
  that name nobody. Bounds (`MaxScans`, `MaxCalls` and the like) are arbitrary
  numbers.

### The arguments

Each component has one inductive invariant, made of named parts. Each was
checked with TLC as an invariant of a run before it was proved; several were not
inductive at first, and what was missing is what the parts below add to the
properties. The proofs have a lemma for each action, and where the parts of the
invariant speak of different variables, one for each of them.

*`RangeScanProofs`, the sessions.* The task in a worker's hands is slot 0 of its
queue, so a task only ever moves to a lower slot. `SessionInv` says that of each
client there is at most one request and one prefetch in all slots
(`TokensApart`), what a task in its slot knows of its client and its `range_ptr`
(`SlotOK`, `WorkerOK`), that a request is in one place of the connection
(`OneStage`), that whoever holds the newest batch knows whether the `range_ptr`
lives (`LiveOK`), and that a living one has its next batch or somebody about to
get it (`PrefetchDue`). `BatchesFull` is needed because an empty batch with a
successor would leave a cursor at its end with a living `range_ptr`. That the
workers never all wait is about order: prefetches stand in the queues behind
GETRANGEs of other clients, but never in a circle (`QueueOrder`): a prefetch of
a client is queued by the worker that holds the RANGE or GETRANGE of that client
and no longer waits, so nothing stands behind a GETRANGE of that client at that
moment; among finitely many waiting workers one then waits for nobody
(`NoCircle`).

*`RangeScanProofs`, what is delivered.* `Base(c)` is where the batch begins that
client `c` waits for; it moves only when a batch is accepted. `DataInv` says
that wherever a batch is - in the `range_ptr`, with the worker, under way, in
the buffer - its header is the one that `get_items` writes there. From this the
counts follow whatever the checksum does. Like the first part, it is proved
under `HeadersSent`, which no step makes true again: a reply whose header is
missing leaves the buffer with one of an older batch, of which none of these
parts speaks. `MixInv` says what the buffer may hold in place of that batch: the
size that `update_range` reads is that of this batch or the next, or that of
freed memory, and the rest of the buffer is from older batches at the same
places. `KeyInv` then needs `ChecksumTells` at one point, the test in
`update_query`.

*`SlotAllocatorProofs`.* `AllocInv`: a slot is with a user, on its way back or
once in one list (`Apart`), knows its class (`Classed`), what a thread read
under its lock still holds (`Locked`, `Consuming`, `Producing`), and the bump
pointer is within the segment it should be in and above every slot, unless the
stray word was taken for a segment and the next write faults (`PoolOK`). The
refinement `AllocatorIsPool` maps the linked slots to `free`; a slot becomes
free at the write of `tail->next_slot`, not at the release of the lock, and is
taken at the write of `head`.

*`EpochManagerProofs`.* `IInv` has four parts, none of which is inductive alone.
*Counts* (`CountInv`): while an `EpochNode` is in use, its counter is the number
of threads in it or undoing an increment, less `MaxThreads` once the cleaner has
claimed it. So a claim that saw zero really has an epoch without threads, and a
joiner of a claimed epoch sees a negative number. *Joined epochs live*
(`JoinedEpochLive`): only an epoch whose counter is zero at the claim leaves the
list. *Order* (`HoldsInv`, `TargetInv`): a retired node that a thread holds is
filed under an epoch not older than that thread's. As the list loses epochs at
its head only, the thread's epoch goes first, and it cannot go while the thread
is in it. *Fates* (`FateInv`): the garbage lists are disjoint, and no node is
filed twice.

*`TreeMemoryProofs`.* `IdInv` has the memory on one side and the NodeIDs on the
other. `ChunksOK` keeps all records, posted or not, beside each other, above the
tail of their chunk; `TailsOK` says how far below zero the tails can go, one
subtraction for each thread that has passed the test, which is what keeps the
`fetch_sub` from wrapping. On the stack, a snapshot with the version of the top
is the top (`PopsOK`), also while the cleaner has taken the top away for a push
(`PushOK`, `CurTop`). The nodes form a line from the first (`TreeOK`), a CAS
that can still succeed has read what is still so (`SnapsOK`), and the cleaner
meets one remove record per NodeID (`DyingOK`). The tree is reached along
`next`, a recursive function: that a node reached is live is proved from the
least place where it would not be; that every live node is reached (`Reached`,
`TreeIdsAre`), from there being no more of them than NodeIDs.

*`TreeMemoryProofs`, who frees what.* `OneHolder` counts those who will free a
block, and no step keeps that count by itself: a merge moves a branch from under
a remove record to under a merge record, and the cleaner visits one branch of it
before the other. `MemInv` says why the count is one. The pointers of memory are
a forest (`Founded`, `KidsOnce`): every descent ends, and a node has one above
it, but for a remove record whose branch a merge record took over, which gives
it up (`Cut`). The blocks are chains, one behind each base page or remove record
(`ChainsOK`), and a thread allocates in the chain that its record will be freed
with (`HomesOK`): for a merge record the one of its *right* branch, which is
what the comment in `PostLeafMergeNode` asks for. The entries of the table and
the garbage are roots of the forest, each once (`RootsOK`). What the cleaner is
in hangs under a root that is neither; what it comes back to is the right side
of a merge record with all that comes before it on the left (`WalkOK`), so its
places have nothing in common. A block is freed exactly when none of these holds
the head of its chain (`HeldOK`), and what a thread inside reads is in the tree
or was retired while it was inside (`GuardsOK`), and so is held. `Under` is a
recursive function on the heap. `UnderFact` is all that is used of it: it is the
least set that has the node and is closed under what its members lead to. All
calls that post something have one shape (`Grown`), and all steps of the cleaner
another (`Clears`); the lemmas that end in `Mem` are about the single actions.
`HoldersApart` and `HeldBySome` then give one holder for what is held and none
for what is not.

*`BwTreeTableProofs` and `BwTreeSMOProofs`.* The invariant `Inv` says that there
are two functions of NodeIDs the program does not keep: `l`, how far a node is
above the leaves, and `z`, for a removed node that was merged and whose
separator is still there, the node it was merged into. Under these `Struct`
describes the tree: each entry is a whole node or one below a remove or abort
record (`Entries`), each node's `next` starts where it ends, on the same level
(`Links`), the nodes of one level do not overlap (`Apart`), a separator leads
one level down to a node in the tree that starts there (`Levels`, `Targets`), a
merged node lies within the one it went into, which still shows the merge record
(`Zombies`), only a node right of a topmost split record has no separator
(`Seps`), a first child is never removed (`LowChildren`), and what a retired
removed node refers to waits for the same threads (`RetiredRefs`). The writes
fall into seven kinds (`InPlaceWrite`, `SplitWrite`, `MergeWrite`,
`DeleteWrite`, `FreshWrite`, `FreedWrite`, `Without`). For each there are three
lemmas: what changes (`...Frame`), that `Struct` stays (`...Step`), and that
what a thread knew of the NodeIDs it may follow stays true (`Evolve`).
`ThreadOK` is what a thread relies on at each point of its way: that its
snapshots, when not stale, are what the table has (`SnapOK`), that all they
refer to is guarded by its presence (`CurOK`, `ParOK`, `RemovedOK`), that the
parent has the separator of the child (`ChildOfPar`) and of its right sibling
(`NextOfPar`), which is what rules out a merge into the wrong node, that what is
to be deleted or inserted is right (`MergeOK`, `SplitOK`), that an inner node is
not split at a removed child (`HalvesOK`), and that an abort record is its own
(`BlockOK`, `Owners`). `Bystander` carries all of it across the steps of others,
once for all kinds of writes. The initial trees are any `WellFormed` ones
(`Layout`, `GrownStruct`). `SplitsInserted` is used in `FinishSplitStep` only,
where a thread passes a split record.

*`BwTreeSMOProofs`, the refinement.* The set is `Contents`, what the walk along
`next` finds. The walk is a recursive function, so the proofs speak of `Holds`
instead, that some leaf in the tree has the key, and `ContentsAre` says once
that the two agree: low keys rise along the walk, so as many steps as there are
NodeIDs reach its end, and a leaf that it did not meet would overlap one that it
did. A merged leaf counts although it is not on the walk, since the leaf it went
into has its items. Each action but a successful `PostData` leaves `Holds` as it
was (the lemmas that end in `Keeps`), and that one changes its own key only
(`PostDataChanges`); it takes that the leaf is the one that covers the key, and
no other has it (`LeafTells`). For a call that changes nothing, `SeenOK` says
that what the leaf it stands at shows of its key was so at some moment of the
call. When the thread arrives there, the leaf shows what is in the tree
(`Arrives`: a compare-and-swap through its snapshot could succeed, or it is a
`GetValue` that has just read the entry), and later steps only add to the
history.

*`ConnectionsProofs`.* `ConnInv` follows a request through eight stages, from
the client's packet through the event or completion, the poller and the queue to
the answer: it is in one of them (`Staged`) and in one place of it (`Once`).
`Linked` ties queue pairs, connections and addresses together, `EventsOK` says
which event can wait for a client in which state, `CompletionsOK` and
`PollersOK` that nothing names a connection that is gone, and `Served` that a
receive is posted or about to be.

*`RangeCursorProofs`.* `CursorInv`: a page copy that a cursor stands in has
every key from there to its high key that was in the tree all the time
(`Covers`), and all such keys behind the cursor were delivered (`ScanInv`). The
writers may change anything else. `WithinInv` has the first item apart: every
other one was tested against the end of the range. `ContextsCounted` is about
cardinalities of the iterators that hold a copy. `SharedOK` bounds the items of
the first batch by those below the cursor in the page it shares: when the batch
is full and the cursor still in that page, the page has more items than a batch.

### What is only model-checked

- The liveness properties and the fairness they rest on, and anything about
  `ENABLED`: out of the prover's reach.
- The invariants of `LeafChain` and `InnerChain`, which are about what their
  algorithms compute for chains of every length: that needs induction over the
  chain, and the induction theorems take the statement as an operator, which no
  installed prover can instantiate.

## 7. What is not modelled

- *The rest of connecting* (`src/bnet.cpp`): `end_net`, which only a client
  calls before it exits; the error events and timeouts of the connection
  manager; the registration of memory; a client that dies in the middle of a
  call; the one-sided read and write, which nothing calls.
- *`larm_malloc` returning NULL*: `SlotAllocator` has the failing call, and no
  caller looks at the result.
- *The time the NIC takes to read a reply buffer*: the buffer goes back to the
  pool right after `ibv_post_send` (`src/bnet.cpp:474`); `RangeScan` copies the
  batch when it is posted.
- *An update while a GETRANGE of the same client is outstanding*: not done by
  any program in `tests/`.
- *`remove` of `bptree.h`* as one operation: it is a `GetValue` and one `Delete`
  per value, each of which is modelled.
- *A cursor given up before its end*: the client library has no message for it,
  so the `range_ptr` stays. Left out of `RangeScan`, because the programs in
  `tests/` drain their cursors.
- *The batched push of `atomic_stack.h`*: never called.
- *`free_mem`, `shmget`, huge pages, RDMA verbs*: input and output.
- *The non-overlapped variant* (`procs_base.cpp`, `query_base.h`): not built by
  the Makefile, and an older form of the code `RangeScan` models. The *TCP
  layer* (`osnet.cpp`): not built, and does not compile as it stands.
- *Bloom filter, Peloton wrappers, printing and statistics*: in no path the
  server uses.
- *Weak memory*: the models interleave steps of sequentially consistent memory.
  The code uses CAS on the table and `pthread` locks elsewhere, except for
  `ref_count` (`RaceCounts`, finding 6) and `ptr->size` (findings 1 and 5).
- *What follows a finding*: the server after a GETRANGE with the address of a
  deleted `range_ptr` was served, and a scan after `RaceCounts`.
- *The order of the values of one key* in a page: `RangeCursor` numbers them.

## 8. Plan

Done, in this order: `RangeScan` and its type theorem; `SlotPool` and
`SlotAllocator`; `EpochManager` with its theorems; `LeafChain`; `InnerChain`;
`KeySet` and `BwTreeSMO`; `RangeCursor`; `GetValue` in `BwTreeSMO`;
`TreeMemory`; `Connections`; then the safety theorems of `RangeScan`,
`RangeCursor`, `SlotAllocator` with its refinement, `Connections`, `TreeMemory`,
and those of `BwTreeSMO` with its refinement of `KeySet`.

Every safety property that a passing run checks is now proved, but for those of
`LeafChain` and `InnerChain` (section 6) and what finding 4 excepts. What could
come next is more of the system: a cursor given up before its end, updates while
a GETRANGE is outstanding, and `end_net`.
