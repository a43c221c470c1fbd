# ElCached in TLA+

ElCached makes memcached *elastic*: a profiler inside the process
(`rd-trace/`) predicts the miss ratio for every cache size, a linear program
picks a size, and a modified memcached (`memcached-dyn/`) shrinks to that size
while it serves requests, giving whole slab pages back to the operating system.
These modules model the server from the sockets of its clients down to the pages of its
memory: connections and the threads that drive them, items with their queues and
reference counts, the hash table that grows under them, the machinery that shrinks the
cache, and the profiler, from the tree it counts reuse distances with to the miss ratio
curve. TLC checks them, and TLAPS proves the safety of the shrinking, of the profiling
window, of the connections and of the binary protocol.

## 1. The system

| component | source | state | operations |
|---|---|---|---|
| Elastic slab memory | `memcached-dyn/slabs.c` | per class: pages (`slab_list`), freelist, and while monitoring `sorted_list`, `hlls`, `mon_slabs`; `mem_limit`, `mem_malloced`; `slab_rebal`, `slab_rebalance_signal`; locks `slabs_lock`, `mon_slabs_lock`, `slabs_rebalance_lock`, condition `slab_rebalance_cond` | `slabs_alloc`, `slabs_free`, `slabs_reassign`, `slabs_deallocate`, `start_/stop_slab_monitor`, `set_slab_active`, the rebalancer thread |
| Items and LRU queues | `memcached-dyn/items.c` | per item: flags, reference count, links; per class: HOT/WARM/COLD queues | allocate, link, get, touch, unlink, remove; eviction; crawler; LRU maintainer |
| Hash table | `memcached-dyn/assoc.c` | primary and old table, `expanding`, `expand_bucket`, `started_expanding` | find, insert, delete; the maintenance thread that expands |
| Worker threads, item locks, pause | `memcached-dyn/thread.c` | item locks, connection queues, `worker_hang_lock`, `init_count` | dispatch, item lock and trylock, `pause_threads` |
| Protocols and storage commands | `memcached-dyn/memcached.c` | connections, settings, statistics, the monitoring flag | the text and binary protocols, `do_store_item`, incr/decr |
| Profiler | `rd-trace/rd_trace.cc` | request queue, key map, one tree and histogram per class, `ltime`, the miss ratio curve | push on get/set, the consumer thread, `compute_mrc` |
| Reuse distance tree | `rd-trace/RedBlackTree.cc` | a red-black tree with subtree sizes | `InsertTail`, `DeleteNode`, `GetDistance` |
| Sketches | `memcached-dyn/hyperloglog.c` | one HyperLogLog per monitored page | init, add, estimate |
| Linear program | `rd-trace/LP.cc` | - | builds and solves the model for the cache sizes |
| Central server | `dyn-server/server.c` | connected profilers, their curves | collect curves, broadcast sizes |
| Not part of the system proper | `memcached-1.4.25-rd/`, `memcached-1.4.25-fp/` (earlier copies), `mutilate-master/` (load generator), `lp-solve/`, scripts, data | | |

How they interact. A worker thread parses a request, takes the item lock of the
key's hash, calls `do_item_get`, which finds the item in the hash table,
increments its reference count and, while pages are being monitored, adds the
hash to the sketch of the item's page (`set_slab_active`). A set allocates a chunk
with `slabs_alloc`. Workers also push every binary get and every set on the
profiler's lock-free queue. When the profiling window ends, the profiler's
consumer thread computes the miss ratio curve, solves the linear program, and
calls, in this order, `start_slab_monitor`, `slabs_deallocate` and
`stop_slab_monitor`. `slabs_deallocate` lowers the limit and, until the limit is
met, asks the rebalancer thread for the removal of one page, over
`slab_rebalance_signal` and `slab_rebalance_cond`. The rebalancer picks the page
with the smallest sketch, sweeps its chunks one by one (waiting for busy ones),
and frees it. The same rebalancer moves pages between classes for the
`slabs reassign` command. The hash table's maintenance thread and others pause the
rebalancer by holding `slabs_rebalance_lock`.

What is hard: three locks taken by four kinds of threads; decisions taken under one
lock and executed under another after a hand-over over a condition variable two
threads share; a sweep that drops `slabs_lock` in the middle of an item; three
parallel lists per class that have to be shifted together; items that are referenced
while their page is under the sweep; limits and classes that leave nothing to
remove.

What makes each component correct:

* *Slab memory*: a page is owned by one class; the memory count is right; a page
  leaves only when nobody can see it; the monitor describes the pages there are;
  memory is given back down to the limit and not below; requests of the mover are
  neither lost nor mixed up; nothing is locked for ever.
* *Items*: the reference count is the number of holders; a linked item is in the
  hash table and in one LRU queue; an unlinked one is freed once; what commands answer
  is what a store of versions would, although locks are dropped in between.
* *Connections*: an accepted socket is driven by one thread until it is closed; a
  connection sleeps only while an event is sure to wake it; replies come in the order of
  the requests; whatever ends a connection, the items it refers to are given back.
* *Binary protocol*: the server finds the next header wherever the last request ends,
  also when it refused it; a client that pipelines quiet commands can tell what was done;
  nothing that needs a login runs without one.
* *Hash table*: a find sees every item throughout an expansion; an expansion that
  was asked for happens.
* *Profiler*: the histogram counts each measured get once, at its reuse distance;
  the curve falls with the size; the consumer comes to an end.
* *Tree*: the distance of a node is the number of younger nodes.

## 2. Modules

| module | what it is |
|---|---|
| `LowerBound` | `my_lower_bound`, the binary search of `set_slab_active` |
| `SlabDealloc` | the elastic slab memory: all threads, their locks, all properties, the inductive invariant |
| `MCSlabDealloc` | its instances for TLC |
| `SlabDealloc_proofs` | lemmas on page lists, the inductive invariant and the safety theorems |
| `SlabHandshake_proofs` | the handshake over the condition variable, the action properties, and what may kill the process |
| `Assoc` | the hash table while it grows, the item locks, the pause of all threads |
| `ItemTable` | what the hash table promises: a set of items, one request per key at a time |
| `MCAssoc` | instances of `Assoc` for TLC |
| `Assoc_proofs` | the inductive invariant of `Assoc`, its safety theorems and the refinement |
| `ReuseTree` | the red-black tree of the profiler, loop iteration by loop iteration |
| `RecencyList` | what the tree promises: a list in the order of last use |
| `ReuseProfile` | what one request does to key map, trees, histograms and window |
| `LruCaches`, `MCLruCaches` | the profile beside real LRU queues of every capacity; its instance |
| `Profiler`, `MCProfiler` | workers, queue, consumer thread and `compute_mrc` around the profile; its instances |
| `Profiler_proofs` | theorems on the window, the late requests, the histograms and the curve, with what they need of sums |
| `Items` | items of one slab class: reference counts, LRU queues, maintainer, crawler, allocation with eviction, all commands |
| `VersionedStore` | what `Items` promises its clients: a map from keys to versions that vanish but never come back |
| `MCItems` | an instance of `Items` for TLC |
| `Items_proofs` | the inductive invariant of `Items` and its safety theorems |
| `ItemsStore_proofs` | that `Items` implements `VersionedStore` |
| `Connections` | the listener, the worker threads' events, the state machine of a connection, clients and sockets around them |
| `Connections_proofs` | the inductive invariant of `Connections` and its safety theorems |
| `BinaryProtocol`, `MCBinaryProtocol` | a connection in the binary protocol: stream, dispatch, refusals, quiet commands, SASL; its instance |
| `BinaryProtocol_proofs` | the inductive invariants of `BinaryProtocol` and its safety theorems |

`SlabDealloc` uses `LowerBound`; `Assoc` is shown to implement `ItemTable`,
`ReuseTree` to implement `RecencyList`, and `Items` to implement `VersionedStore`. `ReuseProfile` builds on that: its trees are
lists. `LruCaches` and `Profiler` both extend `ReuseProfile`, one to say what the
histograms mean, the other to say when they are right. `Profiler` ends where
`SlabDealloc`'s provisioner begins.

`SlabDealloc` and `Assoc` meet at two places: `pause_threads` takes `slabs_rebalance_lock`, which is
`RebalancerPause` in one and the first `PauseLock` in the other, and the sweep
unlinks an item through the hash table, which is `SweepFromLRU` in one and
`Unlink(t, k, c)` by the rebalancer in the other.

`Items` stands between the two: its hash table is a function, which is what `ItemTable`
lets its users see, and its chunks come and go as `SlabDealloc` lets workers allocate and
remove them. `Connections` is above it: each connection runs one command at a time, and
all it knows of items is how many it refers to. Where `Connections` takes a reference
(`process_command`), `Items` has the command that takes it; where it gives it back
(`conn_mwrite`, `conn_nread`, `conn_cleanup`), `Items` has `item_remove`. `BinaryProtocol`
is one of its connections, in the other protocol and looked at more closely: what
`Connections` calls a command that can be answered or not is there opened up, while the
threads and events around it are left out.

### SlabDealloc

Variables are those of `slabs.c`, with the same names. `slab_list[c]` is a sequence
whose length is `slabclass[c].slabs`; `sorted_list`, `hlls` and `mon_slabs` likewise.
Indices start at 1 instead of 0. `slab_rebal` has the fields of
`struct slab_rebalance`; `slab_pos` is a chunk number instead of a pointer, and
`cleared` is the set of chunks of the swept page that carry the flags
`ITEM_SLABBED|ITEM_FETCHED`. `wpc`, `rpc` and `ppc` are the program counters of
workers, rebalancer and provisioner; `ref[w]` is the item worker `w` holds a
reference on.

| code | actions |
|---|---|
| `slabs_alloc` | `SlabsAllocLock`, then one of `SlabsAllocFree` (freelist), `SlabsAllocNewSlab` (pool or `malloc`), `SlabsAllocNoMemory` (`malloc` fails), `SlabsAllocFail` |
| `do_item_get` + `set_slab_active` | `ItemGet`, `SetSlabActiveLock`, then `SetSlabActive`, `SetSlabActiveSegfault` or `SetSlabActiveAborts` |
| `do_item_remove` | `ItemRemove` |
| `slabs_reassign`, `slabs_reassign_pick_any` | `SlabsReassign` |
| `slabs_rebalancer_pause/resume` | `RebalancerPause`, `RebalancerResume` |
| `slab_rebalance_thread` | `RebalancerBoot`, `RebalancerWait`, `RebalancerWake` |
| `slab_rebalance_start` | `RebalanceStartLock`, then `RebalanceStart`, `RebalanceStartNoGo` or `RebalanceStartAborts` |
| `slab_rebalance_remove`, `slab_rebalance_move` | one chunk: `SweepPass`, `SweepFromSlab`, `SweepBusy`, or `SweepFromLRU` followed by `SweepUnlinked` |
| `slab_remove_finish` | `FinishLock`, `slab_remove_finish` |
| `slab_rebalance_finish` | `slab_rebalance_finish` |
| `start_slab_monitor` | `StartSlabMonitorLock`, `start_slab_monitor` |
| `slabs_deallocate` | `SetMemLimit`, `DeallocateLock`, `DeallocateNothing`, `RequestRemoval`, `ProvisionerWake`; `DivideByZero` when there is nothing to draw from |
| `stop_slab_monitor` | `StopSlabMonitorLock`, `stop_slab_monitor` |
| `pthread_cond_signal`, `pthread_cond_wait` | `CondSignal` (wakes one waiter, either thread), `SpuriousWakeup` |

*Atomicity.* `mon_slabs_lock` and `slabs_rebalance_lock` are held across blocking
operations, so they are variables. `slabs_lock` is not: a section under it blocks on
nothing, hence is one action. The single exception, where `slabs_lock` is dropped to
unlink an item in the middle of the sweep, is two actions with every other thread
in between. Tests and assignments of `slab_rebalance_signal` all happen under
`slabs_rebalance_lock`.

*Abstractions.* Memory is counted in pages (with `slab_reassign` on, which the
rebalancer thread requires, every page has `item_size_max` bytes). Whether a chunk
that nobody refers to is on the freelist or holds a stored item is left open:
allocation, fetch and sweep each take the case they like. A worker holds one
reference; the storage commands, which hold the uploaded item while they fetch the
old one, count as two workers. A sketch is its estimate, and a fetch may or may not
raise it. Page addresses are numbers; a page and the next are separated by the
allocator's header.

*Faults.* `malloc` and `realloc` may fail, a wakeup may be spurious, a division by
zero and a null pointer kill the process (`Killed`).

*Assertions.* The build makes two servers of this code: `memcached` with `-DNDEBUG`
(`Makefile.am:37`) and `memcached-debug` without. Where an assertion of `set_slab_active` or of
`slab_rebalance_start` fails, the step that goes on and the one that aborts are both possible
(`SetSlabActiveAborts`, `RebalanceStartAborts`), so each property holds of either build.

### Assoc

Variables with the names of `assoc.c` and `thread.c` are theirs. `primary_hashtable`
and `old_hashtable` map bucket numbers to sets of keys; `old_hashtable` is empty
when it is freed. `waiting` says that the maintenance thread is blocked in
`pthread_cond_wait`; `item_lock` and `pause_lock` name the holders of the locks;
`pipe[w]` counts the bytes `'p'` in a worker's pipe. `pc` is the step of a worker or
background thread, `fn` the function of `assoc.c` it is in, `saw` and `where` what
this call has read so far; `mpc` is the step of the maintenance thread.

| code | actions |
|---|---|
| `item_get`, `item_touch`, `store_item`, `add_delta` | `Request`, the calls of `assoc.c` below, `UnlockItem` |
| `item_unlink`, eviction in `lru_pull_tail`, the crawler, the sweep of the rebalancer | `Unlink`, `assoc_delete`, for a rescued item `assoc_insert`, `UnlockItem` |
| `assoc_find`, `assoc_insert`, `assoc_delete` | `ReadExpanding`, `ChooseBucket`, then the action of that name; for an insert `InsertCount` |
| `assoc_start_expand` | part of `InsertCount` |
| `assoc_maintenance_thread` | `MigrateLock`, `MigrateItem`, `MigrateBucketDone`; `MaintenanceReset`, `MaintenanceWait`, `MaintenanceWake`; `assoc_expand` or `assoc_expand_no_memory` |
| `pause_threads` | `PauseLock` (four times), `PauseNotify`, `PauseDone`; `ResumeUnlock` (four times) |
| `thread_libevent_process` with `'p'` | `Register`, `HangPass` |
| background threads: hold their lock except while they sleep | `BackgroundWake`, `BackgroundSleep` |
| `lru_crawler enable`, `disable` | `CrawlerCommand`, `CrawlerCommandDone` |

*Atomicity.* A call of `assoc.c` reads `expanding`, then compares its bucket with
`expand_bucket`, then works on the bucket, in three actions: the item lock of the key
keeps the maintenance thread away from this bucket and from no other, and does not
protect the two variables. `MaintenanceReset` and `MaintenanceWait` are two actions because
`maintenance_lock`, under which they are, is not taken by the workers.

*Abstractions.* Keys are items: what an item holds and which copy of it is linked is
left open, so an unlink of an item that has been replaced meanwhile is a request that
does nothing. A worker that holds an item lock does not evict another item at the
same time (the code only tries the second lock, so nothing can wait there). When an
LRU queue or a page leads a thread to an item is left open. The crawler thread is not
stopped by `disable`; what matters here is that the command takes its lock.

*Faults.* `calloc` of the new table may fail; a wakeup may be spurious.

### ReuseTree

`nodes`, `n_nodes`, `freelist` and `tail` are the fields of `RedBlackTree`; a node is its
index in the array, `nodes[nil]` and `nodes[root]` are the sentinels, with the links the
code gives them. One thread uses the tree. An operation starts as one step, and each
iteration of each of its loops is another; `pc` names the loop.

| code | actions |
|---|---|
| `AddNode` and `InsertTail` | `InsertTail`, then `InsertRecolor`, `InsertRotate` until `InsertEnd`, `FixupSums`, `InsertReturn` |
| `DeleteNode` | `DeleteNode` (takes the node out, or puts its successor in its place), `FixupSums`, then `DeleteRed` or `FixStart` |
| `DeleteFixUp` | `FixRedSibling`, `FixBlackNephews`, `FixNearNephew`, `FixFarNephew`, `FixEnd`: the cases of the loop, each written once for both sides |
| `GetDistance`, `GetSuccessorOf`, `GetPredecessorOf` | the operators of those names |
| `LeftRotate`, `RightRotate` | `Rotate` |

A pass of the code's repair loop may rotate, look again and rotate again; here these
are separate steps, each with the test the code makes at that place. `realloc` is the
bound `MaxNodes`; its failure, which the code does not test, is not modelled. `GetCousin`,
`Enumerate` and the searches are not called.

TLC identifies states by `Shape` (a VIEW): the tree with every node named by its rank.
Nothing in code or properties depends on which index a node has: indices are only
compared with each other and with the sentinels, and which one `AddNode` hands out makes
no difference to what happens next. The cells of free nodes are left out, because
`InsertTail` writes every field before one is read.

### ReuseProfile, LruCaches, Profiler

A key of the model is a hash value of the code, and stands for its tree node as well:
a class's tree is the list of its keys. `rd_hist[c]` is the vector, one position later.

| code | actions |
|---|---|
| `start_warmup`, `set_enable_trace` | `Init` |
| `rd_trace_get`, `rd_trace_set` | `Trace` (tests `enable_trace`), then `reque_push` |
| `Request::profile_get` | `profile_get`: `LastGet` (`stop_tracing`) or `WindowGet` (`start_tracing`, count, histogram, move to the tail) |
| `Request::profile_set` | `profile_set` |
| `consume_reque` | `Wake`, `Poll`, `PopAndProfile`, `Drained`, the curve, `Forget` |
| `compute_mrc` | `StartCurve`, then one `CurvePoint` for each cache size, or `DivideByZero` |

*Atomicity.* A worker tests `enable_trace` and pushes in two steps. Profile, histograms
and both flags are written by the consumer only, and what workers read is
`enable_trace` alone, so popping a request and profiling it are one step; so is one
cache size of the curve. The counts of slabs, read while the workers run, are any
values, except that a class an item was stored in has a slab.

*Abstractions.* The classes of the model are those with a chunk size. Slab size, first
cache size and word (2^20, 32 and 2^32 in the code) are constants, scaled down together;
multiplications wrap as the code's do. The curve keeps the misses, and leaves the
division by `get_count` to the reader: `WindowMeasured` says when that is zero.

`LruCaches` has variables no code has: for every class and capacity an LRU queue, used
by the same requests, by a client that stores again what it missed, as the load generator
does with `-L 1`. It is the reference for the histograms, which exist to predict such
queues.

### Items

`item[i]` is the header of chunk `i` with what the properties need of its fields; `hash` is
the table, `queue` the three LRU queues of the class from head to tail, with at most one
`"crawler"` in each. `item_lock` and `lru_lock` name holders; an LRU lock that is taken and
released within one action is only tested. `c[w]` is the connection worker `w` serves, its
`pc` where the command is; `pull[t]` is a call of `lru_pull_tail`, by the maintainer or by a
worker in `do_item_alloc`; `crawlers` the queues a crawl is asked for and those it runs in.

| code | actions |
|---|---|
| `item_get`, `do_item_get`, `do_item_touch` | `Get`, `Delete`, `UnlinkStale` (`item_get`), `Reap` for the rest of the unlink of an expired item |
| `process_get_command` | `Get`, `Relink` and `RelinkDone` (`item_update`), `Format`, and `item_remove` when the reply is out |
| `process_delete_command` | `Delete`, `item_unlink`, `UnlinkDone`, `item_remove` |
| `process_update_command` | `Update`, the allocation, `OutOfMemory` and `UnlinkStale`; then `store_item` or, if the client goes, `Abandon` |
| `do_item_alloc` | `AllocPull` for each `lru_pull_tail`, `slabs_alloc` or `slabs_alloc_fails`, `OutOfMemory` |
| `do_store_item` | `store_item`, then `store_refused` (`Refused`: also an append whose cas id does not match), `store_link` or `store_append` with an allocation; `Swap` (`do_item_unlink` of the old item), `do_item_link`, `Release` |
| `do_add_delta` | `add_delta`, then `delta_empty`, `delta_in_place` or `delta_replace` with an allocation, `Swap`, `do_item_link`; `Release` |
| `lru_pull_tail` | `PullStart`, then per entry `PullSkip`, `PullReap` or `PullActive`, or `PullTake` and `PullFinish`, which end the walk |
| `lru_maintainer_juggle` | the action of that name |
| `lru_crawler_crawl`, `lru_crawler_start`, `do_lru_crawler_start` | `lru_crawler_start`, then `do_lru_crawler_start` for each queue |
| `item_crawler_thread` | `CrawlPass`, `CrawlReap` (`item_crawler_evaluate`), `CrawlDone` |
| the clock, `flush_all` | `Age` |

*Atomicity.* An action is what happens between two operations on a queue or on the
freelist, since those take a lock that walkers and crawler hold while they only *try* the
item lock. What is done under an item lock alone, or is private to a worker, is merged with
its neighbour. A walk holds the queue's lock from `PullStart` until it takes an item or
ends; a step of the crawler takes and releases it, so it is one action.

*Abstractions.* One slab class. An item lock guards one key; the code shares a lock
between keys, which makes a `trylock` fail more often, and to fail is always possible here.
The clock is left out: any item may expire at any time, which covers expiration times and
`flush_all` (so `touch` is a get); whether 60 seconds have passed since an item was moved in
its queue is left open. The command of an upload matters only when its data has come, so it
is chosen there. A cas names the id of what is stored or an older one, as good as 0. `ver` is
auxiliary: the cas id a value was written under. `Empty` stands for every value that is not a
number: where the code tells no bytes from a text, which is only in the reference it does or
does not give back, either happens. Appends and incrs of the binary protocol name a cas id too. The settings are chosen in `Init`: with a
maintainer, or with a crawler and cold queues only.

### Connections

`conns[f]` is the `conn` in slot `f` of the array `conns`, with the same field names where the
field is there: `ileft` counts the items of a reply, `item` is the upload being read, `out` the
reply being sent. `loop[t]` is a thread's call of `drive_machine` with the requests it may
still serve, or where it is in `conn_close`; `active[t]` are the events libevent is still to
call it for. `refs` counts, per descriptor, the references to items its commands have taken.
`client` is the other end: what has been sent, is on its way, and has been received.

| code | actions |
|---|---|
| `conn_listening`, `dispatch_conn_new` | `accept`; `OutOfDescriptors` (EMFILE) and `stop_accepting` (`accept_new_conns(false)`) |
| `maxconns_handler` | the action of that name |
| `thread_libevent_process`, `conn_new` | `thread_libevent_process` |
| libevent | `event_base_loop`: all that is ready is called before it looks again; `event_handler` |
| `try_read_network`, `conn_waiting` | `conn_read` |
| `try_read_command`, `process_command` | `conn_parse_cmd` |
| `conn_new_cmd`, `reset_cmd_handler` | `conn_new_cmd` |
| `conn_nread`, `complete_nread_ascii` | `conn_nread` |
| `conn_swallow` | `conn_swallow` |
| `conn_write`, `conn_mwrite`, `transmit` | `conn_write`, `conn_mwrite` |
| `conn_close` | `conn_cleanup` (up to the state `conn_closed`), `conn_close` (the descriptor), `conn_close_allow`, `conn_close_count` |
| clients, the kernel | `Connect`, `Send`, `Receive`, `Leave`, `close` |

*Atomicity.* An action is a turn of the loop in `drive_machine`, with the turn after it that
only notes that everything is sent or that there is nothing to read. A connection is its
thread's own, so what interleaves is what threads share: sockets, the queue of new
connections, `curr_conns`, `allow_new_conns`, and the slot of a descriptor. `conn_close`
touches three of these, one after the other, and is four actions.

*Abstractions.* The text protocol over TCP. A request line is two pieces and a data block
one, a reply is one piece, and pieces arrive one by one: a line may come in half, and
several requests at once. Kinds of requests: a get with or without a hit, an upload with or
without `noreply`, for which there is room or not, and quit; commands of one line that answer
with a string behave like a get that misses. What is sent before `accept` is the same to the
server as what is sent right after. A client that is gone has its history dropped. `malloc`
failures inside a reply and lines longer than the buffer are left out.

*Faults.* A client may leave at any moment, in the middle of a request or of a reply; what
was sent arrives, and a write to it may fail or not. The process may run out of descriptors.

### BinaryProtocol

`conn` is one `conn`; fields have their names of `memcached.h`, and `of` stands for
`binary_header`, `cmd` and `opaque` together: the request they were last taken from. `sent` is
all the client has sent and `pos` the place in it where reading goes on, so `rbuf` and `rcurr`
are not needed; what lies between `pos + rbytes` and the end is still in the socket. `got` are
the answers, each with the request whose opaque it carries. When the connection is closed, the
next client gets its descriptor and with it the `conn`: `conn_new` resets what the code resets,
and keeps `sbytes` and `substate` as the last client left them.

| code | definitions |
|---|---|
| `try_read_network`, `conn_waiting` | `try_read_network` |
| `try_read_command`, `dispatch_bin_command`, `bin_read_key` | `try_read_command`, with operators of those names |
| `reset_cmd_handler` | the action of that name |
| `conn_nread`, `complete_nread_binary`, `process_bin_*`, `complete_*_bin` | `conn_nread`, with operators of those names |
| `conn_swallow` | `conn_swallow` |
| `conn_write`, `conn_mwrite`, `conn_release_items` | `conn_mwrite` |
| `conn_closing`, `conn_cleanup` | `conn_close` |
| `conn_new` for a descriptor that has had a connection | `conn_new` |
| the conversion of the header's lengths to `int` | `AsInt`, `vlen` |
| `write_bin_error`, `write_bin_response`, `out_of_memory`, `handle_binary_protocol_error` | operators of those names |

A command is a set of outcomes: what becomes of the connection, and how many references to
items were taken or given back. What decides between outcomes (is the key there, does the cas
id match, what does the SASL library say) is left open.

*Atomicity.* A turn of the loop in `drive_machine`. A connection is its thread's own.

*Abstractions.* Bytes are counted in pieces: a header is two, so it may come in halves; key
and extras are one; a value any number. Commands that differ in what they do to items alone
are one (see the module). Out of step, what lies at `pos` is a header only where one was sent:
values that look like headers are left out. The statistics are one packet. An unsigned length
has `Word` values and becomes an `int` below zero from half of them on, as in the code with 2^32.

*Improper requests.* Requests may have any lengths: those the command takes, those it refuses, and those
the code does not look at. A body may be shorter than its key (append, prepend and SASL do not
check, `memcached.c:1952`, `:1985`), so that the length of the value is below zero; stat, touch
and gat may bring a value that is not read (`:1960`, `:1996`); a value may have 2^31 bytes or more; a mechanism
with too long a name may come without data. `Proper` names what a client must keep to, since
the server does not see to it. `InStep`, `AnswersInTurn` and the first part of `RequestsAnswered` speak of the
requests of a client that has been proper so far; the clients before it may have been any.

*Faults.* The client may leave at any moment. With `mayFail`, chosen in `Init`, every `malloc` on the way (an
item, the read buffer, the statistics) may fail. `add_msghdr` cannot: `msglist` is never
empty.

## 3. Runs

The first three runs use `MCSlabDealloc`, the next `MCAssoc`; the three after it are of the
profiler, and the last three of items and connections.

| run | asks | bounds |
|---|---|---|
| `DeallocWorkers` | Do page lists, sketches and references stay consistent while two workers fetch and store items of two classes (one is the largest) and pages are removed? `TypeOK`, `PagesOwnedOnce`, `NoDanglingItem`, `PageClearAtFinish`, `MonitorConsistent`, `SweptPageInPlace`, `SegfaultOnlyInLargest` | 2 workers (symmetric), 3 pages of 2 chunks, limit 3 lowered to 1, estimates 0..1, one failed `malloc` |
| `DeallocClasses` | Does the handshake of `slabs_deallocate` and the rebalancer give back what it should, no more, and end? `MemoryAccounted`, `NoLostWakeup`, `NoDivideByZero`, `NoOverShrink`, `LastPageKept`, `DeallocateCompletes` | 1 worker, 2 classes in use, 3 pages of 1 chunk, limits 1 and 2, two calls |
| `Reassign` | Does a `slabs reassign` that was accepted begin, unless it is refused or aborts, and does the page of a move that has begun come to the class it was asked for? `ReassignCompletes` | 1 worker, 1 pausing thread, a class in use, another and the pool, 3 pages of 2 chunks, `realloc` may fail |
| `Growth` | Is the table a set of items to those who use it, while it is paused, doubled and moved under them, and do pauses and expansions end? `TableSound` (types; `NoDuplicates`, `DeleteFinds`, `ItemsCounted`, `AllPausedAtExpand`), `TableIsSet` (refinement of `ItemTable`), `MaintenanceEnds` (`PauseEnds`, `ExpansionEnds`) | 2 workers, the rebalancer, 4 buckets that become 8, 2 item locks, 7 keys of which one is requested, 2 pauses, `lru_crawler` commands |
| `ReuseTree` | Is the tree a recency list with exact distances, after every rotation? `TreeIsRecencyList` (refinement of `RecencyList`), `TreeSound` (types; `RedBlack`, `AssertionsHold`, `IndicesAccounted`, `Distances`), `OperationsEnd` | 11 nodes |
| `Histogram` | Does one histogram predict the hits of LRU queues of every size? `HistogramIsLru` (with `TreesMatchMap`) | 3 keys, 2 classes (symmetric), 7 gets, the first 6 of them measured, any number of sets, capacities 1 and 2 |
| `Profiler` | Are exactly the gets of the window measured, is the curve the one the histograms say, does the consumer end? `WindowMeasured`, `LateRequests`, `CurveExact`, `ConsumerEnds`, `ProfilerTypeOK` | 2 workers, 2 keys, 2 classes (an item fills a slab, or half of one), 3 gets of which 2 reach the trees, queue of 1, slabs of 4 bytes, word 64 |
| `Items` | Are references counted, do table and queues agree, and do clients see a store of versions, whoever walks, evicts, crawls and updates at the same time? `RefsCounted`, `TableMatchesQueues`, `StoreIsVersioned` (refinement of `VersionedStore`) | 2 workers, 1 key, 3 chunks (all symmetric), the maintainer or the crawler, 2 tries of a walk, 2 of an allocation, queue limit 1, values 0, 1 and no number, 2 cas ids, 3 references |
| `Connections` | Is every socket driven by one thread until it is closed, does every connection wake, are replies in order, does every request get one, is nothing left behind? `DescriptorsAccounted`, `ConnsCounted`, `ItemsHeld`, `Wakeable`, `RepliesInOrder`, `RequestsAnswered` | 2 clients, 1 descriptor, 2 threads, all kinds of requests, 2 requests, one request per event, room for one reply, `maxconns_fast` on or off |
| `Binary` | Does a connection stay in step with its stream, answer each request in turn, run nothing without its login, give back every item, and end? `InStep`, `AnswersInTurn`, `AuthenticatedOnly`, `ItemHeld`, `RequestsAnswered` | any number of clients one after another on the descriptor, each with 2 requests out of 24: every command, quiet or not, with values of -1 to 3 pieces, six of them improper or refused for their lengths; a word of 6 pieces; with or without SASL; memory that may fail or not |

The key that requests name in `Growth` shares its bucket with another before the expansion
and not after it; half of the keys, which the rebalancer unlinks or copies, have the other
item lock, so that requests and unlinks run while the other half of the table moves. Six residents
put the table at its load limit: one insert starts the expansion. Two pauses let a
spurious wakeup or a second expansion find workers that have not left the first.

Eleven nodes are enough for every case of `DeleteFixUp` to come first, and after a climb
of one level too; a repair that is still below the top after two levels needs fifteen. In
`Histogram` three keys overflow both capacities, and seven gets let a key be
evicted, come back and change class inside the window. In `Profiler` a queue of one
makes the second worker wait with its request in hand, which is the longest a request
can be late, and a histogram has up to six buckets, which the walk gets through in up to
six cache sizes.

Three pages are the least with which a class can lose two pages and keep one, or a
class can lose its first page while another one is swept; two chunks per page are
the least with which a sweep meets a busy chunk after a cleared one and starts
again; two workers the least for one to hold a reference while the other blocks the
monitor lock. Two calls matter because the second one starts from the `mon_slabs`,
the limit and the locks the first one left.

In `Items`, three chunks are the least with which an append or an incr that cannot write in
place allocates while its old item and an upload are held, and the third is what another
worker's reply holds; two of them in a queue make it longer than its limit. Two workers
suffice for each lock to have a holder and one who wants it, beside the walker. One key
makes every command concern what the other works on; with one key the item lock of
"another key", under which a worker evicts while it holds its own, does not occur: there the
theorems of `Items` say what the run does not. In
`Connections` one descriptor is what makes the listener run out of them and a slot be used
again while its last `conn_close` is still under way by the other thread; with two requests
and one per event, a connection yields with a command in its buffer; with room for one
reply a second waits for its client.

In `Binary` two requests are what it takes for one to lie behind the other in the buffer or to be
cut off by it, and a value of two pieces to be cut itself, with a part to be read from the
buffer and one from the socket. A word of six makes a value of three negative as an `int`, and a body
of three that of an unknown command. What one client leaves in `sbytes` meets any two requests of the
next. A login, an exchange that ends it, and a command are three: this is
what the theorem on `AuthenticatedOnly` is for.

The other runs show where the code does not do what its assertions, comments or
documentation say. Each checks one property that TLC refutes:

| run | property | what happens |
|---|---|---|
| `WrongPage` | `SetSlabActiveAsserts` | The coldest page is an index into the *sorted* list and is removed from the *allocation-ordered* list; all three lists then drop that index. Unless `malloc` returned pages in address order, the wrong page goes and the sorted list describes a freed page. |
| `LostExpansion` | `NotInvokedWhileWaiting` | The maintenance thread clears `started_expanding` and then waits; workers set it under another lock. A signal in between is lost, the flag stays set and no later insert signals again: the table never grows any more. |

Other defects the models contain or were found beside them; the properties that hold carry
them as hypothesis or exception:

* `slabs_deallocate` unlocks only inside its loop (`slabs.c:1310`). If the limit is already
  met it returns holding `slabs_rebalance_lock`: later reassigns answer BUSY for good, and
  `pause_threads` blocks.
* `alloc_slabs << 20` wraps at 4096 slabs (`rd_trace.cc:623`), so a histogram longer than 4 GB
  of items is never exhausted and `compute_mrc` never ends. `ConsumerEnds` holds because the
  histograms of the run are short enough for the word: the wrap itself is out of the run's reach, and
  `HistogramsFit` (section 4) states when it does not happen. A class that is not
  finished drives the size up for all of them, so the products of a class that holds most of the slabs
  wrap long before its own histogram is that long.
* After an incr that replaces an item, `do_add_delta` gives the *old* item the new cas id
  (`memcached.c:3335`). A `gets` that found the old one and has not formatted its reply
  answers with old data and the new id, and a `cas` with that id then overwrites the
  increment, although protocol.txt:237 says that the id "uniquely identifies this specific
  item". The answers of `VersionedStore` therefore carry `ver`, not `cas`.
* `do_add_delta` answers NON_NUMERIC for a value of no bytes without giving back its reference
  (`memcached.c:3275`); for a text it does (`:3286`). `RefsCounted` allows items with `Empty` to count
  too many.
* A delete is `item_get` and then `item_unlink`, under the lock twice (`memcached.c:3387`): if
  an incr or append has replaced the item in between, DELETED is answered and the key is
  there. `VersionedStore` says so (`Remove`).
* An append that finds no memory answers NOT_STORED, as if the key were missing.
* A `noreply` upload that is refused goes on to the next command before `write_and_go` and
  `sbytes` are set (`memcached.c:3130`): its data block is taken for a command and answered
  with an error. `RepliesInOrder` allows for these errors and for no other.
* A `conn_close` between the failed `accept` and `allow_new_conns = false`
  (`memcached.c:3988`; `conn_lock` is taken after the `accept`, not around both) has its `true` overwritten: the listener sleeps until another
  connection closes, although a descriptor is free. No property claims that clients are
  accepted.
* `conn_new` or `cqi_new` failing closes a descriptor without `allow_new_conns = true`.
* Without memory for the item of an upload (`memcached.c:2057`, and `:2128` for append and
  prepend), `write_and_go` is set to `conn_swallow` under the comment "swallow the data line"
  (`memcached.c:2070`), but `out_of_memory` has not set `sbytes`: nothing is swallowed, and the
  value is parsed as a header. `InStep` is therefore stated with memory; without `~mayFail` TLC
  refutes it with one upload. On a descriptor whose last connection was closed while it swallowed, that
  much is swallowed instead (see below).
* When the read buffer cannot grow, ENOMEM is answered with the opaque of the request before
  (`memcached.c:3901`), which has had its answer. `AnswersInTurn` is therefore stated with memory.
* `conn_new` does not reset `sbytes` (`memcached.c:455`). A SASL mechanism with too long a name and no
  data is answered with EINVAL and goes on to `conn_swallow` without setting it (`:1703`): what an
  earlier connection on the descriptor was closed with is then taken from the next requests ("how
  many bytes to swallow", `memcached.h:468`), which get no answer. Without the last conjunct of `Proper`
  TLC refutes `InStep` and `RequestsAnswered` with such a pair of clients.
* A value behind a stat, touch or gat is taken for the next request (`memcached.c:1960`, `:1996`).
* An append, prepend or SASL exchange with a body shorter than its key has its key read all the
  same, out of what follows the body; the value then has a length below zero and the connection
  is closed (`memcached.c:4209`).
* Lengths become `int` (`memcached.c:2014`, `:1032`, `:2003`): a refused value, or the body of an unknown
  command, of 2^31 bytes or more is not swallowed.
* Listing the SASL mechanisms logs a client out (`memcached.c:1667`).
* protocol-binary.xml:383 wants the answer of a quiet get held back until a command that is
  not quiet; it is sent at once.
* `maxconns_fast` compares before `conn_new` counts (`memcached.c:4118`), so connections in
  the queues are not counted and the limit may be overrun.
* The limit of the HOT queue is overwritten by that of the WARM queue, a missing `break`
  (`items.c:815`): `Full` has one limit.
* Two `flush_all` undo each other: the later one may set `oldest_live` back, or into the
  future, and what the first had flushed is valid again (`memcached.c:3540`). `Age` is
  one-way, so this is not in the model.
* The code that would unlink an item fetched from the page being swept is commented out
  (`items.c:680`, although `slabs.c:798` relies on it): an item fetched again and again
  stops the sweep. `DeallocateCompletes` and `ReassignCompletes` hold once requests pause.
* `start_slab_monitor` leaves out the largest class (`slabs.c:1416`): a fetch of one of its
  items reads null pointers. `SegfaultOnlyInLargest` says that nothing else does.
* A worker executing `lru_crawler enable` or `disable` waits for a lock that `pause_threads`
  holds while it waits for the worker (`thread.c:166`): `CrawlerCommandStuck`, an
  exception of `PauseEnds`.
* `my_lower_bound` keeps the probed index in the range it searches on but shrinks the range
  as if it did not (`slabs.c:1389`): with three pages, all in the sorted list, it ends at the second for
  an item of the third, and the pointer assertion of `set_slab_active` (`:1486`) fails. `WrongPage` has two
  pages, where the search is right, so what it shows is the other defect alone.
* `slab_rebalance_start` asserts false where no pages are monitored (`slabs.c:599`: "ERROR should not be
  here"), and goes there for every `slabs reassign`, the command's (`memcached.c:3590`) and the maintainer's
  (`items.c:854`, `:913`), outside a deallocation: `memcached-debug` is killed by the first move.
  `memcached`, built without assertions, moves the first page of the class. TLC refutes `MoverNeverAborts`
  under the constants of `Reassign`; `RemovalsNeverAbort` proves it where pages are only removed.
* A limit below one page per class in use leaves `slabs_remove_pick_rand` nothing to draw
  from: `DivideByZero` is reachable, and `NoDivideByZero` states when it is not.
* With `WARMUP_LEN` 0 nothing is measured, and the curve is divided by zero
  (`WindowMeasured`). README.md:40 of the repository asks for
  `PROF_LEN >= WARMUP_LEN`; `rd_trace.cc:552` asserts that it is greater.

*Fairness.* Weak fairness of the rebalancer, the provisioner and of a worker inside
a request: threads that can run are scheduled, and an ended response drops its
reference. Strong fairness where a thread waits for a mutex: a lock that is
released again and again is obtained. Nothing is assumed of the arrival of
requests: `ItemGet`, `SlabsAllocLock` and `SlabsReassign` are not fair. The liveness
properties are conditional on requests pausing, because a sweep may be held up by
busy items for ever (`items.c:680`). `Reassign` switches the deadlock check off: a
failed `realloc` leaves `mon_slabs_lock` held (`slabs.c:573`), after which
everything may stop; `MonLockLeaked` names that state. `ReassignCompletes` says of what was asked for that it begins
(signal 2), is stuck there, or that an assertion killed the process; a request that is
refused otherwise would violate it. Of a move that has begun it says where its page ends up.

In `Assoc` the maintenance thread and a thread inside a call of `assoc.c` are weakly
fair. Strongly fair are `PauseLock` (mutexes that are released again and again),
`Register` (libevent serves every descriptor that is ready, so a worker comes to its
pipe between requests), `CrawlerCommandDone` and `BackgroundSleep` (a round of a
background thread ends; a rebalancer jammed by a popular item is not this model's
subject). `PauseEnds` names its two exceptions, which are deadlocks of the
code: `CrawlerCommandStuck` and `LeftBehind`, a worker that has not got past
`worker_hang_lock` when the next pause takes it again. For that reason, and because
the last pause is bounded by `MaxPauses`, the runs of `Assoc` switch the deadlock
check off.

In `Connections` the listener and every worker thread are weakly fair: a thread that has
something to do does it, and libevent calls every handler that is ready before it polls
again (`active`), so no connection is overtaken for ever. Of the clients it is only assumed
that they read what has arrived; they may stop sending, or leave, at any point. `RequestsAnswered`
is owed to requests sent in full on a connection that stays open. Clients connect once and
requests are bounded, so the run may stop: its deadlock check is off. `Items` states no
liveness: that a walk ends is a matter of its tries.

In `BinaryProtocol` the machine is weakly fair: in `Connections` every connection that can go on
does. Of the client nothing is assumed, but that it reads what it is sent or leaves. It may
stop sending; that another comes is not assumed either.

In `ReuseTree` the thread inside an operation runs on (weak fairness of `Continue`);
that another operation comes is not assumed. In `Profiler` only the consumer is fair:
workers may stop anywhere, with a request in hand too. `Histogram` and `Profiler` end with the
window, so their deadlock check is off.

## 4. Proofs

`SlabDealloc_proofs` proves, for all values of the constants under the assumptions
stated in `SlabDealloc`, that `IndInv` is inductive, and from it `TypeOK`,
`PagesOwnedOnce`, `MemoryAccounted`, `NoDanglingItem`, `MonitorConsistent`,
`SweptPageInPlace` and `PageClearAtFinish`.

Hypotheses. `OneMoverUser`: pages are either reassigned or deallocated, not both;
a `slabs reassign` accepted between `start_slab_monitor` and `slabs_deallocate` changes
`slabs` and not `mon_slabs` (`slabs.c:1086`), and `MonitorConsistent` is lost.
`MemoryAccounted` needs a `malloc` that does not fail: a refused page is counted in
`mem_malloced` (`slabs.c:479`).

The properties are not inductive on their own. `IndInv` adds

* `LocksHeld`: who is inside a section holds its lock. It makes the sections of
  workers, rebalancer and provisioner exclude each other.
* `SignalInStep`: the value of `slab_rebalance_signal` at each step of the rebalancer.
* `RequestSound`: what a pending request asks for. A removal names a monitored
  class and its provisioner is waiting, so monitoring cannot stop before the page is
  gone; a move implies that nobody deallocates, so nothing is monitored.
* `MonitoringInStep`: pages are monitored exactly between the two calls.
* `SweepProgress`: everything the sweep has passed is cleared unless it met busy
  chunks; the class keeps two pages while one is swept.
* `ClearedUnreferenced`: nobody refers to a cleared chunk. With `SweepProgress` it
  gives `PageClearAtFinish`, which gives `NoDanglingItem` when the page goes.
* `MemoryCounted`: the count exceeds the pages by at most the refused ones.

The proof has one lemma per action (`<Action>Inv`). What an action does to the page
lists is a lemma about sequences: a page appended, dropped or moved
leaves lists that own each page once and hold the expected set of pages.

`SlabHandshake_proofs` goes on from `IndInv`. `HandshakeInv` says that a thread is
registered with the condition variable only at its waiting step, that neither
sleeps when it is its turn (`NoLostWakeup`; both wait on the same variable, and a
signal meant for one may be consumed by the other), and that a removal stays
justified from request to end: the class keeps a spare page and the limit is
exceeded (`RemovalJustified`: nobody else shrinks memory or changes the limit while
the provisioner waits). With it, `NoOverShrink` and `LastPageKept` hold of every step.

The same module proves what may kill the process. `SegfaultOnlyInLargest` and
`NoDivideByZero` follow from `IndInv` and `CrashInv`: without `slabs reassign` only classes in
use ever have pages (`UsedClassesOnly`), a worker that looks a page up has an item of such a class
(`RefInStep`), and a provisioner that died had a limit too small for one page per class
(`DivisionExcused`). The first needs that `my_lower_bound` finds a page that is there.
`LowerBound` writes the search as a recursive function of the length of the interval, and
the lemma on it is proved by induction over that length: the schemes of the library take
an operator and cannot be used, so `Least` takes the least counterexample from the
well-foundedness of `<` on `Nat` instead. Hypotheses: `OneMoverUser`, and for `NoDivideByZero` that
no `malloc` fails. `RemovalsNeverAbort` is the other side of the assertion that `slabs reassign` meets (section 3): if nobody reassigns
pages, the rebalancer starts only for a provisioner that waits, with the class monitored
(`RequestSound`), and never meets the assertions of `slab_rebalance_start`.

`Profiler_proofs` proves `WindowMeasured` and `LateRequests` for any workers, queue bound
and lengths with `WARMUP_LEN < PROF_LEN`. Neither is inductive. `WindowInv` follows the
window: while the trace is on, `ltime` has not reached `prof_len`, the measure is on exactly
from `warmup_len` on, and `get_count` is the number of gets since. `LateInv` says that the
consumer leaves its loop only when the trace is off and the queue was empty, and that
whatever is queued after that was in the hands of a worker: with the trace off nobody
makes a new request, so queue and hands together only shrink.

The same module proves `HistogramIsLru` (of `LruCaches`, whose specification is named `SpecLru` so that
one module can speak of both), for any keys, finite set of classes, lengths and capacities. A sum over
a set is a fold, a recursive function on its subsets. That the function exists, and that the sum does not depend
on the order (`SumTake`), is proved of a smallest counterexample: `Least` and `Smallest` again
stand for the induction. `LruInv` says that a key is in the tree of its class, once, and in no
other (`Lists`), that the queue of capacity `n` is an end of the tree of at most `n` keys, and the last `n` (or all) of
them until some key has changed class (`Queues`), and that its hits are at most, and until then exactly,
the gets at a distance within `n` (`Hits`). So a key in the queue has a distance within `n`: a get that
adds to the hits adds to the other side too, and before any change of class to both or to neither.

`ProfilerTypeOK` is worth its proof for `misses`, which is unsigned: `CurveInv` says that it is
`get_count` less what the walk has passed, and `ProfileInv` that no more is in the histograms than was
measured. `CurveExact` needs that the walk has never passed what fits into the next cache size
(`GrowInv`): the capacity grows with the size, unless a product wraps. That none does is `NoWrap`, proved
from `HistogramsFit`, a hypothesis on the histograms and the counts of slabs alone, which do not change
during the walk. While a class is not finished, the size last tried has no room for its
histogram, so that size is below the one at which it has (`Edge`), and the next at most half as much again
(`SizeInv`). `HistogramsFit` asks that at those sizes nothing wraps; the instance of the run
satisfies it, and with 1 MB slabs the code does while no class is given 4096 slabs there. The hypotheses on constants are
that the classes are finitely many and that the first size is below the word (`CurveAssumption`).

`Items_proofs` proves `RefsCounted` and `TableMatchesQueues` for any finite number of workers and
keys, any chunks, settings and bounds; `ItemsAssumption` says further that the names of the
three kinds of threads differ and that `None` is none of the values it stands beside. `IInv`
consists of

* `WorkerOK`: a worker inside a command has the item lock of its key, the items it has are of
  that key, and what it has read of the table is still true; which references it has at which
  step (`ConnectionOK`).
* `WalkerOK`: `lru_pull_tail` is on an entry of the queue it has locked, or has an item in hand
  with its lock; a worker that pulls for an append or incr is never at an item of its own
  key. That is what `cur_hv` is passed for.
* `TableOK`: the table has an item under its key exactly if the item is linked.
* `Placed`: an item is in the queue its header names exactly if it is linked, but for two
  windows: unlinked and not yet out of the queue (`Between`), linked and on its way from
  one queue to another or back to the head (`Away`). Either belongs to a holder of the item's lock. What
  has been allocated and not linked (`Fresh`) is nobody else's.
* `Counted`: the reference count is at least the number of references, which are counted by
  the cardinalities of four sets of holders, and exceeds it only for an item that is no number.
  `CasOf` and `CrawlersOK`: cas ids given out, and crawlers in the queues where they run.

None of the parts is inductive alone: that a count is right when a chunk is freed needs that
nobody else can be at the item, which needs the locks; that a command finds its item in
the queue needs `Placed`, which needs the locks again. The argument is about threads, not about actions: whoever
takes a step changes items of one key, whose lock it has, or drops a reference it has. `Touched`
says what a step may do to an item: the count changes by what the thread's own hold on
it changes, the item is in its queue as the thread's new step asks for, and it is
freed if the count comes to 0. `StepInv` shows once that any step whose items are all `Touched` or `Untouched`
keeps `IInv`; `WorkerInv`, `WalkerInv` and `CrawlerInv` are its forms for the three
kinds of threads. Each action then has a lemma that it is such a step. Because the lock keeps all
other threads away from the key, that lemma speaks of one thread and one item or two.

`ItemsStore_proofs` proves `StoreIsVersioned`: every step of `Items` is a step of `VersionedStore` or
none. What is stored under a key is not what the table has. A worker that found an item under
the item lock goes on with it as the stored version, also while the table has it no more, between the
unlink and the link of `item_replace`, and also if it expires meanwhile (`StoredBy`). What a reply tells is read from the item until it has been sent (`Answer`). `SInv` says
what clients rely on, beside `IInv`: two items never have the same cas id, a linked item has the one it
was stored with (`VersionOK`), and where a worker is in its command it has what it is about to
answer (`ClientOK`: a cas that goes on to `Swap` compared the id of the item it holds, an incr had
a number, both and an append the id of it or none, and an append or an incr that allocated has the successor of the value still stored). The argument for a step has three parts:

* *Data.* Headers keep value, version and expiry, or become those of a free chunk (`Leaves`), or of
  one just allocated (`Carries`). So whatever a worker holds or the table shows is what it was.
* *Keys.* The step concerns one key at most. Under the others nothing changes (`KeySame`, also
  under the lock of the worker's own command while it evicts another key's item); under this one
  the thread has the lock or nobody has it, and the version stays or vanishes (`KeyOwn`).
* *Clients.* The step shows nothing but what vanishes, and at most the end of an answer
  (`QuietStep`); or a worker tells its client about what is stored (`TellStep`: found, missed, refused,
  removed); or it is one of the two that store a version, `do_item_link` and an incr in place
  (`WriteStep`). For the second, nobody else may refer to the item it writes: that is the count of 2 which
  the code asks for, which by `Counted` leaves room for no other holder (`OnlyHolder`).

Time is a step of its own: what expires vanishes, unless a worker inside a command has
found it before (`AgeStore`). For this proof `ItemsAssumption` also says that `None` is no version and no answer.

`Connections_proofs` proves `DescriptorsAccounted`, `ConnsCounted`, `ItemsHeld`, `Wakeable` and `RepliesInOrder` for any
clients, descriptors, threads, kinds of requests and bounds, from `ConnectionsAssumption` and
`NoneIsNoCall` (the absent value is no client, descriptor or number, and no call). `IInv` is
inductive. Beside types it says in `Accounting` what `DescriptorsAccounted` leaves out:
`Queues` (a socket waits at one place, and has no connection yet), `DriveCalls` (who drives a
connection is its thread, and is not to be called for it as well: otherwise it could be
called after the end), `CloseCalls` (one thread closes a descriptor, while it still belongs to
the client that is being closed, since `close` comes last), `Sockets` and `Events`.
`Holding` says where in the state machine a connection may hold items (`Consistent`): outside
those states a command would overwrite a reference. Each action of `drive_machine` is shown
to be a `Turn`, a step that makes a well-formed connection of its own connection and touches
nobody else's, and one lemma shows that a `Turn` keeps `IInv`. `Wakeable` needs `Awake`
besides: connections being driven never ask for no event, and the states that read ask for
the event that brings them input (`Resting`); each turn that ends a call leaves a connection
that `Waits`. `ConnsCounted` needs only `Counted`: the count is the number of live
connections and of threads inside `conn_close`, two finite sets whatever the number of
descriptors.

`RepliesInOrder` relates what a client has got to what it has sent, and needs all that lies
between them. `Stream` is what a connection has still to read: its buffer, the socket, what the client has
still to send of its request and the first piece of the one it would send next.
It is a `Chain`: each piece is the one that comes `After` the one before in the client's
requests. `Replies` is what the client has got, what its socket holds and the reply being
sent. `InTurn` says that for some number `n` of requests the replies are those to the first
`n` (`Answered`), and that the connection reads where request `n` ends (`Reading`): in
`nread` and `swallow` at the data of an upload, otherwise at the next command, or
at the data of a refused upload without reply, which will make one error `more`. The
connection's reading and writing moves pieces from one part of these sequences to
the next; only a command or the end of an upload goes on to the next `n`, which
`AnsweredNext` justifies once for all kinds. `Serving` states this of every socket that waits for
a connection or has one, but for two cases: a connection about to be closed, which says
nothing more, and a client that has left with a full socket, whose further replies are
`Lost`. `Peers` says that two descriptors never have the same client.

`Assoc_proofs` proves `TableSound` and the refinement `TableIsSet` for any workers, background
threads, keys, hash function, sizes of the table and number of item locks below that of the
buckets (`HashpowerAssumption`, the check of `memcached_thread_init`). `IInv` consists of
`Growing` (a bucket moves under its lock, and all have moved before the next expansion),
`Placed` (every key is in its bucket: in the old table those not moved yet, in the primary
table the others, in the bucket that is being moved one or the other), `Locking` (a lock is
held by the thread at work on a key of it, or by the maintenance thread for the bucket it
moves), `Calls` (what a thread found out stays true until it acts: a stale `saw` or
`expand_bucket` does no harm), `Pausing` and `Registering` (whose locks are taken, who has
still to register). The hinge is arithmetic: a key's lock is the lock of its bucket in
either table, `(h % 2^n) % 2^i = h % 2^i` for `i <= n` (`LockOfBucket`), so a bucket that moves
holds no key anybody works on. The provers know nothing of exponents;
`PowerOfSum` gets `2^(m + d) = 2^m * 2^d` by counting subsets. `Changes` says once what a bucket
given other keys does to the tables; `TableStep` maps every step to one of `ItemTable` or none.
`AllPausedAtExpand` follows from the count: as many have registered as there are workers, and
each had to leave its request to do so (`InvPauseDone`, `Alone`).

`BinaryProtocol_proofs` proves `TypeOK` and `ItemHeld` for any clients one after another, any requests, any number
of them, values of any length and failing memory, and `InStep` for proper clients if memory does
not fail. `IInv` says that every request ends where the next begins (`Stream`), that the
connection is at one of them and past its beginning (`Placed`), in which states an item may be
held (`Holds`), that what is being read was found to have the lengths the command checks
(`Serves`), and, with memory and a client that has been proper up to this request (`Trusted`), where the
connection is (`Located`): at each state what is still to be read or swallowed, with the value
yet to be asked for, makes up the rest of the request. `sbytes` is part of this only where it is
about to be swallowed: elsewhere it may have any value, an earlier client's too. Each command operator has a lemma
that its outcomes are `Balanced`: they keep this, and take a reference for every item the
connection comes to hold. The lemmas meet in `CompleteBalanced` and `DispatchBalanced`; one lemma
per action carries them to `IInv`.

The same module proves `AuthenticatedOnly` and `AnswersInTurn`, for any sequence of requests. The first
speaks of the answers the client was given, the code of a flag on the connection: `LInv`
relates the two. While the flag is set, the last exchange among the answers, the one being
sent counted, logged the client in; what is being read in `bin_reading_sasl_auth_data` is an
exchange; and an answer to none (a failure to read, out of memory) is no exchange. Every outcome
of a command is `Logged`: the flag is gained only by the answer that says so, and kept only
by one that is not of an exchange. It needs that exchanges have no quiet variant
(`RequestsAssumption`): a quiet one would log in without an answer.

`AnswersInTurn` needs memory that does not fail and a proper client, as the property says. `TInv` follows the request the
connection is at: requests end one after the other (`Increasing`), the answers so far are in
the order of the requests (`InOrder`), every earlier request has been answered or was quiet, and this one
will be if its state asks for it (`Attends`). A command that has memory is `Told`: it answers, reads on,
closes, or says nothing of a quiet request that came to what silence means (`Honest`).

Only model-checked:

* the liveness properties, out of the prover's reach;
* the properties of `ReuseTree`, whose rotations are proved about only with the shape of a
  whole tree, by induction over it.

## 5. Not modelled

* Freelists chunk by chunk, and the sizes of chunks (`slabs_init`), preallocation
  (`-L`), `stop_slab_maintenance_thread` (never called).
* The draw of `slabs_remove_pick_rand` is any useful class. In the code a draw of the
  pool is drawn again with a generator reseeded from the clock in whole seconds, so
  it spins, holding the lock, for up to a second.
* Of the items: `tail_repair_time`, the queue for items that never expire, the automove
  requests of the maintainer, the schedule of its crawls, `cachedump`.
* Of the protocols: the syntax of text commands, UDP, what the SASL library does with the
  exchanged data, the contents of statistics, settings commands, and in the text protocol
  failing `malloc` inside a reply.
* The estimator of the sketches (`hyperloglog.c`), the linear program (`LP.cc`), parsing and
  formatting: floating point and strings, sequential. The same goes for `cache.c`, `stats.c`,
  `hash.c`, `util.c`.
* Statistics, start-up (`main`), and the test program `testapp.c`.
* In the profiler: the linear program between curve and `slabs_deallocate`;
  `mrc_event_loop`, whose thread is never created (`rd_trace.cc:534`); the memory the queue
  takes, which grows without limit. A refused store is profiled all the same, and deletions
  and evictions never are: in the model sets and gets simply come.
* The central server of the dynamic experiment.
* `memcached-1.4.25-rd/` and `memcached-1.4.25-fp/` are near copies of `memcached-dyn/`
  without the elastic memory: their `assoc.c` and `thread.c` are the same files (but for a
  call of the trace), and `memcached.c` and `items.c` differ in fewer than twenty lines, so what is said of
  these holds there too; `mutilate-master/` and `lp-solve/` are other programs. They make
  up most of the repository, so the modules cover a small share of its lines, though
  the concurrent parts of the elastic server itself are there.

## 6. Plan

1. `Items` against the sweep of `SlabDealloc`, chunk by chunk.
2. The barrier of the central server.
3. Storage commands beside the profile: refused stores and deletions, and what they do
   to `HistogramIsLru`.
