---------------------------- MODULE SlabDealloc ----------------------------
(***************************************************************************)
(* Elastic memory of memcached-dyn, page by page: how slab classes obtain  *)
(* pages (slabs_alloc), how a page changes class (slabs_reassign), and how *)
(* the process gives pages back to the operating system while it serves    *)
(* requests (start_slab_monitor, slabs_deallocate, stop_slab_monitor).     *)
(*                                                                         *)
(* Threads: Workers serve requests; the rebalancer is slab_rebalance_thread*)
(* and moves or removes one page at a time; the provisioner is the thread  *)
(* that calls slabs_deallocate (rd-trace/rd_trace.cc); Pausers hold        *)
(* slabs_rebalance_lock from slabs_rebalancer_pause to ..._resume.         *)
(*                                                                         *)
(* Grain of atomicity.  mon_slabs_lock and slabs_rebalance_lock are        *)
(* variables naming their holder.  A section under slabs_lock blocks on    *)
(* nothing and is left before the thread blocks, so it is one action; the  *)
(* one place that drops slabs_lock half way (MOVE_FROM_LRU) is two.        *)
(*                                                                         *)
(* Abstractions.  Memory is counted in pages: with slab_reassign on, and   *)
(* the mover runs only then, every page has item_size_max bytes.  Pages    *)
(* come from malloc one by one (no -L).  A page has PerSlab chunks; which  *)
(* chunks are on a freelist is left open: an allocation finds the freelist *)
(* empty or not.  A HyperLogLog sketch is its estimate, a small number.    *)
(*                                                                         *)
(* memcached is built with NDEBUG, memcached-debug is not: an assertion    *)
(* that fails either has no effect or kills the process ("aborted").       *)
(***************************************************************************)
EXTENDS Integers, Sequences, FiniteSets, SequencesExt, LowerBound

CONSTANTS
  Workers,         \* threads that serve requests
  Pausers,         \* threads that call pause_threads
  ReassignEnabled, \* whether somebody issues slabs reassign (or automove is on)
  MayFailRealloc,  \* whether realloc in grow_slab_list may return NULL
  PowerLargest,    \* power_largest: class ids are 1..PowerLargest, 0 is the pool
  ItemClasses,     \* the classes the workload stores items in
  Pages,           \* page addresses malloc can return, in address order
  PerSlab,         \* chunks per page
  MemLimit,        \* initial mem_limit in pages; 0 means unlimited
  NewLimits,       \* limits the provisioner may ask for
  MaxFailedMallocs,\* bound: pages that malloc refuses
  MaxRounds,       \* bound: calls of slabs_deallocate
  MaxEstimate      \* bound: largest estimate of a sketch

ASSUME WorkersAssumption ==
  /\ {"none", "rebalancer", "provisioner"} \cap (Workers \cup Pausers) = {}
  /\ Workers \cap Pausers = {}
ASSUME ReassignAssumption == ReassignEnabled \in BOOLEAN /\ MayFailRealloc \in BOOLEAN
ASSUME ClassesAssumption  == PowerLargest \in Nat \ {0} /\ ItemClasses \subseteq 1..PowerLargest
ASSUME PagesAssumption    == Pages \subseteq Nat \ {0} /\ IsFiniteSet(Pages)
ASSUME PerSlabAssumption  == PerSlab \in Nat \ {0}
ASSUME LimitsAssumption   == MemLimit \in Nat /\ NewLimits \subseteq Nat
ASSUME BoundsAssumption   ==
  MaxFailedMallocs \in Nat /\ MaxRounds \in Nat /\ MaxEstimate \in Nat

VARIABLES
  slab_list,            \* slabclass[c].slab_list, its length is slabclass[c].slabs
  sorted_list, hlls,    \* slabclass[c].sorted_list and .hlls while monitoring
  mon_slabs,            \* slabclass[c].mon_slabs
  monitoring_slabs,     \* the flag of is_monitoring_slabs
  mem_limit, mem_malloced,
  mon_slabs_lock, slabs_rebalance_lock,  \* the holder, or "none"
  waiting,              \* threads blocked on slab_rebalance_cond
  slab_rebalance_signal,
  slab_rebal,
  cleared,              \* chunks of slab_rebal.slab_start marked SLABBED|FETCHED
  wpc, ref,             \* per worker: its step, the item it holds a reference on
  rpc, ppc,             \* steps of the rebalancer and of the provisioner
  rounds                \* calls of slabs_deallocate so far

classVars == <<slab_list, mem_malloced>>
monVars   == <<sorted_list, hlls, mon_slabs, monitoring_slabs>>
rebalVars == <<slab_rebalance_signal, slab_rebal, cleared>>
condVars  == <<slabs_rebalance_lock, waiting>>
provVars  == <<ppc, mem_limit, rounds>>
workVars  == <<wpc, ref>>
vars == <<classVars, monVars, rebalVars, condVars, provVars, workVars, mon_slabs_lock, rpc>>

-----------------------------------------------------------------------------
Pool       == 0               \* SLAB_GLOBAL_PAGE_POOL
Removal    == -1              \* d_clsid of a page that leaves the process
NoPage     == 0               \* NULL
Classes    == 0..PowerLargest
MonClasses == 0..(PowerLargest - 1)   \* the classes the monitoring loops visit
Chunks     == 0..(PerSlab - 1)

Items  == [cls : 1..PowerLargest, page : Pages, chunk : Chunks]
NoItem == [cls |-> 0, page |-> NoPage, chunk |-> 0]

PagesOf(c) == {slab_list[c][i] : i \in DOMAIN slab_list[c]}
Malloced   == UNION {PagesOf(c) : c \in Classes}

\* malloc keeps a header between two pages, so no page ends where another starts.
AddressOf(page)   == page * (PerSlab + 1)
AddressOfItem(it) == AddressOf(it.page) + it.chunk
AddressesOf(list) == [i \in DOMAIN list |-> AddressOf(list[i])]

IsReferenced(page, k) == \E w \in Workers : ref[w].page = page /\ ref[w].chunk = k
IsCleared(page, k)    == page = slab_rebal.slab_start /\ k \in cleared

NoRebal == [s_clsid |-> 0, d_clsid |-> 0, slab_start |-> NoPage, slab_index |-> 1,
            slab_pos |-> 0, busy_items |-> 0, done |-> FALSE]

Init ==
  /\ slab_list = [c \in Classes |-> <<>>]
  /\ sorted_list = [c \in Classes |-> <<>>]
  /\ hlls = [c \in Classes |-> <<>>]
  /\ mon_slabs = [c \in Classes |-> 0]
  /\ monitoring_slabs = FALSE
  /\ mem_limit = MemLimit
  /\ mem_malloced = 0
  /\ mon_slabs_lock = "none"
  /\ slabs_rebalance_lock = "none"
  /\ waiting = {}
  /\ slab_rebalance_signal = 0
  /\ slab_rebal = NoRebal
  /\ cleared = {}
  /\ wpc = [w \in Workers |-> "idle"]
  /\ ref = [w \in Workers |-> NoItem]
  /\ rpc = "boot"
  /\ ppc = "idle"
  /\ rounds = 0

-----------------------------------------------------------------------------
(* The condition variable slab_rebalance_cond. *)

\* Mutant: the signal is forgotten.
CondSignalForgotten == UNCHANGED waiting

\* pthread_cond_signal wakes one of the blocked threads, if there is one.
CondSignal ==
  \/ waiting = {} /\ waiting' = {}
  \/ \E t \in waiting : waiting' = waiting \ {t}

\* POSIX lets pthread_cond_wait return without a signal.
SpuriousWakeup(t) ==
  /\ t \in waiting
  /\ waiting' = waiting \ {t}
  /\ UNCHANGED <<classVars, monVars, rebalVars, slabs_rebalance_lock, provVars, workVars,
                 mon_slabs_lock, rpc>>

-----------------------------------------------------------------------------
(* Worker threads: slabs_alloc, the fetch of an item, its release. *)

\* A page can be taken from a class that keeps one; slabs_deallocate looks at no other.
HasAnyPage(c)   == Len(slab_list[c]) >= 1   \* mutant: off by one
HasSparePage(c) == Len(slab_list[c]) >= 2

LimitReached(id) ==
  /\ mem_limit # 0
  /\ mem_malloced + 1 > mem_limit
  /\ slab_list[id] # <<>>
  /\ slab_list[Pool] = <<>>

PageFromPool(id) ==
  /\ slab_list[Pool] # <<>>
  /\ slab_list' = [slab_list EXCEPT
                     ![Pool] = Front(@),
                     ![id]   = Append(@, Last(slab_list[Pool]))]
  /\ UNCHANGED mem_malloced

PageFromMalloc(id, page) ==
  /\ slab_list[Pool] = <<>>
  /\ page \in Pages \ Malloced
  /\ slab_list' = [slab_list EXCEPT ![id] = Append(@, page)]
  /\ mem_malloced' = mem_malloced + 1

\* Mutant: pages are also allocated while pages are monitored.
newslab_while_monitoring(id) ==
  /\ ~LimitReached(id)
  /\ PageFromPool(id) \/ \E page \in Pages : PageFromMalloc(id, page)

do_slabs_newslab(id) ==
  /\ ~monitoring_slabs
  /\ ~LimitReached(id)
  /\ \/ PageFromPool(id)
     \/ \E page \in Pages : PageFromMalloc(id, page)

\* A chunk of the freelist of class id: nobody uses it, the mover has not cleared it.
FreeChunk(id, it) ==
  /\ it.cls = id
  /\ it.page \in PagesOf(id)
  /\ ~IsReferenced(it.page, it.chunk)
  /\ ~IsCleared(it.page, it.chunk)

SlabsAllocLock(w) ==
  /\ wpc[w] = "idle" /\ ref[w] = NoItem
  /\ mon_slabs_lock = "none"
  /\ mon_slabs_lock' = w
  /\ wpc' = [wpc EXCEPT ![w] = "alloc"]
  /\ UNCHANGED <<classVars, monVars, rebalVars, condVars, provVars, ref, rpc>>

SlabsAllocEnd(w) ==
  /\ mon_slabs_lock' = "none"
  /\ wpc' = [wpc EXCEPT ![w] = "idle"]
  /\ UNCHANGED <<monVars, rebalVars, condVars, provVars, rpc>>

\* The freelist has a chunk: refcount 1, and not linked yet.
SlabsAllocFree(w) ==
  /\ wpc[w] = "alloc"
  /\ \E id \in ItemClasses, it \in Items :
        /\ FreeChunk(id, it)
        /\ ref' = [ref EXCEPT ![w] = it]
  /\ UNCHANGED classVars
  /\ SlabsAllocEnd(w)

\* The freelist is empty: the head of a fresh page's freelist is its last chunk.
SlabsAllocNewSlab(w) ==
  /\ wpc[w] = "alloc"
  /\ \E id \in ItemClasses :
        /\ do_slabs_newslab(id)
        /\ ref' = [ref EXCEPT ![w] = [cls |-> id, page |-> Last(slab_list'[id]),
                                      chunk |-> PerSlab - 1]]
  /\ SlabsAllocEnd(w)

\* malloc returns NULL: memory_allocate has counted the page all the same.
SlabsAllocNoMemory(w) ==
  /\ wpc[w] = "alloc"
  /\ ~monitoring_slabs /\ \E id \in ItemClasses : ~LimitReached(id)
  /\ slab_list[Pool] = <<>>
  /\ mem_malloced - Cardinality(Malloced) < MaxFailedMallocs
  /\ mem_malloced' = mem_malloced + 1
  /\ UNCHANGED <<slab_list, ref>>
  /\ SlabsAllocEnd(w)

\* No chunk and no page: slabs_alloc returns NULL.
SlabsAllocFail(w) ==
  /\ wpc[w] = "alloc"
  /\ UNCHANGED <<classVars, ref>>
  /\ SlabsAllocEnd(w)

\* do_item_get: the item is in the hash table, so its chunk is not cleared.
ItemGet(w) ==
  /\ wpc[w] = "idle" /\ ref[w] = NoItem
  /\ \E it \in Items :
        /\ it.cls \in ItemClasses
        /\ it.page \in PagesOf(it.cls)
        /\ ~IsCleared(it.page, it.chunk)
        /\ ref' = [ref EXCEPT ![w] = it]
  /\ wpc' = [wpc EXCEPT ![w] = "get"]
  /\ UNCHANGED <<classVars, monVars, rebalVars, condVars, provVars, mon_slabs_lock, rpc>>

SetSlabActiveLock(w) ==
  /\ wpc[w] = "get"
  /\ mon_slabs_lock = "none"
  /\ mon_slabs_lock' = w
  /\ wpc' = [wpc EXCEPT ![w] = "active"]
  /\ UNCHANGED <<classVars, monVars, rebalVars, condVars, provVars, ref, rpc>>

\* Mutant: the first page at or after the item, as std::lower_bound would find it.
ActiveIndexAfter(it) ==
  1 + Cardinality({i \in DOMAIN sorted_list[it.cls] :
                     AddressOf(sorted_list[it.cls][i]) < AddressOfItem(it)})

\* Position in sorted_list and hlls that set_slab_active finds for an item.
ActiveIndex(it) == MyLowerBound(AddressOfItem(it), AddressesOf(sorted_list[it.cls])) + 1

HasSketch(it)   == ActiveIndex(it) \in DOMAIN hlls[it.cls]

\* The assertions of set_slab_active: the page found for an item is the one it lies in.
AssertionsHold(it) ==
  LET list == sorted_list[it.cls]
      i    == ActiveIndex(it)
  IN  /\ mon_slabs[it.cls] = Len(slab_list[it.cls])
      /\ i \in DOMAIN list
      /\ AddressOfItem(it) >= AddressOf(list[i])
      /\ AddressOfItem(it) <= AddressOf(list[i]) + PerSlab

\* addHyperLogLog: the estimate grows unless the sketch has seen the hash.
SetSlabActive(w) ==
  /\ wpc[w] = "active"
  /\ monitoring_slabs => HasSketch(ref[w])
  /\ \/ UNCHANGED hlls
     \/ /\ monitoring_slabs
        /\ LET c == ref[w].cls
               i == ActiveIndex(ref[w])
           IN  /\ hlls[c][i] < MaxEstimate
               /\ hlls' = [hlls EXCEPT ![c][i] = @ + 1]
  /\ mon_slabs_lock' = "none"
  /\ wpc' = [wpc EXCEPT ![w] = "idle"]
  /\ UNCHANGED <<classVars, sorted_list, mon_slabs, monitoring_slabs, rebalVars, condVars,
                 provVars, ref, rpc>>

\* The class has no sketches: the arrays are null pointers, the process is killed.
SetSlabActiveSegfault(w) ==
  /\ wpc[w] = "active"
  /\ monitoring_slabs /\ ~HasSketch(ref[w])
  /\ wpc' = [wpc EXCEPT ![w] = "crashed"]
  /\ UNCHANGED <<classVars, monVars, rebalVars, condVars, provVars, ref, mon_slabs_lock, rpc>>

SetSlabActiveAborts(w) ==
  /\ wpc[w] = "active"
  /\ monitoring_slabs /\ ~AssertionsHold(ref[w])
  /\ wpc' = [wpc EXCEPT ![w] = "aborted"]
  /\ UNCHANGED <<classVars, monVars, rebalVars, condVars, provVars, ref, mon_slabs_lock, rpc>>

\* The response is sent, or the upload is done: the worker drops its reference.
ItemRemove(w) ==
  /\ wpc[w] = "idle" /\ ref[w] # NoItem
  /\ ref' = [ref EXCEPT ![w] = NoItem]
  /\ UNCHANGED <<classVars, monVars, rebalVars, condVars, provVars, wpc, mon_slabs_lock, rpc>>

-----------------------------------------------------------------------------
(* slabs_reassign and the pause of the rebalancer. *)

\* With src = -1 the caller accepts any class with a spare page, so this covers
\* slabs_reassign_pick_any.  Requests refused for a bad class change nothing.
SlabsReassign(src, dst) ==
  /\ ReassignEnabled
  /\ slabs_rebalance_lock = "none"        \* the trylock succeeds
  /\ slab_rebalance_signal = 0
  /\ src # dst
  /\ HasSparePage(src)
  /\ slab_rebal' = [slab_rebal EXCEPT !.s_clsid = src, !.d_clsid = dst]
  /\ slab_rebalance_signal' = 1
  /\ CondSignal
  /\ UNCHANGED <<classVars, monVars, cleared, slabs_rebalance_lock, provVars, workVars,
                 mon_slabs_lock, rpc>>

RebalancerPause(t) ==
  /\ slabs_rebalance_lock = "none"
  /\ slabs_rebalance_lock' = t
  /\ UNCHANGED <<classVars, monVars, rebalVars, waiting, provVars, workVars, mon_slabs_lock, rpc>>

RebalancerResume(t) ==
  /\ slabs_rebalance_lock = t
  /\ slabs_rebalance_lock' = "none"
  /\ UNCHANGED <<classVars, monVars, rebalVars, waiting, provVars, workVars, mon_slabs_lock, rpc>>

-----------------------------------------------------------------------------
(* The rebalancer: slab_rebalance_thread and what it calls. *)

HoldsRebalanceLock == slabs_rebalance_lock = "rebalancer"

RebalancerBoot ==
  /\ rpc = "boot"
  /\ slabs_rebalance_lock = "none"
  /\ slabs_rebalance_lock' = "rebalancer"
  /\ rpc' = "loop"
  /\ UNCHANGED <<classVars, monVars, rebalVars, waiting, provVars, workVars, mon_slabs_lock>>

\* Nothing to do: wait on the condition variable, which releases the lock.
RebalancerWait ==
  /\ rpc = "loop" /\ slab_rebalance_signal = 0
  /\ slabs_rebalance_lock' = "none"
  /\ waiting' = waiting \cup {"rebalancer"}
  /\ rpc' = "waiting"
  /\ UNCHANGED <<classVars, monVars, rebalVars, provVars, workVars, mon_slabs_lock>>

\* A woken rebalancer takes the lock back and looks at the signal again.
RebalancerWake ==
  /\ rpc = "waiting" /\ "rebalancer" \notin waiting
  /\ slabs_rebalance_lock = "none"
  /\ slabs_rebalance_lock' = "rebalancer"
  /\ rpc' = "loop"
  /\ UNCHANGED <<classVars, monVars, rebalVars, waiting, provVars, workVars, mon_slabs_lock>>

RebalanceStartLock ==
  /\ rpc = "loop" /\ slab_rebalance_signal = 1
  /\ mon_slabs_lock = "none"
  /\ mon_slabs_lock' = "rebalancer"
  /\ rpc' = "starting"
  /\ UNCHANGED <<classVars, monVars, rebalVars, condVars, provVars, workVars>>

\* The first of the smallest estimates; the result indexes hlls[c].
ColdestIndices(c) ==
  {i \in 1..mon_slabs[c] :
     \A j \in 1..mon_slabs[c] : \/ hlls[c][i] < hlls[c][j]
                                \/ hlls[c][i] = hlls[c][j] /\ i <= j}

VictimIndicesLast(c) ==   \* mutant: the move starts with the newest page
  IF monitoring_slabs THEN ColdestIndices(c) ELSE {Len(slab_list[c])}

VictimIndices(c) == IF monitoring_slabs THEN ColdestIndices(c) ELSE {1}

\* Both locks are held; only slabs_lock is released on this path.
RebalanceStartNoGo ==
  /\ rpc = "starting"
  /\ \/ ~HasSparePage(slab_rebal.s_clsid)
     \/ MayFailRealloc /\ slab_rebal.d_clsid # Removal
  /\ slab_rebalance_signal' = 0
  /\ rpc' = "loop"
  /\ UNCHANGED <<classVars, monVars, slab_rebal, cleared, condVars, provVars, workVars,
                 mon_slabs_lock>>

\* "ERROR should not be here": with assertions a page that is not monitored is not moved, nor
\* is one of the largest class, which has no sketches ("ERROR few slabs"; without assertions its
\* null pointer kills the process).
RebalanceStartAborts ==
  /\ rpc = "starting"
  /\ HasSparePage(slab_rebal.s_clsid)
  /\ monitoring_slabs => mon_slabs[slab_rebal.s_clsid] = 0
  /\ rpc' = "aborted"
  /\ UNCHANGED <<classVars, monVars, rebalVars, condVars, provVars, workVars, mon_slabs_lock>>

\* Mutant: the first page is swept whatever the index.
RebalanceStartFirst ==
  /\ rpc = "starting"
  /\ HasSparePage(slab_rebal.s_clsid)
  /\ \E i \in VictimIndices(slab_rebal.s_clsid) :
        slab_rebal' = [slab_rebal EXCEPT
                         !.slab_start = Head(slab_list[slab_rebal.s_clsid]),
                         !.slab_index = i, !.slab_pos = 0, !.done = FALSE]
  /\ slab_rebalance_signal' = 2
  /\ mon_slabs_lock' = "none"
  /\ rpc' = "loop"
  /\ UNCHANGED <<classVars, monVars, cleared, condVars, provVars, workVars>>

\* The victim's index comes from hlls, its page from slab_list.  Where no page is monitored the
\* first is taken, in spite of the assertion.
RebalanceStart ==
  /\ rpc = "starting"
  /\ HasSparePage(slab_rebal.s_clsid)
  /\ \E i \in VictimIndices(slab_rebal.s_clsid) :
        /\ i \in DOMAIN slab_list[slab_rebal.s_clsid]
        /\ slab_rebal' = [slab_rebal EXCEPT
                            !.slab_start = slab_list[slab_rebal.s_clsid][i],
                            !.slab_index = i, !.slab_pos = 0, !.done = FALSE]
  /\ slab_rebalance_signal' = 2
  /\ mon_slabs_lock' = "none"
  /\ rpc' = "loop"
  /\ UNCHANGED <<classVars, monVars, cleared, condVars, provVars, workVars>>

\* Mutant: busy chunks do not hold up the end of the sweep.
AdvanceIgnoringBusy(busy) ==
  LET last == slab_rebal.slab_pos + 1 = PerSlab
  IN  /\ slab_rebal' = [slab_rebal EXCEPT !.slab_pos = @ + 1, !.done = last]
      /\ rpc' = IF last THEN "finish" ELSE "loop"

\* Mutant: a sweep with busy chunks does not go back to the top of the page.
AdvanceNoRestart(busy) ==
  LET n    == slab_rebal.busy_items + busy
      done == slab_rebal.slab_pos + 1 = PerSlab /\ n = 0
  IN  /\ slab_rebal' = [slab_rebal EXCEPT !.slab_pos = @ + 1, !.busy_items = n, !.done = done]
      /\ rpc' = IF done THEN "finish" ELSE "loop"

\* Next chunk; at the end of the page, again from the top if some were busy.
Advance(busy) ==
  LET n    == slab_rebal.busy_items + busy
      last == slab_rebal.slab_pos + 1 = PerSlab
      done == last /\ n = 0
  IN  /\ slab_rebal' = [slab_rebal EXCEPT
                          !.slab_pos   = IF last /\ n > 0 THEN 0 ELSE @ + 1,
                          !.busy_items = IF last THEN 0 ELSE n,
                          !.done       = done]
      /\ rpc' = IF done THEN "finish" ELSE "loop"

Sweeping == rpc = "loop" /\ slab_rebalance_signal = 2

ReferencedNever(k) == FALSE   \* mutant: the reference count is not looked at
Referenced(k)      == IsReferenced(slab_rebal.slab_start, k)

\* Some item lock is held, and the visited item may hash to the same lock.
SomeItemLocked == \E w \in Workers : wpc[w] \in {"get", "active"}

\* MOVE_PASS: the chunk was cleared on an earlier round.
SweepPass ==
  /\ Sweeping
  /\ slab_rebal.slab_pos \in cleared
  /\ Advance(0)
  /\ UNCHANGED <<classVars, monVars, slab_rebalance_signal, cleared, condVars, provVars,
                 workVars, mon_slabs_lock>>

\* MOVE_FROM_SLAB: the chunk was on the freelist.
SweepFromSlab ==
  /\ Sweeping
  /\ slab_rebal.slab_pos \notin cleared
  /\ ~Referenced(slab_rebal.slab_pos)
  /\ cleared' = cleared \cup {slab_rebal.slab_pos}
  /\ Advance(0)
  /\ UNCHANGED <<classVars, monVars, slab_rebalance_signal, condVars, provVars, workVars,
                 mon_slabs_lock>>

\* MOVE_BUSY and MOVE_LOCKED.
SweepBusy ==
  /\ Sweeping
  /\ slab_rebal.slab_pos \notin cleared
  /\ Referenced(slab_rebal.slab_pos) \/ SomeItemLocked
  /\ Advance(1)
  /\ UNCHANGED <<classVars, monVars, slab_rebalance_signal, cleared, condVars, provVars,
                 workVars, mon_slabs_lock>>

\* Free chunks of the page that slab_rebalance_alloc pulls while it looks for a
\* place to rescue an item to (a removal rescues nothing).
InlineReclaims ==
  IF slab_rebal.d_clsid = Removal THEN {{}}
  ELSE SUBSET {k \in Chunks \ cleared : ~Referenced(k)}

\* MOVE_FROM_LRU: the mover holds the item lock and the only reference; nobody
\* can fetch the item from here on, while slabs_lock is dropped for the unlink.
SweepFromLRU ==
  /\ Sweeping
  /\ slab_rebal.slab_pos \notin cleared
  /\ ~Referenced(slab_rebal.slab_pos)
  /\ \E more \in InlineReclaims : cleared' = cleared \cup {slab_rebal.slab_pos} \cup more
  /\ rpc' = "unlinking"
  /\ UNCHANGED <<classVars, monVars, slab_rebalance_signal, slab_rebal, condVars, provVars,
                 workVars, mon_slabs_lock>>

SweepUnlinked ==
  /\ rpc = "unlinking"
  /\ Advance(0)
  /\ UNCHANGED <<classVars, monVars, slab_rebalance_signal, cleared, condVars, provVars,
                 workVars, mon_slabs_lock>>

FinishLock ==
  /\ rpc = "finish" /\ slab_rebal.d_clsid = Removal
  /\ mon_slabs_lock = "none"
  /\ mon_slabs_lock' = "rebalancer"
  /\ rpc' = "finishing"
  /\ UNCHANGED <<classVars, monVars, rebalVars, condVars, provVars, workVars>>

\* slab_index keeps its value.
RebalDone == [NoRebal EXCEPT !.slab_index = slab_rebal.slab_index]

\* The lists are shifted down over index i.
DropPageNoDecrement(list, i) ==   \* mutant: the count of pages is not decremented
  [j \in DOMAIN list |-> IF j < i \/ j = Len(list) THEN list[j] ELSE list[j + 1]]
DropPage(list, i) == RemoveAt(list, i)

FreePageUncounted == UNCHANGED mem_malloced   \* mutant
FreePage          == mem_malloced' = mem_malloced - 1

\* slab_remove_finish: drop the page at slab_index from the lists, free it.
slab_remove_finish ==
  /\ rpc = "finishing"
  /\ LET s == slab_rebal.s_clsid
         i == slab_rebal.slab_index
     IN  /\ slab_list' = [slab_list EXCEPT ![s] = DropPage(@, i)]
         /\ IF monitoring_slabs
            THEN /\ mon_slabs' = [mon_slabs EXCEPT ![s] = @ - 1]
                 /\ hlls' = [hlls EXCEPT ![s] = RemoveAt(@, i)]
                 /\ sorted_list' = [sorted_list EXCEPT ![s] = RemoveAt(@, i)]
            ELSE UNCHANGED <<mon_slabs, hlls, sorted_list>>
  /\ FreePage
  /\ slab_rebal' = RebalDone
  /\ cleared' = {}
  /\ slab_rebalance_signal' = 0
  /\ CondSignal
  /\ mon_slabs_lock' = "none"
  /\ rpc' = "loop"
  /\ UNCHANGED <<monitoring_slabs, slabs_rebalance_lock, provVars, workVars>>

\* slab_rebalance_finish: always drops the first page of the list, and signals nobody.
slab_rebalance_finish ==
  /\ rpc = "finish" /\ slab_rebal.d_clsid # Removal
  /\ slab_list' = [slab_list EXCEPT
                     ![slab_rebal.s_clsid] = DropPage(@, 1),
                     ![slab_rebal.d_clsid] = Append(@, slab_rebal.slab_start)]
  /\ slab_rebal' = RebalDone
  /\ cleared' = {}
  /\ slab_rebalance_signal' = 0
  /\ rpc' = "loop"
  /\ UNCHANGED <<mem_malloced, monVars, condVars, provVars, workVars, mon_slabs_lock>>

-----------------------------------------------------------------------------
(* The provisioner: start_slab_monitor, slabs_deallocate, stop_slab_monitor. *)

StartSlabMonitorLock ==
  /\ ppc = "idle" /\ rounds < MaxRounds
  /\ mon_slabs_lock = "none"
  /\ mon_slabs_lock' = "provisioner"
  /\ ppc' = "start"
  /\ rounds' = rounds + 1
  /\ UNCHANGED <<classVars, monVars, rebalVars, condVars, mem_limit, workVars, rpc>>

\* qsort: the pages of a class in address order.
IsSorting(list, c) ==
  /\ DOMAIN list = DOMAIN slab_list[c]
  /\ {list[i] : i \in DOMAIN list} = PagesOf(c)
  /\ \A i, j \in DOMAIN list : i < j => list[i] < list[j]

Sortings(c) == {list \in [DOMAIN slab_list[c] -> PagesOf(c)] : IsSorting(list, c)}

start_slab_monitor ==
  /\ ppc = "start"
  /\ \E sorted \in [MonClasses -> UNION {Sortings(c) : c \in MonClasses}] :
        /\ \A c \in MonClasses : IsSorting(sorted[c], c)
        /\ sorted_list' = [c \in Classes |->
                             IF c \in MonClasses THEN sorted[c] ELSE sorted_list[c]]
  /\ mon_slabs' = [c \in Classes |->
                     IF c \in MonClasses THEN Len(slab_list[c]) ELSE mon_slabs[c]]
  /\ hlls' = [c \in Classes |->
                IF c \in MonClasses THEN [i \in DOMAIN slab_list[c] |-> 0] ELSE hlls[c]]
  /\ monitoring_slabs' = TRUE
  /\ mon_slabs_lock' = "none"
  /\ ppc' = "limit"
  /\ UNCHANGED <<classVars, rebalVars, condVars, mem_limit, rounds, workVars, rpc>>

\* slabs_deallocate sets the limit and goes on only if that lowers it.
SetMemLimit ==
  /\ ppc = "limit"
  /\ \E limit \in NewLimits :
        /\ mem_limit' = limit
        /\ ppc' = IF limit >= mem_limit THEN "stop" ELSE "lock"
  /\ UNCHANGED <<classVars, monVars, rebalVars, condVars, rounds, workVars, mon_slabs_lock, rpc>>

DeallocateLock ==
  /\ ppc = "lock"
  /\ slabs_rebalance_lock = "none"
  /\ slabs_rebalance_lock' = "provisioner"
  /\ ppc' = "loop"
  /\ UNCHANGED <<classVars, monVars, rebalVars, waiting, mem_limit, rounds, workVars,
                 mon_slabs_lock, rpc>>

OverLimitOrEqual == mem_malloced >= mem_limit   \* mutant
OverLimit        == mem_malloced > mem_limit

\* The while condition is false on entry: the lock is not released.
DeallocateNothing ==
  /\ ppc = "loop" /\ ~OverLimit
  /\ ppc' = "stop"
  /\ UNCHANGED <<classVars, monVars, rebalVars, condVars, mem_limit, rounds, workVars,
                 mon_slabs_lock, rpc>>

\* The classes slabs_remove_pick_rand draws from; it never looks at the largest.
RemoveSourcesTooFew == {c \in MonClasses : Len(slab_list[c]) > 2}   \* mutant: off by one
RemoveSources       == {c \in MonClasses : HasSparePage(c)}

\* rand() % total_slabs with no class to draw from: the process is killed.
DivideByZero ==
  /\ ppc = "loop" /\ OverLimit
  /\ RemoveSources = {}
  /\ ppc' = "crashed"
  /\ UNCHANGED <<classVars, monVars, rebalVars, condVars, mem_limit, rounds, workVars,
                 mon_slabs_lock, rpc>>

\* Ask for the removal of a page and wait.  A draw of the pool is drawn again.
RequestRemoval ==
  /\ ppc = "loop" /\ OverLimit
  /\ \E src \in RemoveSources \ {Pool} :
        slab_rebal' = [slab_rebal EXCEPT !.s_clsid = src, !.d_clsid = Removal]
  /\ slab_rebalance_signal' = 1
  /\ \E woken \in SUBSET waiting :      \* pthread_cond_signal, then the wait
        /\ Cardinality(woken) = (IF waiting = {} THEN 0 ELSE 1)
        /\ waiting' = (waiting \ woken) \cup {"provisioner"}
  /\ slabs_rebalance_lock' = "none"
  /\ ppc' = "waiting"
  /\ UNCHANGED <<classVars, monVars, cleared, mem_limit, rounds, workVars, mon_slabs_lock, rpc>>

ProvisionerWake ==
  /\ ppc = "waiting" /\ "provisioner" \notin waiting
  /\ slabs_rebalance_lock = "none"
  /\ UNCHANGED <<classVars, monVars, rebalVars, mem_limit, rounds, workVars, mon_slabs_lock, rpc>>
  /\ \/ /\ slab_rebalance_signal # 0            \* still running: wait again
        /\ waiting' = waiting \cup {"provisioner"}
        /\ UNCHANGED <<slabs_rebalance_lock, ppc>>
     \/ /\ slab_rebalance_signal = 0 /\ ~OverLimit
        /\ ppc' = "stop"                        \* takes the lock and releases it
        /\ UNCHANGED condVars
     \/ /\ slab_rebalance_signal = 0 /\ OverLimit
        /\ slabs_rebalance_lock' = "provisioner"
        /\ ppc' = "loop"
        /\ UNCHANGED waiting

StopSlabMonitorLock ==
  /\ ppc = "stop"
  /\ mon_slabs_lock = "none"
  /\ mon_slabs_lock' = "provisioner"
  /\ ppc' = "stopping"
  /\ UNCHANGED <<classVars, monVars, rebalVars, condVars, mem_limit, rounds, workVars, rpc>>

\* mon_slabs keeps its value; the freed arrays are empty here.
stop_slab_monitor ==
  /\ ppc = "stopping"
  /\ monitoring_slabs' = FALSE
  /\ hlls' = [c \in Classes |-> <<>>]
  /\ sorted_list' = [c \in Classes |-> <<>>]
  /\ mon_slabs_lock' = "none"
  /\ ppc' = "idle"
  /\ UNCHANGED <<classVars, mon_slabs, rebalVars, condVars, mem_limit, rounds, workVars, rpc>>

-----------------------------------------------------------------------------
Worker(w) ==
  \/ SlabsAllocLock(w) \/ SlabsAllocFree(w) \/ SlabsAllocNewSlab(w)
  \/ SlabsAllocNoMemory(w) \/ SlabsAllocFail(w)
  \/ ItemGet(w) \/ SetSlabActiveLock(w) \/ SetSlabActive(w)
  \/ SetSlabActiveSegfault(w) \/ SetSlabActiveAborts(w) \/ ItemRemove(w)

Rebalancer ==
  \/ RebalancerBoot \/ RebalancerWait \/ RebalancerWake
  \/ RebalanceStartLock \/ RebalanceStartNoGo \/ RebalanceStartAborts \/ RebalanceStart
  \/ SweepPass \/ SweepFromSlab \/ SweepBusy \/ SweepFromLRU \/ SweepUnlinked
  \/ FinishLock \/ slab_remove_finish \/ slab_rebalance_finish

Provisioner ==
  \/ StartSlabMonitorLock \/ start_slab_monitor
  \/ SetMemLimit \/ DeallocateLock \/ DeallocateNothing
  \/ DivideByZero \/ RequestRemoval \/ ProvisionerWake
  \/ StopSlabMonitorLock \/ stop_slab_monitor

Running ==
  ppc # "crashed" /\ rpc # "aborted" /\ \A w \in Workers : wpc[w] \notin {"crashed", "aborted"}

Step ==
  \/ \E w \in Workers : Worker(w)
  \/ Rebalancer
  \/ Provisioner
  \/ \E src \in 1..PowerLargest, dst \in Classes : SlabsReassign(src, dst)
  \/ \E t \in Pausers : RebalancerPause(t) \/ RebalancerResume(t)
  \/ \E t \in {"rebalancer", "provisioner"} : SpuriousWakeup(t)

\* Nothing runs after the process was killed.
Killed == ~Running /\ UNCHANGED vars

Next == (Running /\ Step) \/ Killed

\* A thread that can go on does, and a lock that is free again and again is obtained.
\* Requests need not arrive: ItemGet, SlabsAllocLock and SlabsReassign are not fair.
Fairness ==
  /\ WF_vars(Running /\ Rebalancer)
  /\ SF_vars(Running /\ RebalancerBoot) /\ SF_vars(Running /\ RebalancerWake)
  /\ SF_vars(Running /\ RebalanceStartLock) /\ SF_vars(Running /\ FinishLock)
  /\ WF_vars(Running /\ Provisioner)
  /\ SF_vars(Running /\ ProvisionerWake) /\ SF_vars(Running /\ DeallocateLock)
  /\ SF_vars(Running /\ StopSlabMonitorLock)
  /\ \A w \in Workers :
       /\ WF_vars(Running /\ (SlabsAllocFree(w) \/ SlabsAllocNewSlab(w) \/ SlabsAllocFail(w)))
       /\ SF_vars(Running /\ SetSlabActiveLock(w))
       /\ WF_vars(Running /\ (SetSlabActive(w) \/ SetSlabActiveSegfault(w)))
       /\ WF_vars(Running /\ ItemRemove(w))
  /\ \A t \in Pausers : WF_vars(Running /\ RebalancerResume(t))

Spec     == Init /\ [][Next]_vars
FairSpec == Spec /\ Fairness

-----------------------------------------------------------------------------
(* Properties. *)

\* Every variable has its type.
TypeOK ==
  /\ slab_list \in [Classes -> Seq(Pages)]
  /\ sorted_list \in [Classes -> Seq(Pages)]
  /\ hlls \in [Classes -> Seq(0..MaxEstimate)]
  /\ mon_slabs \in [Classes -> Nat]
  /\ monitoring_slabs \in BOOLEAN
  /\ mem_limit \in Nat /\ mem_malloced \in Nat
  /\ mon_slabs_lock \in Workers \cup {"none", "rebalancer", "provisioner"}
  /\ slabs_rebalance_lock \in Pausers \cup {"none", "rebalancer", "provisioner"}
  /\ waiting \subseteq {"rebalancer", "provisioner"}
  /\ slab_rebalance_signal \in 0..2
  /\ slab_rebal \in [s_clsid : Classes, d_clsid : Classes \cup {Removal},
                     slab_start : Pages \cup {NoPage}, slab_index : Nat,
                     slab_pos : 0..PerSlab, busy_items : 0..PerSlab, done : BOOLEAN]
  /\ cleared \subseteq Chunks
  /\ wpc \in [Workers -> {"idle", "alloc", "get", "active", "crashed", "aborted"}]
  /\ ref \in [Workers -> Items \cup {NoItem}]
  /\ rpc \in {"boot", "loop", "waiting", "starting", "unlinking", "finish", "finishing", "aborted"}
  /\ ppc \in {"idle", "start", "limit", "lock", "loop", "waiting", "stop", "stopping", "crashed"}
  /\ rounds \in Nat

\* No page is in two lists or twice in one, whatever grows, moves and removes
\* pages at the same time.
PagesOwnedOnce ==
  \A c, d \in Classes : \A i \in DOMAIN slab_list[c], j \in DOMAIN slab_list[d] :
     slab_list[c][i] = slab_list[d][j] => c = d /\ i = j

\* mem_malloced, which slabs_deallocate compares with the limit, counts exactly
\* the pages the process holds ("total amount of memory allocated to slab pages").
MemoryAccounted == mem_malloced = Cardinality(Malloced)

\* An item a worker holds a reference on lies in a page that the item's class
\* still owns: the mover never takes a page from under a request.
NoDanglingItem ==
  \A w \in Workers : ref[w] # NoItem => ref[w].page \in PagesOf(ref[w].cls)

\* "live items can sneak in" (the assertion of slab_remove_finish): when a sweep
\* ends every chunk is cleared and no worker refers to the page.
PageClearAtFinish ==
  rpc \in {"finish", "finishing"} =>
    /\ cleared = Chunks
    /\ \A w \in Workers : ref[w].page # slab_rebal.slab_start

\* "NOT CONSISTENT" (the assertion of set_slab_active): while pages are monitored
\* a class has as many monitored pages as pages, and a sketch for each.
MonitorConsistent ==
  monitoring_slabs =>
    \A c \in MonClasses : /\ mon_slabs[c] = Len(slab_list[c])
                          /\ Len(hlls[c]) = Len(slab_list[c])
                          /\ Len(sorted_list[c]) = Len(slab_list[c])

\* "OUT OF BOUND index": set_slab_active finds a sketch for every item but those of
\* the largest class, whatever pages have been removed since monitoring started.
SegfaultOnlyInLargest ==
  \A w \in Workers : wpc[w] = "crashed" => ref[w].cls = PowerLargest

\* The page being swept stays where slab_index says it is until the sweep ends.
SweptPageInPlace ==
  slab_rebalance_signal = 2 =>
    /\ slab_rebal.slab_index \in DOMAIN slab_list[slab_rebal.s_clsid]
    /\ slab_list[slab_rebal.s_clsid][slab_rebal.slab_index] = slab_rebal.slab_start

\* The handshake over slab_rebalance_cond loses no wakeup: neither side sleeps
\* when it is the one that has to act.
NoLostWakeup ==
  /\ "rebalancer" \in waiting => slab_rebalance_signal = 0
  /\ "provisioner" \in waiting => slab_rebalance_signal # 0

\* Memory is given back only while more is held than the limit allows, although
\* the decision is taken several steps, and a lock hand-over, before the page goes.
NoOverShrink == [][mem_malloced' < mem_malloced => mem_malloced > mem_limit]_vars

\* A slab class that has a page never loses its last one.
LastPageKept ==
  [][\A c \in 1..PowerLargest : slab_list[c] # <<>> => slab_list'[c] # <<>>]_vars

\* A limit of one page per class in use leaves slabs_remove_pick_rand something to
\* draw from, provided the largest class, which it never looks at, is not used.
NoDivideByZero ==
  PowerLargest \notin ItemClasses /\ mem_limit >= Cardinality(ItemClasses) => ppc # "crashed"

\* Once requests pause, slabs_deallocate reaches the limit it was given, unless
\* the process is killed by a limit that no removal can reach.
DeallocateCompletes ==
  <>[](\A w \in Workers : ref[w] = NoItem) =>
    (ppc = "loop" ~> mem_malloced <= mem_limit \/ ~Running)

\* slab_rebalance_start returned an error and left mon_slabs_lock held.
MonLockLeaked == mon_slabs_lock = "rebalancer" /\ rpc \notin {"starting", "finishing", "aborted"}

\* Once requests pause, a move that slabs reassign asked for begins, unless it is refused for a
\* failed realloc, which leaves mon_slabs_lock held for good, or an assertion has killed the
\* process; and the page whose move has begun comes to the class it was asked for.
ReassignCompletes ==
  <>[](\A w \in Workers : ref[w] = NoItem) =>
    /\ slab_rebalance_signal = 1 ~> slab_rebalance_signal = 2 \/ MonLockLeaked \/ ~Running
    /\ \A page \in Pages, dst \in Classes :
         slab_rebalance_signal = 2 /\ slab_rebal.slab_start = page /\ slab_rebal.d_clsid = dst
           ~> page \in PagesOf(dst) \/ ~Running

\* "ERROR should not be here" (the assertion of slab_rebalance_start): a page is moved or removed
\* only while pages are monitored.  Not so for slabs reassign (see the README).
MoverNeverAborts == rpc # "aborted"

\* The pointer assertions of set_slab_active hold.
SetSlabActiveAsserts ==
  \A w \in Workers : wpc[w] = "active" /\ monitoring_slabs => AssertionsHold(ref[w])

-----------------------------------------------------------------------------
(* The inductive invariant behind the state properties, for a process in which *)
(* pages are either moved by slabs reassign or removed by slabs_deallocate.    *)

OneMoverUser == ~ReassignEnabled \/ MaxRounds = 0

\* Who is inside a section of a lock holds it.
LocksHeld ==
  /\ \A w \in Workers : wpc[w] \in {"alloc", "active"} => mon_slabs_lock = w
  /\ rpc \in {"starting", "finishing"} => mon_slabs_lock = "rebalancer"
  /\ ppc \in {"start", "stopping"} => mon_slabs_lock = "provisioner"
  /\ rpc \notin {"boot", "waiting"} => slabs_rebalance_lock = "rebalancer"
  /\ ppc = "loop" => slabs_rebalance_lock = "provisioner"

\* What the signal says about the step of the rebalancer.
SignalInStep ==
  /\ rpc = "starting" => slab_rebalance_signal = 1
  /\ rpc \in {"unlinking", "finish", "finishing"} => slab_rebalance_signal = 2
  /\ slab_rebalance_signal = 2 => rpc \in {"loop", "unlinking", "finish", "finishing"}
  /\ rpc = "finishing" => slab_rebal.d_clsid = Removal

\* What a request, once made, asks for.
RequestSound ==
  slab_rebalance_signal # 0 =>
    /\ slab_rebal.s_clsid # Pool
    /\ slab_rebal.d_clsid = Removal => /\ slab_rebal.s_clsid \in MonClasses
                                       /\ ppc = "waiting"
    /\ slab_rebal.d_clsid # Removal => /\ ReassignEnabled
                                       /\ slab_rebal.s_clsid # slab_rebal.d_clsid

\* Pages are monitored from start_slab_monitor to stop_slab_monitor.
MonitoringInStep ==
  /\ ppc \in {"limit", "lock", "loop", "waiting", "stop", "stopping"} => monitoring_slabs
  /\ ppc \in {"idle", "start"} => ~monitoring_slabs
  /\ ppc # "idle" => MaxRounds # 0

\* A sweep has cleared what it has passed, unless it has met busy chunks.
SweepProgress ==
  /\ slab_rebalance_signal # 2 => /\ cleared = {} /\ slab_rebal.slab_start = NoPage
                                  /\ slab_rebal.busy_items = 0
  /\ slab_rebalance_signal = 2 =>
       /\ slab_rebal.slab_start # NoPage
       /\ HasSparePage(slab_rebal.s_clsid)
       /\ slab_rebal.d_clsid # Removal => slab_rebal.slab_index = 1
       /\ rpc \in {"loop", "unlinking"} =>
            /\ slab_rebal.slab_pos < PerSlab
            /\ slab_rebal.busy_items <= slab_rebal.slab_pos
            /\ slab_rebal.busy_items = 0 => 0..(slab_rebal.slab_pos - 1) \subseteq cleared
       /\ rpc = "unlinking" => slab_rebal.slab_pos \in cleared
       /\ rpc \in {"finish", "finishing"} => cleared = Chunks

\* No worker refers to a chunk that has been cleared.
ClearedUnreferenced ==
  \A w \in Workers : ref[w] # NoItem => ~IsCleared(ref[w].page, ref[w].chunk)

\* mem_malloced counts the pages the process holds and those malloc has refused.
MemoryCounted == mem_malloced - Cardinality(Malloced) \in 0..MaxFailedMallocs

IndInv ==
  /\ TypeOK
  /\ LocksHeld /\ SignalInStep /\ RequestSound /\ MonitoringInStep
  /\ SweepProgress /\ SweptPageInPlace /\ ClearedUnreferenced
  /\ PagesOwnedOnce /\ MemoryCounted /\ NoDanglingItem /\ MonitorConsistent

\* What a removal that was asked for relies on until the page is gone.
RemovalJustified ==
  slab_rebalance_signal # 0 /\ slab_rebal.d_clsid = Removal =>
    HasSparePage(slab_rebal.s_clsid) /\ OverLimit

HandshakeInv ==
  /\ NoLostWakeup /\ RemovalJustified
  /\ "rebalancer" \in waiting => rpc = "waiting"
  /\ "provisioner" \in waiting => ppc = "waiting"

\* Without slabs reassign a page stays in the class that obtained it.
UsedClassesOnly ==
  ~ReassignEnabled => \A c \in Classes \ ItemClasses : slab_list[c] = <<>>

\* A worker touches an item, and items are of the classes in use.
RefInStep ==
  \A w \in Workers : /\ wpc[w] \in {"get", "active"} => ref[w] # NoItem
                     /\ ref[w] # NoItem => ref[w].cls \in ItemClasses

\* What it takes for slabs_remove_pick_rand to have nothing to draw from.
DivisionExcused ==
  ppc = "crashed" =>
    \/ PowerLargest \in ItemClasses
    \/ mem_limit < Cardinality(ItemClasses) + MaxFailedMallocs

CrashInv == UsedClassesOnly /\ RefInStep /\ SegfaultOnlyInLargest /\ DivisionExcused
=============================================================================
