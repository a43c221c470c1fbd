------------------------------- MODULE Assoc -------------------------------
(***************************************************************************)
(* The hash table of memcached-dyn (assoc.c) while it grows: workers find, *)
(* insert and delete under item locks, background threads evict, and the   *)
(* maintenance thread doubles the table and moves the buckets one by one.  *)
(* Before it swaps the tables it pauses every other thread (pause_threads  *)
(* of thread.c).                                                           *)
(*                                                                         *)
(* A call of assoc_find, assoc_insert or assoc_delete reads expanding,     *)
(* then expand_bucket, then works on the bucket: three actions, so that    *)
(* the maintenance thread, which locks only the items of the bucket it     *)
(* moves, can get in between.                                              *)
(*                                                                         *)
(* Abstractions.  A bucket is the set of its keys: no key is in a chain    *)
(* twice, so its order tells nothing.  The chain is walked, and an item    *)
(* linked, in one step: threads with different item locks never share a    *)
(* bucket.  An item is unlinked in the step that counts it.                *)
(* hash_bulk_move buckets at a time are as many rounds of one.             *)
(***************************************************************************)
EXTENDS Integers, FiniteSets, Sequences

CONSTANTS
  Workers,           \* the worker threads
  Background,        \* of "rebalancer", "crawler", "maintainer", those that run
  Keys,              \* keys of items
  NoKey,             \* no key
  hash,              \* the hash value of a key
  Requested,         \* the keys that requests name
  Resident,          \* the keys linked at the start
  InitHashpower,     \* hashpower at the start
  ItemLockHashpower, \* item_lock_hashpower
  MaxHashpower,      \* bound: calloc refuses a table larger than this
  MayFailCalloc,     \* whether calloc refuses smaller ones
  CrawlerCommands,   \* whether clients send lru_crawler enable or disable
  MaxPauses          \* bound: calls of pause_threads

BackgroundThreads == {"rebalancer", "crawler", "maintainer"}

ASSUME ThreadsAssumption ==
  /\ Background \subseteq BackgroundThreads
  /\ Workers \cap (BackgroundThreads \cup {"none", "assoc"}) = {}
  /\ IsFiniteSet(Workers) /\ Workers # {}
ASSUME KeysAssumption ==
  /\ NoKey \notin Keys /\ hash \in [Keys -> Nat]
  /\ Requested \subseteq Keys /\ Resident \subseteq Keys /\ IsFiniteSet(Keys)
\* memcached_thread_init exits when there are as many item locks as buckets.
ASSUME HashpowerAssumption ==
  /\ InitHashpower \in Nat /\ ItemLockHashpower \in Nat /\ MaxHashpower \in Nat
  /\ ItemLockHashpower < InitHashpower
ASSUME BoundsAssumption ==
  MayFailCalloc \in BOOLEAN /\ CrawlerCommands \in BOOLEAN /\ MaxPauses \in Nat

VARIABLES
  hashpower, primary_hashtable, old_hashtable, expanding, expand_bucket,
  hash_items,
  started_expanding,
  waiting,           \* the maintenance thread is blocked on maintenance_cond
  item_lock,         \* per item lock its holder, or "none"
  pause_lock,        \* holders of the four locks of pause_threads
  init_count, pipe,  \* registered threads; bytes 'p' in a worker's pipe
  pauses,            \* calls of pause_threads(PAUSE_ALL_THREADS) so far
  mpc, mstep,        \* step of the maintenance thread; the next of the four locks
  pc, cmd,           \* per thread: its step; what it does for the client
  fn,                \* the call of assoc.c it makes
  key, answer,       \* the key it works on; what its last find returned
  saw, where         \* its copy of expanding; the table it chose

tableVars == <<hashpower, primary_hashtable, old_hashtable, expanding, expand_bucket>>
growVars  == <<started_expanding, waiting>>
pauseVars == <<pause_lock, init_count, pipe, pauses>>
maintVars == <<mpc, mstep>>
callVars  == <<cmd, fn, key, answer, saw, where>>
vars == <<tableVars, hash_items, growVars, item_lock, pauseVars, maintVars, pc, callVars>>

-----------------------------------------------------------------------------
Threads == Workers \cup Background

hashsize(n)   == 2^n
Bucket(k, n)  == hash[k] % hashsize(n)       \* hv & hashmask(n)
LockOf(h)     == h % hashsize(ItemLockHashpower)
Buckets(n)    == 0..(hashsize(n) - 1)

\* The locks pause_threads takes, in this order, and gives back in this order.
PauseOrder == <<"rebalancer", "crawler", "maintainer", "workers">>

\* All keys that are in some bucket of some table.
Linked ==
  UNION ({primary_hashtable[b] : b \in DOMAIN primary_hashtable}
           \cup {old_hashtable[b] : b \in DOMAIN old_hashtable})

Init ==
  /\ hashpower = InitHashpower
  /\ primary_hashtable =
       [b \in Buckets(InitHashpower) |-> {k \in Resident : Bucket(k, InitHashpower) = b}]
  /\ old_hashtable = <<>>
  /\ expanding = FALSE
  /\ expand_bucket = 0
  /\ hash_items = Cardinality(Resident)
  /\ started_expanding = FALSE
  /\ waiting = FALSE
  /\ item_lock = [l \in Buckets(ItemLockHashpower) |-> "none"]
  /\ pause_lock = [p \in BackgroundThreads \cup {"workers"} |-> "none"]
  /\ init_count = Cardinality(Workers)
  /\ pipe = [w \in Workers |-> 0]
  /\ pauses = 0
  /\ mpc = "loop" /\ mstep = 1
  /\ pc = [t \in Threads |-> "event"]
  /\ cmd = [t \in Threads |-> "none"]
  /\ fn = [t \in Threads |-> "none"]
  /\ key = [t \in Threads |-> NoKey]
  /\ answer = [t \in Threads |-> "none"]
  /\ saw = [t \in Threads |-> FALSE]
  /\ where = [t \in Threads |-> "primary"]

-----------------------------------------------------------------------------
(* A request: the item lock, one or more calls of assoc.c, the unlock. *)

\* A call of assoc.c starts with the test of expanding.
Call(t, f) ==
  /\ fn' = [fn EXCEPT ![t] = f]
  /\ pc' = [pc EXCEPT ![t] = "read"]

LockItem(t, k) ==
  /\ item_lock[LockOf(hash[k])] = "none"
  /\ item_lock' = [item_lock EXCEPT ![LockOf(hash[k])] = t]
  /\ key' = [key EXCEPT ![t] = k]

\* item_lock and the find of item_get, item_touch, store_item or add_delta.
Request(w, k, c) ==
  /\ pc[w] = "event"
  /\ LockItem(w, k)
  /\ cmd' = [cmd EXCEPT ![w] = c]
  /\ Call(w, "find")
  /\ UNCHANGED <<tableVars, hash_items, growVars, pauseVars, maintVars, answer, saw, where>>

\* An item met in an LRU queue or a page, or found by an earlier request of a delete, is
\* unlinked if it is linked still; the rebalancer may link a copy of it instead.
Unlink(t, k, c) ==
  /\ pc[t] = IF t \in Workers THEN "event" ELSE "running"
  /\ c = "move" => t = "rebalancer"
  /\ k \in Linked
  /\ LockItem(t, k)
  /\ cmd' = [cmd EXCEPT ![t] = c]
  /\ Call(t, "delete")
  /\ UNCHANGED <<tableVars, hash_items, growVars, pauseVars, maintVars, answer, saw, where>>

ReadExpanding(t) ==
  /\ pc[t] = "read"
  /\ saw' = [saw EXCEPT ![t] = expanding]
  /\ pc' = [pc EXCEPT ![t] = "choose"]
  /\ UNCHANGED <<tableVars, hash_items, growVars, item_lock, pauseVars, maintVars,
                 cmd, fn, key, answer, where>>

NotMovedOff(k) == Bucket(k, hashpower - 1) > expand_bucket    \* mutant: off by one

\* The buckets not moved yet are looked for in the old table.
NotMoved(k) == Bucket(k, hashpower - 1) >= expand_bucket

ChooseBucket(t) ==
  /\ pc[t] = "choose"
  /\ where' = [where EXCEPT ![t] = IF saw[t] /\ NotMoved(key[t]) THEN "old" ELSE "primary"]
  /\ pc' = [pc EXCEPT ![t] = "act"]
  /\ UNCHANGED <<tableVars, hash_items, growVars, item_lock, pauseVars, maintVars,
                 cmd, fn, key, answer, saw>>

\* The bucket a thread works on.
OldBucket(t)     == Bucket(key[t], hashpower - 1)
PrimaryBucket(t) == Bucket(key[t], hashpower)
Chosen(t) ==
  IF where[t] = "old" THEN old_hashtable[OldBucket(t)] ELSE primary_hashtable[PrimaryBucket(t)]

SetChosen(t, bucket) ==
  /\ IF where[t] = "old"
     THEN /\ old_hashtable' = [old_hashtable EXCEPT ![OldBucket(t)] = bucket]
          /\ UNCHANGED primary_hashtable
     ELSE /\ primary_hashtable' = [primary_hashtable EXCEPT ![PrimaryBucket(t)] = bucket]
          /\ UNCHANGED old_hashtable
  /\ UNCHANGED <<hashpower, expanding, expand_bucket>>

\* What follows: an item that is replaced or has expired is unlinked, a new one is linked.
assoc_find(t) ==
  /\ pc[t] = "act" /\ fn[t] = "find"
  /\ LET found == key[t] \in Chosen(t)
     IN  /\ answer' = [answer EXCEPT ![t] = IF found THEN "hit" ELSE "miss"]
         /\ \/ found /\ Call(t, "delete")
            \/ ~found /\ cmd[t] = "set" /\ Call(t, "insert")
            \/ pc' = [pc EXCEPT ![t] = "unlock"] /\ UNCHANGED fn
  /\ UNCHANGED <<tableVars, hash_items, growVars, item_lock, pauseVars, maintVars,
                 cmd, key, saw, where>>

assoc_insert(t) ==
  /\ pc[t] = "act" /\ fn[t] = "insert"
  /\ SetChosen(t, Chosen(t) \cup {key[t]})
  /\ pc' = [pc EXCEPT ![t] = "count"]
  /\ UNCHANGED <<hash_items, growVars, item_lock, pauseVars, maintVars, callVars>>

\* pthread_cond_signal, if nobody has asked for an expansion.
assoc_start_expand ==
  /\ ~started_expanding
  /\ started_expanding' = TRUE
  /\ waiting' = FALSE

\* The end of assoc_insert, under hash_items_counter_lock.
InsertCount(t) ==
  /\ pc[t] = "count"
  /\ hash_items' = hash_items + 1
  /\ LET full == ~expanding /\ hash_items' > (hashsize(hashpower) * 3) \div 2
     IN  \/ full /\ assoc_start_expand
         \/ (~full \/ started_expanding) /\ UNCHANGED growVars
  /\ pc' = [pc EXCEPT ![t] = "unlock"]
  /\ UNCHANGED <<tableVars, item_lock, pauseVars, maintVars, callVars>>

\* After the item its replacement is linked, except in a delete or an eviction.
AfterDelete(t) ==
  \/ cmd[t] \in {"set", "move"} /\ Call(t, "insert")
  \/ cmd[t] # "move" /\ pc' = [pc EXCEPT ![t] = "unlock"] /\ UNCHANGED fn

assoc_delete(t) ==
  /\ pc[t] = "act" /\ fn[t] = "delete"
  /\ key[t] \in Chosen(t)
  /\ hash_items' = hash_items - 1
  /\ SetChosen(t, Chosen(t) \ {key[t]})
  /\ AfterDelete(t)
  /\ UNCHANGED <<growVars, item_lock, pauseVars, maintVars, cmd, key, answer, saw, where>>

UnlockItem(t) ==
  /\ pc[t] = "unlock"
  /\ item_lock' = [item_lock EXCEPT ![LockOf(hash[key[t]])] = "none"]
  /\ pc' = [pc EXCEPT ![t] = IF t \in Workers THEN "event" ELSE "running"]
  /\ cmd' = [cmd EXCEPT ![t] = "none"]
  /\ fn' = [fn EXCEPT ![t] = "none"]
  /\ key' = [key EXCEPT ![t] = NoKey]
  /\ answer' = [answer EXCEPT ![t] = "none"]
  /\ saw' = [saw EXCEPT ![t] = FALSE]          \* locals of the calls
  /\ where' = [where EXCEPT ![t] = "primary"]
  /\ UNCHANGED <<tableVars, hash_items, growVars, pauseVars, maintVars>>

-----------------------------------------------------------------------------
(* Threads that are paused: workers by a byte in their pipe, the others by the *)
(* lock they hold whenever they do not sleep.                                  *)

BackgroundWake(b) ==
  /\ pc[b] = "event" /\ pause_lock[b] = "none"
  /\ pause_lock' = [pause_lock EXCEPT ![b] = b]
  /\ pc' = [pc EXCEPT ![b] = "running"]
  /\ UNCHANGED <<tableVars, hash_items, growVars, item_lock, init_count, pipe, pauses,
                 maintVars, callVars>>

BackgroundSleep(b) ==
  /\ pc[b] = "running"
  /\ pause_lock' = [pause_lock EXCEPT ![b] = "none"]
  /\ pc' = [pc EXCEPT ![b] = "event"]
  /\ UNCHANGED <<tableVars, hash_items, growVars, item_lock, init_count, pipe, pauses,
                 maintVars, callVars>>

RegisterUncounted(w) ==          \* mutant: init_count is not incremented
  /\ pc[w] = "event" /\ pipe[w] > 0
  /\ pipe' = [pipe EXCEPT ![w] = @ - 1]
  /\ pc' = [pc EXCEPT ![w] = "hang"]
  /\ UNCHANGED <<tableVars, hash_items, growVars, item_lock, init_count, pause_lock, pauses,
                 maintVars, callVars>>

\* register_thread_initialized: count oneself, then pile up at worker_hang_lock.
Register(w) ==
  /\ pc[w] = "event" /\ pipe[w] > 0
  /\ pipe' = [pipe EXCEPT ![w] = @ - 1]
  /\ init_count' = init_count + 1
  /\ pc' = [pc EXCEPT ![w] = "hang"]
  /\ UNCHANGED <<tableVars, hash_items, growVars, item_lock, pause_lock, pauses, maintVars,
                 callVars>>

HangPass(w) ==
  /\ pc[w] = "hang" /\ pause_lock["workers"] = "none"
  /\ pc' = [pc EXCEPT ![w] = "event"]
  /\ UNCHANGED <<tableVars, hash_items, growVars, item_lock, pauseVars, maintVars, callVars>>

\* lru_crawler enable or disable: the worker itself takes lru_crawler_lock.
CrawlerCommand(w) ==
  /\ CrawlerCommands
  /\ pc[w] = "event"
  /\ pc' = [pc EXCEPT ![w] = "crawlercmd"]
  /\ UNCHANGED <<tableVars, hash_items, growVars, item_lock, pauseVars, maintVars, callVars>>

CrawlerCommandDone(w) ==
  /\ pc[w] = "crawlercmd" /\ pause_lock["crawler"] = "none"
  /\ pc' = [pc EXCEPT ![w] = "event"]
  /\ UNCHANGED <<tableVars, hash_items, growVars, item_lock, pauseVars, maintVars, callVars>>

-----------------------------------------------------------------------------
(* assoc_maintenance_thread. *)

MigrateUnlocked ==      \* mutant: the item lock of the bucket is not taken
  /\ mpc = "loop" /\ expanding
  /\ mpc' = "migrate"
  /\ UNCHANGED <<tableVars, hash_items, growVars, item_lock, pauseVars, mstep, pc, callVars>>

\* item_trylock(expand_bucket); when it fails the thread sleeps and tries again.
MigrateLock ==
  /\ mpc = "loop" /\ expanding
  /\ item_lock[LockOf(expand_bucket)] = "none"
  /\ item_lock' = [item_lock EXCEPT ![LockOf(expand_bucket)] = "assoc"]
  /\ mpc' = "migrate"
  /\ UNCHANGED <<tableVars, hash_items, growVars, pauseVars, mstep, pc, callVars>>

MigrateItem ==
  /\ mpc = "migrate"
  /\ \E k \in old_hashtable[expand_bucket] :
        /\ old_hashtable' = [old_hashtable EXCEPT ![expand_bucket] = @ \ {k}]
        /\ primary_hashtable' =
             [primary_hashtable EXCEPT ![Bucket(k, hashpower)] = @ \cup {k}]
  /\ UNCHANGED <<hashpower, expanding, expand_bucket, hash_items, growVars, item_lock,
                 pauseVars, maintVars, pc, callVars>>

\* The bucket is empty: the next one, and the end of the expansion after the last.
MigrateBucketDone ==
  /\ mpc = "migrate"
  /\ old_hashtable[expand_bucket] = {}
  /\ expand_bucket' = expand_bucket + 1
  /\ IF expand_bucket' = hashsize(hashpower - 1)
     THEN expanding' = FALSE /\ old_hashtable' = <<>>
     ELSE UNCHANGED <<expanding, old_hashtable>>
  /\ item_lock' = [item_lock EXCEPT ![LockOf(expand_bucket)] = "none"]
  /\ mpc' = "loop"
  /\ UNCHANGED <<hashpower, primary_hashtable, hash_items, growVars, pauseVars, mstep, pc,
                 callVars>>

\* "We are done expanding.. just wait for next invocation"
MaintenanceReset ==
  /\ mpc = "loop" /\ ~expanding
  /\ started_expanding' = FALSE
  /\ mpc' = "reset"
  /\ UNCHANGED <<tableVars, hash_items, waiting, item_lock, pauseVars, mstep, pc, callVars>>

MaintenanceWait ==
  /\ mpc = "reset"
  /\ waiting' = TRUE
  /\ mpc' = "waiting"
  /\ UNCHANGED <<tableVars, hash_items, started_expanding, item_lock, pauseVars, mstep, pc,
                 callVars>>

\* POSIX lets pthread_cond_wait return without a signal; it is not in a loop.
SpuriousWakeup ==
  /\ waiting
  /\ waiting' = FALSE
  /\ UNCHANGED <<tableVars, hash_items, started_expanding, item_lock, pauseVars, maintVars,
                 pc, callVars>>

MaintenanceWake ==
  /\ mpc = "waiting" /\ ~waiting
  /\ pauses < MaxPauses
  /\ pauses' = pauses + 1
  /\ mpc' = "pausing" /\ mstep' = 1
  /\ UNCHANGED <<tableVars, hash_items, growVars, item_lock, pause_lock, init_count, pipe, pc,
                 callVars>>

\* pause_threads(PAUSE_ALL_THREADS): the four locks one after the other.
PauseLock ==
  /\ mpc = "pausing"
  /\ pause_lock[PauseOrder[mstep]] = "none"
  /\ pause_lock' = [pause_lock EXCEPT ![PauseOrder[mstep]] = "assoc"]
  /\ \/ mstep < 4 /\ mstep' = mstep + 1 /\ UNCHANGED mpc
     \/ mstep = 4 /\ mpc' = "notify" /\ UNCHANGED mstep
  /\ UNCHANGED <<tableVars, hash_items, growVars, item_lock, init_count, pipe, pauses, pc,
                 callVars>>

PauseNotify ==
  /\ mpc = "notify"
  /\ init_count' = 0
  /\ pipe' = [w \in Workers |-> pipe[w] + 1]
  /\ mpc' = "registering"
  /\ UNCHANGED <<tableVars, hash_items, growVars, item_lock, pause_lock, pauses, mstep, pc,
                 callVars>>

\* wait_for_thread_registration
PauseDone ==
  /\ mpc = "registering" /\ init_count >= Cardinality(Workers)
  /\ mpc' = "expand"
  /\ UNCHANGED <<tableVars, hash_items, growVars, item_lock, pauseVars, mstep, pc, callVars>>

assoc_expand ==
  /\ mpc = "expand"
  /\ hashpower + 1 <= MaxHashpower
  /\ old_hashtable' = primary_hashtable
  /\ primary_hashtable' = [b \in Buckets(hashpower + 1) |-> {}]
  /\ hashpower' = hashpower + 1
  /\ expanding' = TRUE
  /\ expand_bucket' = 0
  /\ mpc' = "resuming" /\ mstep' = 1
  /\ UNCHANGED <<hash_items, growVars, item_lock, pauseVars, pc, callVars>>

\* calloc returns NULL: "Bad news, but we can keep running."
assoc_expand_no_memory ==
  /\ mpc = "expand"
  /\ MayFailCalloc \/ hashpower + 1 > MaxHashpower
  /\ mpc' = "resuming" /\ mstep' = 1
  /\ UNCHANGED <<tableVars, hash_items, growVars, item_lock, pauseVars, pc, callVars>>

\* pause_threads(RESUME_ALL_THREADS)
ResumeUnlock ==
  /\ mpc = "resuming"
  /\ pause_lock' = [pause_lock EXCEPT ![PauseOrder[mstep]] = "none"]
  /\ \/ mstep < 4 /\ mstep' = mstep + 1 /\ UNCHANGED mpc
     \/ mstep = 4 /\ mpc' = "loop" /\ mstep' = 1
  /\ UNCHANGED <<tableVars, hash_items, growVars, item_lock, init_count, pipe, pauses, pc,
                 callVars>>

-----------------------------------------------------------------------------
InCall(t) ==
  \/ ReadExpanding(t) \/ ChooseBucket(t)
  \/ assoc_find(t) \/ assoc_insert(t) \/ InsertCount(t) \/ assoc_delete(t)
  \/ UnlockItem(t)

Worker(w) ==
  \/ \E k \in Requested, c \in {"get", "set"} : Request(w, k, c)
  \/ \E k \in Requested : Unlink(w, k, "evict")
  \/ InCall(w)
  \/ Register(w) \/ HangPass(w)
  \/ CrawlerCommand(w) \/ CrawlerCommandDone(w)

BackgroundThread(b) ==
  \/ BackgroundWake(b) \/ BackgroundSleep(b)
  \/ \E k \in Requested, c \in {"evict", "move"} : Unlink(b, k, c)
  \/ InCall(b)

Maintenance ==
  \/ MigrateLock \/ MigrateItem \/ MigrateBucketDone
  \/ MaintenanceReset \/ MaintenanceWait \/ MaintenanceWake
  \/ PauseLock \/ PauseNotify \/ PauseDone
  \/ assoc_expand \/ assoc_expand_no_memory \/ ResumeUnlock

Next ==
  \/ \E w \in Workers : Worker(w)
  \/ \E b \in Background : BackgroundThread(b)
  \/ Maintenance
  \/ SpuriousWakeup

\* A thread that can go on does; a lock that is free again and again is obtained; a
\* worker comes to the byte in its pipe; a background thread ends its round.
\* Requests, evictions and commands need not come.
Fairness ==
  /\ WF_vars(Maintenance)
  /\ SF_vars(PauseLock)
  /\ \A t \in Threads : WF_vars(InCall(t))
  /\ \A w \in Workers :
       SF_vars(Register(w)) /\ WF_vars(HangPass(w)) /\ SF_vars(CrawlerCommandDone(w))
  /\ \A b \in Background : SF_vars(BackgroundSleep(b))

Spec     == Init /\ [][Next]_vars
FairSpec == Spec /\ Fairness

-----------------------------------------------------------------------------
(* Properties. *)

\* Every variable has its type; that hash_items is not negative is another matter, as it
\* follows only from what has been linked and not counted yet.
FieldsOK ==
  /\ hashpower \in Nat /\ expand_bucket \in Nat
  /\ primary_hashtable \in [Buckets(hashpower) -> SUBSET Keys]
  /\ IF expanding THEN old_hashtable \in [Buckets(hashpower - 1) -> SUBSET Keys]
                  ELSE old_hashtable = <<>>
  /\ {expanding, started_expanding, waiting} \subseteq BOOLEAN
  /\ item_lock \in [Buckets(ItemLockHashpower) -> Threads \cup {"none", "assoc"}]
  /\ pause_lock \in [BackgroundThreads \cup {"workers"} -> Background \cup {"none", "assoc"}]
  /\ init_count \in Nat /\ pipe \in [Workers -> Nat] /\ pauses \in Nat
  /\ mpc \in {"loop", "migrate", "reset", "waiting", "pausing", "notify", "registering",
              "expand", "resuming"}
  /\ mstep \in 1..4
  /\ pc \in [Threads -> {"event", "running", "read", "choose", "act", "count", "unlock",
                         "hang", "crawlercmd"}]
  /\ cmd \in [Threads -> {"none", "get", "set", "evict", "move"}]
  /\ fn \in [Threads -> {"none", "find", "insert", "delete"}]
  /\ key \in [Threads -> Keys \cup {NoKey}]
  /\ answer \in [Threads -> {"none", "hit", "miss"}]
  /\ saw \in [Threads -> BOOLEAN]
  /\ where \in [Threads -> {"old", "primary"}]
TypeOK == FieldsOK /\ hash_items \in Nat

\* The buckets of both tables, as pairs of a table and an index.
PlacesOf(k) ==
  {<<"primary", b>> : b \in {c \in DOMAIN primary_hashtable : k \in primary_hashtable[c]}}
    \cup {<<"old", b>> : b \in {c \in DOMAIN old_hashtable : k \in old_hashtable[c]}}

\* "shouldn't have duplicately named things defined" (the assertion that assoc_insert has
\* in a comment): an item is inserted only when no bucket of either table has its key,
\* and no key is in two buckets even while its own is moved between the tables.
NoDuplicates ==
  /\ \A k \in Keys : Cardinality(PlacesOf(k)) <= 1
  /\ \A t \in Threads : pc[t] = "act" /\ fn[t] = "insert" => key[t] \notin Linked

\* The assertion of assoc_delete: "the callers don't delete things they can't find".
DeleteFinds ==
  \A t \in Threads : pc[t] = "act" /\ fn[t] = "delete" => key[t] \in Chosen(t)

\* "we need all threads to not hold any references related to the hash table while
\* this happens": when the tables are swapped nobody is between lock and unlock.
AllPausedAtExpand ==
  mpc = "expand" =>
    /\ \A t \in Threads : pc[t] \in {"event", "hang"} /\ key[t] = NoKey
    /\ \A l \in DOMAIN item_lock : item_lock[l] = "none"

\* hash_items counts the linked items; an item just linked is counted a step later.
ItemsCounted ==
  hash_items + Cardinality({t \in Threads : pc[t] = "count"}) = Cardinality(Linked)

\* The table is as its callers and assertions take it to be, whatever has been moved: no key
\* twice, none deleted that is not there, the count that decides on an expansion right, and
\* nobody at the tables when they are swapped.
TableSound == TypeOK /\ NoDuplicates /\ DeleteFinds /\ ItemsCounted /\ AllPausedAtExpand

\* For its clients the table is a set: whatever is moved in between, a find tells what
\* is linked, an insert adds what was not there and a delete removes what was.
Table == INSTANCE ItemTable WITH items <- Linked

TableIsSet == Table!Spec

\* An expansion that has begun ends once requests and evictions pause.
ExpansionEnds ==
  <>[](\A t \in Threads : pc[t] \in {"event", "running", "hang"}) => (expanding ~> ~expanding)

\* A worker that has not left the last pause when the next one begins: it waits for
\* worker_hang_lock while the maintenance thread, holding it, waits for the worker.
LeftBehind == \E w \in Workers : pc[w] = "hang" /\ pipe[w] > 0

\* A worker that waits for lru_crawler_lock while the pause holds it.
CrawlerCommandStuck ==
  pause_lock["crawler"] = "assoc" /\ \E w \in Workers : pc[w] = "crawlercmd"

\* A pause of all threads ends, in all but two ways to fail.
PauseEnds == mpc = "pausing" ~> mpc = "expand" \/ LeftBehind \/ CrawlerCommandStuck

\* What the maintenance thread has begun it ends: a pause of all threads, in all but two ways
\* to fail, and an expansion, once requests and evictions pause.
MaintenanceEnds == PauseEnds /\ ExpansionEnds

\* "just wait for next invocation": while the maintenance thread waits it has not been
\* invoked already.
NotInvokedWhileWaiting == mpc = "waiting" /\ waiting => ~started_expanding
=============================================================================
