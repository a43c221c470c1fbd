-------------------------------- MODULE Items --------------------------------
(***************************************************************************)
(* Items of memcached-dyn: reference counts, the three LRU queues of a     *)
(* slab class and the commands on them (items.c, the storage commands of   *)
(* memcached.c and their wrappers in thread.c), served by several workers  *)
(* beside the LRU maintainer and the LRU crawler.                          *)
(*                                                                         *)
(* Two locks matter.  The item lock of a key is held over a whole command  *)
(* on the item, the lock of a queue over one operation on the queue.  They *)
(* are taken in both orders: a command takes the queue's lock inside the   *)
(* item's, whoever walks a queue only tries the item's.  An action is what *)
(* happens between two operations on a queue or on the freelist.           *)
(*                                                                         *)
(* Abstractions.  One slab class.  An item lock guards one key (the code   *)
(* shares a lock between keys, which only makes a trylock fail).  The hash *)
(* table is a function: see Assoc.  A value is a number, or Empty, which   *)
(* stands for every value that is none: whether it has no bytes at all or  *)
(* is a text is left open.  The clock is left out: whether an item         *)
(* expires, and whether 60 seconds have passed since its last access, is   *)
(* left open too.                                                          *)
(***************************************************************************)
EXTENDS Integers, FiniteSets, Sequences, SequencesExt

CONSTANTS
  Workers,      \* worker threads, each with the connection it serves
  Keys, Chunks, \* keys; the chunks of the slab class
  None,
  SetValues,    \* values that clients upload
  Settings,     \* the settings the program may be started with
  LruLimit,     \* total_chunks * warm_lru_pct / 100
  Tries,        \* entries lru_pull_tail looks at: 5 in the code
  AllocTries,   \* attempts of do_item_alloc: 5 in the code
  MaxCas,       \* bound: cas ids given out when clients stop to update
  MaxVal,       \* bound: counters
  MaxRefs       \* bound: references at which clients stop to incr

Empty == -1
\* Counters wrap at their width, MaxVal in place of 2^64 - 1.
Successor(v) == (v + 1) % (MaxVal + 1)
Queues == {"hot", "warm", "cold"}
Threads == Workers \cup {"maintainer", "crawler"}
Stores == {"set", "add", "replace", "append", "cas"}

\* A call of lru_pull_tail: what it is to do, and where it is.
PullRecord ==
  [q : Queues, evict : BOOLEAN, cur : Keys \cup {None}, tries : Int,
   search : Chunks \cup {"crawler"}, it : Chunks \cup {None}, move : Queues \cup {None}]

\* What clients see of an item, and answers as a worker keeps them and as clients see them.
Version == [val : (0..MaxVal) \cup {Empty}, ver : Nat]
Answers ==
  [res : {"hit", "miss", "removed"}, key : Keys] \cup [res : {"no_memory"}]
    \cup [res : {"hit"}, key : Keys, version : Version]

ASSUME ItemsAssumption ==
  /\ SetValues \subseteq (0..MaxVal) \cup {Empty}
  /\ Settings \subseteq [lru_maintainer_thread : BOOLEAN, lru_crawler : BOOLEAN]
  /\ {LruLimit, Tries, AllocTries, MaxCas, MaxVal, MaxRefs} \subseteq Nat
  /\ IsFiniteSet(Workers) /\ IsFiniteSet(Keys) /\ Keys # {}
  /\ {"maintainer", "crawler"} \cap Workers = {} /\ "crawler" \notin Chunks
  /\ None \notin Threads \cup Keys \cup Chunks \cup Queues \cup PullRecord \cup Version \cup Answers

VARIABLES
  settings,   \* whether maintainer and crawler run; without maintainer all items are cold
  item,       \* the header of each chunk
  hash,       \* the item linked under a key, or None
  queue,      \* per queue its items from head to tail, and at most one crawler
  cas_id,     \* the last cas id given out
  item_lock,  \* per key the holder of its item lock, or None
  lru_lock,   \* per queue the walker that holds its lock, or None
  c,          \* per worker its connection and where it is in the command
  pull,       \* per walker its call of lru_pull_tail, or None
  crawlers    \* the queues a crawler is still to join, and those it runs in

vars == <<settings, item, hash, queue, cas_id, item_lock, lru_lock, c, pull, crawlers>>

-----------------------------------------------------------------------------
(* Headers.  ver is auxiliary: the cas id the value was written under.     *)

Slabbed == [key |-> None, val |-> 0, cas |-> 0, ver |-> 0, expired |-> FALSE, lru |-> "none",
            linked |-> FALSE, active |-> FALSE, refcount |-> 0]

Free == {i \in Chunks : item[i] = Slabbed}

\* Its exptime is reached, or a flush_all has come.  do_item_get takes an item for expired
\* a second before walkers and crawler do; here they agree.
Expired(i) == item[i].expired

\* Mutant: a reference is not counted.
not_incr(I, i) == I
refcount_incr(I, i) == [I EXCEPT ![i].refcount = @ + 1]

\* do_item_remove: who drops the last reference frees the chunk.
do_item_remove(I, i) ==
  IF I[i].refcount = 1 THEN [I EXCEPT ![i] = Slabbed]
                       ELSE [I EXCEPT ![i].refcount = @ - 1]

drop(I, i) == IF i = None THEN I ELSE do_item_remove(I, i)

do_item_link_q(Q, q, i) == [Q EXCEPT ![q] = <<i>> \o @]
\* An item is at one place of a queue at most; one that is at none is left alone.
PlaceOf(list, i) == CHOOSE n \in DOMAIN list : list[n] = i
Without(list, i) ==
  IF \E n \in DOMAIN list : list[n] = i THEN RemoveAt(list, PlaceOf(list, i)) ELSE list
do_item_unlink_q(Q, q, i) == [Q EXCEPT ![q] = Without(@, i)]
sizes(q) == Cardinality({n \in DOMAIN queue[q] : queue[q][n] # "crawler"})

\* do_item_unlink_nolock, for who holds item lock and queue lock: out of hash
\* table and queue, and the reference of the table dropped.
Unlinked(I, i) == do_item_remove([I EXCEPT ![i].linked = FALSE], i)

\* A connection between two commands: it is the item of the command, old what its key
\* is linked to, new what replaces it.
Connection == [pc |-> "new_cmd", cmd |-> "none", key |-> None, unique |-> 0, it |-> None,
               old |-> None, new |-> None, tries |-> 0, todo |-> <<>>, told |-> None]

Init ==
  /\ settings \in Settings
  /\ item = [i \in Chunks |-> Slabbed]
  /\ hash = [k \in Keys |-> None]
  /\ queue = [q \in Queues |-> <<>>]
  /\ cas_id = 0
  /\ item_lock = [k \in Keys |-> None]
  /\ lru_lock = [q \in Queues |-> None]
  /\ c = [w \in Workers |-> Connection]
  /\ pull = [t \in Workers \cup {"maintainer"} |-> None]
  /\ crawlers = [asked |-> <<>>, running |-> {}]

Running(w, pc) == c[w].pc = pc /\ pull[w] = None
Holds(t, k) == item_lock[k] = t
Lock(t, k) == item_lock[k] = None /\ item_lock' = [item_lock EXCEPT ![k] = t]
Unlock(k) == item_lock' = [item_lock EXCEPT ![k] = None]

(***************************************************************************)
(* Looking up an item                                                      *)
(***************************************************************************)
version(i) == [val |-> item[i].val, ver |-> item[i].ver]
NextVersion(v) == [val |-> v, ver |-> cas_id + 1]

\* do_item_get and do_item_touch, with the item lock of the key held: a hit is referenced
\* (the new exptime of a touch changes nothing here); an expired item is taken out of the
\* table at once, and out of its queue in Reap.
do_item_get(k) ==
  LET i == hash[k]
      found == refcount_incr(item, i)
  IN
  CASE i = None -> UNCHANGED <<item, hash>>
    [] i # None /\ Expired(i) ->
         /\ item' = [found EXCEPT ![i].linked = FALSE]
         /\ hash' = [hash EXCEPT ![k] = None]
    [] OTHER -> item' = [found EXCEPT ![i].active = TRUE] /\ UNCHANGED hash

Hit(k) == hash[k] # None /\ ~Expired(hash[k])

\* A worker in item_get.  It gives the lock back unless there is an item to reap.
item_get(w, cmd, k, then, told) ==
  LET i == hash[k]
      conn == [Connection EXCEPT !.cmd = cmd, !.key = k,
                 !.told = IF told # None THEN told
                          ELSE [res |-> IF Hit(k) THEN "hit" ELSE "miss", key |-> k]]
  IN
  /\ item_lock[k] = None
  /\ do_item_get(k)
  /\ IF Hit(k) THEN c' = [c EXCEPT ![w] = [conn EXCEPT !.pc = then, !.it = i]]
     ELSE c' = [c EXCEPT ![w] = [conn EXCEPT !.pc = IF i = None THEN "done" ELSE "reap", !.old = i]]
  /\ IF i # None /\ ~Hit(k) THEN Lock(w, k) ELSE UNCHANGED item_lock
  /\ UNCHANGED <<settings, queue, cas_id, lru_lock, pull, crawlers>>

\* The rest of do_item_unlink and do_item_remove for an expired item.
Reap(w) ==
  LET i == c[w].old
      updating == c[w].it # None \/ c[w].cmd = "incr"
  IN
  /\ Running(w, "reap")
  /\ lru_lock[item[i].lru] = None
  /\ queue' = do_item_unlink_q(queue, item[i].lru, i)
  /\ item' = do_item_remove(do_item_remove(item, i), i)
  /\ IF updating THEN UNCHANGED item_lock ELSE Unlock(c[w].key)
  /\ c' = [c EXCEPT ![w].pc = IF updating THEN "found" ELSE "done", ![w].old = None]
  /\ UNCHANGED <<settings, hash, cas_id, lru_lock, pull, crawlers>>

(***************************************************************************)
(* get, touch, delete                                                      *)
(***************************************************************************)
NewCommand(w) == Running(w, "new_cmd")

\* get, gets, touch, and gat of the binary protocol.
Get(w, k) == NewCommand(w) /\ \E cmd \in {"get", "gets"} : item_get(w, cmd, k, "got", None)

Delete(w, k) == NewCommand(w) /\ item_get(w, "delete", k, "unlink", None)

\* The reply is formatted: the cas id of a gets is read from the item, without the lock.
Format(w) ==
  /\ Running(w, "got") \/ Running(w, "format")
  /\ c' = [c EXCEPT ![w].pc = "drop", ![w].cmd = "none"]
  /\ UNCHANGED <<settings, item, hash, queue, cas_id, item_lock, lru_lock, pull, crawlers>>

\* Mutant: an item that has left the queues meanwhile is put back.
Unlinked_promoted(i) == ~settings.lru_maintainer_thread

\* With a maintainer, or off the queues, nothing is done.
Promoted(i) == ~settings.lru_maintainer_thread /\ item[i].linked

\* do_item_update without a maintainer: out of the queue, and in again at the head.  After
\* a get under a lock of its own, in add and incr under the lock of the command.
Relink(w) ==
  LET conn == c[w]
      i == IF conn.pc = "got" THEN conn.it ELSE conn.old
  IN
  /\ Running(w, "got") \/ Running(w, "refresh")
  /\ Promoted(i) /\ lru_lock[item[i].lru] = None
  /\ conn.pc = "got" => Lock(w, conn.key)
  /\ conn.pc = "refresh" => UNCHANGED item_lock
  /\ queue' = do_item_unlink_q(queue, item[i].lru, i)
  /\ c' = [c EXCEPT ![w].pc = IF conn.pc = "got" THEN "relink_got" ELSE "relink_refresh"]
  /\ UNCHANGED <<settings, item, hash, cas_id, lru_lock, pull, crawlers>>

RelinkDone(w) ==
  LET got == c[w].pc = "relink_got"
      i == IF got THEN c[w].it ELSE c[w].old
  IN
  /\ Running(w, "relink_got") \/ Running(w, "relink_refresh")
  /\ lru_lock[item[i].lru] = None
  /\ queue' = do_item_link_q(queue, item[i].lru, i)
  /\ IF got THEN Unlock(c[w].key) ELSE UNCHANGED item_lock
  /\ c' = [c EXCEPT ![w].pc = IF got THEN "format" ELSE "release"]
  /\ UNCHANGED <<settings, item, hash, cas_id, lru_lock, pull, crawlers>>

\* item_unlink in a delete, or in a set that found no memory: nothing happens if the
\* item has been unlinked since it was found.
item_unlink(w) ==
  LET i == c[w].it
      k == c[w].key
  IN
  /\ Running(w, "unlink") /\ item_lock[k] = None
  /\ IF item[i].linked
     THEN /\ item' = [item EXCEPT ![i].linked = FALSE]
          /\ hash' = [hash EXCEPT ![k] = None]
          /\ Lock(w, k)
     ELSE UNCHANGED <<item, hash, item_lock>>
  /\ c' = [c EXCEPT ![w].pc = IF item[i].linked THEN "unlinking" ELSE "drop",
                    ![w].told = IF c[w].cmd = "delete" THEN [@ EXCEPT !.res = "removed"] ELSE @]
  /\ UNCHANGED <<settings, queue, cas_id, lru_lock, pull, crawlers>>

UnlinkDone(w) ==
  LET i == c[w].it IN
  /\ Running(w, "unlinking") /\ lru_lock[item[i].lru] = None
  /\ queue' = do_item_unlink_q(queue, item[i].lru, i)
  /\ item' = do_item_remove(item, i)
  /\ Unlock(c[w].key)
  /\ c' = [c EXCEPT ![w].pc = "drop"]
  /\ UNCHANGED <<settings, hash, cas_id, lru_lock, pull, crawlers>>

\* The reply is out; item_remove of c->item, in conn_mwrite or reset_cmd_handler.
item_remove(w) ==
  /\ Running(w, "drop") /\ item_lock[c[w].key] = None
  /\ item' = do_item_remove(item, c[w].it)
  /\ c' = [c EXCEPT ![w] = Connection]
  /\ UNCHANGED <<settings, hash, queue, cas_id, item_lock, lru_lock, pull, crawlers>>

\* The same with no item to drop.
Replied(w) ==
  /\ Running(w, "done")
  /\ c' = [c EXCEPT ![w] = Connection]
  /\ UNCHANGED <<settings, item, hash, queue, cas_id, item_lock, lru_lock, pull, crawlers>>

(***************************************************************************)
(* Allocation                                                              *)
(***************************************************************************)
Pull(q, evict) == [q |-> q, evict |-> evict]

\* Calls of lru_pull_tail before the first attempt of do_item_alloc, and after a failed one.
FirstPulls == IF settings.lru_maintainer_thread THEN <<>> ELSE <<Pull("cold", FALSE)>>
NextPulls(last) ==
  CASE settings.lru_maintainer_thread -> <<Pull("hot", FALSE), Pull("warm", FALSE), Pull("cold", TRUE)>>
    [] ~settings.lru_maintainer_thread /\ ~last -> <<Pull("cold", TRUE), Pull("cold", FALSE)>>
    [] OTHER -> <<Pull("cold", TRUE)>>

\* The header line of a storage command: an item is allocated for the upload.
Update(w, k) ==
  /\ NewCommand(w)
  /\ c' = [c EXCEPT ![w] = [Connection EXCEPT !.pc = "alloc", !.key = k, !.todo = FirstPulls]]
  /\ UNCHANGED <<settings, item, hash, queue, cas_id, item_lock, lru_lock, pull, crawlers>>

\* do_item_alloc succeeds: for the upload, or for the result of an append or incr, which
\* then replaces the old item (do_item_replace).
slabs_alloc(w) ==
  LET conn == c[w]
      header(val, expired) == [Slabbed EXCEPT !.key = conn.key, !.val = val, !.expired = expired, !.refcount = 1,
                             !.lru = IF settings.lru_maintainer_thread THEN "hot" ELSE "cold"]
  IN
  /\ Running(w, "alloc") /\ conn.todo = <<>> /\ conn.tries < AllocTries
  /\ \E i \in Free :
       \/ /\ conn.old = None
          /\ \E v \in SetValues : item' = [item EXCEPT ![i] = header(v, FALSE)]
          /\ c' = [c EXCEPT ![w].pc = "nread", ![w].it = i, ![w].tries = 0]
          /\ UNCHANGED hash
       \/ /\ conn.old # None
          /\ item' = [item EXCEPT ![i] = header(Successor(item[conn.old].val), item[conn.old].expired),
                                  ![conn.old].linked = FALSE]
          /\ hash' = [hash EXCEPT ![conn.key] = None]
          /\ c' = [c EXCEPT ![w].pc = "swap", ![w].new = i, ![w].tries = 0]
  /\ UNCHANGED <<settings, queue, cas_id, item_lock, lru_lock, pull, crawlers>>

slabs_alloc_fails(w) ==
  /\ Running(w, "alloc") /\ c[w].todo = <<>> /\ c[w].tries < AllocTries
  /\ Free = {}
  /\ c' = [c EXCEPT ![w].tries = @ + 1, ![w].todo = NextPulls(c[w].tries + 1 = AllocTries)]
  /\ UNCHANGED <<settings, item, hash, queue, cas_id, item_lock, lru_lock, pull, crawlers>>

\* do_item_alloc gives up.  A set does not leave the old value behind (UnlinkStale).
OutOfMemory(w) ==
  /\ Running(w, "alloc") /\ c[w].todo = <<>> /\ c[w].tries = AllocTries
  /\ \E pc \in IF c[w].old # None THEN {"release"} ELSE {"done", "stale"} :
       c' = [c EXCEPT ![w].pc = pc, ![w].told = [res |-> "no_memory"], ![w].tries = 0]
  /\ UNCHANGED <<settings, item, hash, queue, cas_id, item_lock, lru_lock, pull, crawlers>>

UnlinkStale(w) == Running(w, "stale") /\ item_get(w, "set", c[w].key, "unlink", c[w].told)

\* The connection is closed before the value has come.
Abandon(w) ==
  /\ Running(w, "nread")
  /\ c' = [c EXCEPT ![w].pc = "drop"]
  /\ UNCHANGED <<settings, item, hash, queue, cas_id, item_lock, lru_lock, pull, crawlers>>

(***************************************************************************)
(* Storage commands and incr, under the item lock                          *)
(***************************************************************************)
\* The lock is taken and do_item_get called.
Enter(w, pc, k, conn) ==
  /\ Running(w, pc) /\ Lock(w, k)
  /\ do_item_get(k)
  /\ c' = [c EXCEPT ![w] = [conn EXCEPT !.pc = IF hash[k] # None /\ ~Hit(k) THEN "reap" ELSE "found",
                                        !.old = hash[k]]]
  /\ UNCHANGED <<settings, queue, cas_id, lru_lock, pull, crawlers>>

\* Bound: when MaxCas cas ids are out, clients send only commands that need none.
MayUpdate == cas_id < MaxCas

\* The value has been read: store_item.  Only now it matters which command it is for, and
\* which cas id it names: 0, that of the item stored, or an older one.  (A set, add or
\* replace of the binary protocol that names one is a cas.)
store_item(w) ==
  /\ Running(w, "nread")
  /\ \E cmd \in IF MayUpdate THEN Stores ELSE {"cas"} :
     \E unique \in IF MayUpdate /\ cmd \in {"cas", "append"} THEN 0..cas_id ELSE {0} :
       Enter(w, "nread", c[w].key, [c[w] EXCEPT !.cmd = cmd, !.unique = unique])

\* incr and decr: add_delta.  The binary protocol may name a cas id.
add_delta(w, k) ==
  /\ MayUpdate /\ \A i \in Chunks : item[i].refcount < MaxRefs
  /\ \E unique \in 0..cas_id :
       Enter(w, "new_cmd", k, [Connection EXCEPT !.cmd = "incr", !.key = k, !.unique = unique])

Found(w, cmds) == Running(w, "found") /\ c[w].cmd \in cmds

\* What the client is told.
Told(w, res) == [res |-> res, cmd |-> c[w].cmd, key |-> c[w].key, unique |-> c[w].unique]
Stored(w, v) == [res |-> "stored", cmd |-> c[w].cmd, key |-> c[w].key, unique |-> c[w].unique,
                 version |-> NextVersion(v)]

\* What do_store_item and do_add_delta refuse, but for what delta_empty refuses.
Refused(w) ==
  LET conn == c[w] IN
  CASE conn.cmd = "set" -> FALSE
    [] conn.cmd = "add" -> conn.old # None
    [] conn.cmd = "replace" -> conn.old = None
    [] conn.cmd \in {"append", "incr"} ->
         ~(conn.old # None /\ conn.unique \in {0, item[conn.old].cas})
    [] conn.cmd = "cas" -> ~(conn.old # None /\ conn.unique = item[conn.old].cas)

\* add and incr promote the item they leave in place, unless a maintainer does, or the
\* last time is less than a minute ago.
AfterUpdate == IF settings.lru_maintainer_thread THEN {"release"} ELSE {"release", "refresh"}

store_refused(w) ==
  /\ Found(w, Stores \cup {"incr"}) /\ Refused(w)
  /\ \E pc \in IF c[w].cmd = "add" THEN AfterUpdate ELSE {"release"} :
       c' = [c EXCEPT ![w].told = Told(w, "refused"), ![w].pc = pc]
  /\ UNCHANGED <<settings, item, hash, queue, cas_id, item_lock, lru_lock, pull, crawlers>>

\* do_item_replace, or do_item_link when there is nothing to replace.
store_link(w) ==
  LET old == c[w].old IN
  /\ Found(w, {"set", "add", "replace", "cas"}) /\ ~Refused(w)
  /\ IF old = None THEN UNCHANGED <<item, hash>>
     ELSE /\ item' = [item EXCEPT ![old].linked = FALSE]
          /\ hash' = [hash EXCEPT ![c[w].key] = None]
  /\ c' = [c EXCEPT ![w].pc = IF old = None THEN "link" ELSE "swap"]
  /\ UNCHANGED <<settings, queue, cas_id, item_lock, lru_lock, pull, crawlers>>

\* append, prepend, or an incr that cannot be done in place: a third item is allocated.
Combine(w) ==
  c' = [c EXCEPT ![w].pc = "alloc", ![w].todo = FirstPulls]

store_append(w) ==
  /\ Found(w, {"append"}) /\ ~Refused(w)
  /\ Combine(w)
  /\ UNCHANGED <<settings, item, hash, queue, cas_id, item_lock, lru_lock, pull, crawlers>>

\* A value that is not a number.
delta_empty(w) ==
  /\ Found(w, {"incr"}) /\ ~Refused(w) /\ item[c[w].old].val = Empty
  /\ c' = [c EXCEPT ![w].told = Told(w, "refused"), ![w].pc = "release"]
  /\ UNCHANGED <<settings, item, hash, queue, cas_id, item_lock, lru_lock, pull, crawlers>>

\* Mutant: the value is overwritten although others read it.
AnyInPlace(i) == Successor(item[i].val) # MaxVal

\* The value is overwritten where it is if nobody else refers to the item.  The greatest
\* number has one digit more than the others.
InPlace(i) == item[i].refcount = 2 /\ Successor(item[i].val) # MaxVal

delta_in_place(w) ==
  LET i == c[w].old IN
  /\ Found(w, {"incr"}) /\ ~Refused(w) /\ item[i].val # Empty /\ InPlace(i)
  /\ cas_id' = cas_id + 1
  /\ item' = [item EXCEPT ![i].val = Successor(@), ![i].cas = cas_id + 1, ![i].ver = cas_id + 1]
  /\ \E pc \in AfterUpdate :
       c' = [c EXCEPT ![w].told = Stored(w, Successor(item[i].val)), ![w].pc = pc]
  /\ UNCHANGED <<settings, hash, queue, item_lock, lru_lock, pull, crawlers>>

delta_replace(w) ==
  LET i == c[w].old IN
  /\ Found(w, {"incr"}) /\ ~Refused(w) /\ item[i].val # Empty
  /\ ~InPlace(i)
  /\ Combine(w)
  /\ UNCHANGED <<settings, item, hash, queue, cas_id, item_lock, lru_lock, pull, crawlers>>

\* do_item_unlink of the old item: its queue, and the reference of the table.
Swap(w) ==
  LET i == c[w].old IN
  /\ Running(w, "swap") /\ lru_lock[item[i].lru] = None
  /\ queue' = do_item_unlink_q(queue, item[i].lru, i)
  /\ item' = do_item_remove(item, i)
  /\ c' = [c EXCEPT ![w].pc = "link"]
  /\ UNCHANGED <<settings, hash, cas_id, item_lock, lru_lock, pull, crawlers>>

\* An incr gives the item it replaced the cas id of the new one, to answer with.
do_item_link(w) ==
  LET conn == c[w]
      i == IF conn.new # None THEN conn.new ELSE conn.it
      linked == [item EXCEPT ![i].linked = TRUE, ![i].cas = cas_id + 1, ![i].ver = cas_id + 1,
                             ![i].refcount = @ + 1]
  IN
  /\ Running(w, "link") /\ lru_lock[item[i].lru] = None
  /\ cas_id' = cas_id + 1
  /\ item' = IF conn.cmd = "incr" THEN [linked EXCEPT ![conn.old].cas = cas_id + 1] ELSE linked
  /\ hash' = [hash EXCEPT ![conn.key] = i]
  /\ queue' = do_item_link_q(queue, item[i].lru, i)
  /\ c' = [c EXCEPT ![w].told = Stored(w, item[i].val),
                    ![w].pc = "release"]
  /\ UNCHANGED <<settings, item_lock, lru_lock, pull, crawlers>>

\* For a value of no bytes do_add_delta returns early, past the do_item_remove of the item
\* it has found, whatever the cas id; for a text it does not.
Leaks(w) ==
  /\ c[w].cmd = "incr" /\ c[w].told.res = "refused"
  /\ c[w].old # None /\ item[c[w].old].val = Empty

\* do_item_remove of the old and the new item, and the item lock; then the answer.
Release(w) ==
  /\ Running(w, "release")
  /\ \E old \in {c[w].old} \cup (IF Leaks(w) THEN {None} ELSE {}) :
       item' = drop(drop(item, old), c[w].new)
  /\ Unlock(c[w].key)
  /\ c' = [c EXCEPT ![w] = IF c[w].it = None THEN Connection
                            ELSE [Connection EXCEPT !.pc = "drop", !.key = c[w].key, !.it = c[w].it]]
  /\ UNCHANGED <<settings, hash, queue, cas_id, lru_lock, pull, crawlers>>

(***************************************************************************)
(* lru_pull_tail, of the maintainer or of a worker that needs memory       *)
(***************************************************************************)
PullStart(t, q, evict, cur) ==
  /\ pull[t] = None /\ lru_lock[q] = None
  /\ IF queue[q] = <<>> THEN UNCHANGED <<lru_lock, pull>>
     ELSE /\ lru_lock' = [lru_lock EXCEPT ![q] = t]
          /\ pull' = [pull EXCEPT ![t] = [q |-> q, evict |-> evict, cur |-> cur, tries |-> Tries,
                        search |-> Last(queue[q]), it |-> None, move |-> None]]

\* The maintainer, which pulls the tails of its queues in turn.
lru_maintainer_juggle ==
  /\ settings.lru_maintainer_thread
  /\ \E q \in Queues : PullStart("maintainer", q, FALSE, None)
  /\ UNCHANGED <<settings, item, hash, queue, cas_id, item_lock, c, crawlers>>

\* A worker in do_item_alloc; it holds an item lock if it allocates for an append or incr.
AllocPull(w) ==
  /\ Running(w, "alloc") /\ c[w].todo # <<>>
  /\ PullStart(w, Head(c[w].todo).q, Head(c[w].todo).evict, IF c[w].old = None THEN None ELSE c[w].key)
  /\ c' = [c EXCEPT ![w].todo = Tail(@)]
  /\ UNCHANGED <<settings, item, hash, queue, cas_id, item_lock, crawlers>>

\* The entry before the one looked at, towards the head.
Before(q, s) ==
  LET n == PlaceOf(queue[q], s)
  IN  IF n = 1 THEN None ELSE queue[q][n - 1]

\* To the next entry, or to the end of the walk.
Advance(t, cost) ==
  LET q == pull[t].q
      next == Before(q, pull[t].search)
      tries == pull[t].tries - cost
  IN
  IF next = None \/ tries = 0
  THEN lru_lock' = [lru_lock EXCEPT ![q] = None] /\ pull' = [pull EXCEPT ![t] = None]
  ELSE pull' = [pull EXCEPT ![t].search = next, ![t].tries = tries] /\ UNCHANGED lru_lock

Looking(t) == pull[t] # None /\ pull[t].it = None

\* A crawler, an item of the key at hand, or one whose lock is taken.
PullSkip(t) ==
  LET s == pull[t].search IN
  /\ Looking(t)
  /\ \/ s = "crawler" /\ Advance(t, 0)
     \/ /\ s # "crawler"
        /\ item[s].key = pull[t].cur \/ item_lock[item[s].key] # None
        /\ Advance(t, 1)
  /\ UNCHANGED <<settings, item, hash, queue, cas_id, item_lock, c, crawlers>>

\* item_trylock and refcount_incr have succeeded.
Tried(t) ==
  LET s == pull[t].search IN
  Looking(t) /\ s # "crawler" /\ item[s].key # pull[t].cur /\ item_lock[item[s].key] = None

PullReap(t) ==
  LET s == pull[t].search IN
  /\ Tried(t) /\ Expired(s)
  /\ hash' = [hash EXCEPT ![item[s].key] = None]
  /\ queue' = do_item_unlink_q(queue, pull[t].q, s)
  /\ item' = do_item_remove(Unlinked(refcount_incr(item, s), s), s)
  /\ Advance(t, 1)
  /\ UNCHANGED <<settings, cas_id, item_lock, c, crawlers>>

Full(q) == q # "cold" /\ sizes(q) > LruLimit

\* A recently used item of a queue that is not too long stays; if it has been used long
\* enough after it was linked it moves to the head.
PullActive(t) ==
  LET s == pull[t].search
      q == pull[t].q
  IN
  /\ Tried(t) /\ ~Expired(s) /\ q # "cold" /\ ~Full(q) /\ item[s].active
  /\ item' = [item EXCEPT ![s].active = FALSE]
  /\ \/ UNCHANGED queue
     \/ queue' = do_item_link_q(do_item_unlink_q(queue, q, s), q, s)
  /\ Advance(t, 1)
  /\ UNCHANGED <<settings, hash, cas_id, item_lock, c, crawlers>>

\* The walk ends with this item, in hand with its lock: it is on its way to another
\* queue, evicted, or nothing.
PullTake(t) ==
  LET s == pull[t].search
      q == pull[t].q
      move == CASE Full(q) -> "cold"
                [] q = "cold" /\ ~pull[t].evict /\ item[s].active /\ settings.lru_maintainer_thread -> "warm"
                [] OTHER -> None
      evicts == q = "cold" /\ pull[t].evict
      taken == [refcount_incr(item, s) EXCEPT ![s].active = IF move = "warm" THEN FALSE ELSE @]
  IN
  /\ Tried(t) /\ ~Expired(s)
  /\ q = "cold" \/ Full(q) \/ ~item[s].active
  /\ queue' = IF evicts \/ move # None THEN do_item_unlink_q(queue, q, s) ELSE queue
  /\ item' = IF evicts THEN Unlinked(taken, s) ELSE taken
  /\ hash' = IF evicts THEN [hash EXCEPT ![item[s].key] = None] ELSE hash
  /\ Lock(t, item[s].key)
  /\ pull' = [pull EXCEPT ![t].it = s, ![t].move = move]
  /\ lru_lock' = [lru_lock EXCEPT ![q] = None]
  /\ UNCHANGED <<settings, cas_id, c, crawlers>>

PullFinish(t) ==
  LET s == pull[t].it
      q == pull[t].move
  IN
  /\ pull[t] # None /\ s # None
  /\ \/ q = None /\ UNCHANGED queue /\ item' = do_item_remove(item, s)
     \/ /\ q # None /\ lru_lock[q] = None
        /\ queue' = do_item_link_q(queue, q, s)
        /\ item' = do_item_remove([item EXCEPT ![s].lru = q], s)
  /\ Unlock(item[s].key)
  /\ pull' = [pull EXCEPT ![t] = None]
  /\ UNCHANGED <<settings, hash, cas_id, lru_lock, c, crawlers>>

(***************************************************************************)
(* The crawler                                                             *)
(***************************************************************************)
\* Without a maintainer the other queues are empty.
Lrus == IF settings.lru_maintainer_thread THEN <<"hot", "warm", "cold">> ELSE <<"cold">>

\* A crawl of the class is asked for, by the maintainer or a command, which gets
\* lru_crawler_lock only while no crawler runs.
lru_crawler_start ==
  /\ settings.lru_crawler
  /\ crawlers = [asked |-> <<>>, running |-> {}]
  /\ crawlers' = [crawlers EXCEPT !.asked = Lrus]
  /\ UNCHANGED <<settings, item, hash, queue, cas_id, item_lock, lru_lock, c, pull>>

\* One queue of do_lru_crawler_start: the crawler joins at the tail.
do_lru_crawler_start(q) ==
  /\ crawlers.asked # <<>> /\ q = Head(crawlers.asked) /\ lru_lock[q] = None
  /\ crawlers' = [asked |-> Tail(crawlers.asked),
                  running |-> crawlers.running \cup (IF queue[q] = <<>> THEN {} ELSE {q})]
  /\ queue' = IF queue[q] = <<>> THEN queue ELSE [queue EXCEPT ![q] = Append(@, "crawler")]
  /\ UNCHANGED <<settings, item, hash, cas_id, item_lock, lru_lock, c, pull>>

Crawling(q) == crawlers.asked = <<>> /\ q \in crawlers.running /\ lru_lock[q] = None

\* The crawler changes places with the item before it.
crawler_crawl_q(q) ==
  LET s == Before(q, "crawler") IN
  [n \in DOMAIN queue[q] |-> CASE queue[q][n] = "crawler" -> s
                               [] queue[q][n] = s -> "crawler"
                               [] OTHER -> queue[q][n]]

\* Nobody else holds the item, nor can come by a reference to it.
Exclusive(s) == item_lock[item[s].key] = None /\ item[s].refcount = 1

CrawlPass(q) ==
  LET s == Before(q, "crawler") IN
  /\ Crawling(q) /\ s # None
  /\ ~Exclusive(s) \/ ~Expired(s)
  /\ queue' = [queue EXCEPT ![q] = crawler_crawl_q(q)]
  /\ UNCHANGED <<settings, item, hash, cas_id, item_lock, lru_lock, c, pull, crawlers>>

\* item_crawler_evaluate of an expired item.
CrawlReap(q) ==
  LET s == Before(q, "crawler") IN
  /\ Crawling(q) /\ s # None
  /\ Exclusive(s) /\ Expired(s)
  /\ hash' = [hash EXCEPT ![item[s].key] = None]
  /\ queue' = do_item_unlink_q([queue EXCEPT ![q] = crawler_crawl_q(q)], q, s)
  /\ item' = do_item_remove(Unlinked(refcount_incr(item, s), s), s)
  /\ UNCHANGED <<settings, cas_id, item_lock, lru_lock, c, pull, crawlers>>

CrawlDone(q) ==
  /\ Crawling(q) /\ Before(q, "crawler") = None
  /\ queue' = [queue EXCEPT ![q] = Tail(@)]
  /\ crawlers' = [crawlers EXCEPT !.running = @ \ {q}]
  /\ UNCHANGED <<settings, item, hash, cas_id, item_lock, lru_lock, c, pull>>

\* Time passes.
Age(i) ==
  /\ item[i].refcount > 0 /\ ~Expired(i)
  /\ item' = [item EXCEPT ![i].expired = TRUE]
  /\ UNCHANGED <<settings, hash, queue, cas_id, item_lock, lru_lock, c, pull, crawlers>>

-----------------------------------------------------------------------------
Command(w) ==
  \/ \E k \in Keys : Get(w, k) \/ Delete(w, k) \/ Update(w, k) \/ add_delta(w, k)
  \/ Abandon(w)

Serve(w) ==
  \/ Reap(w) \/ Format(w) \/ Relink(w) \/ RelinkDone(w) \/ item_unlink(w) \/ UnlinkDone(w)
  \/ item_remove(w) \/ Replied(w)
  \/ AllocPull(w) \/ slabs_alloc(w) \/ slabs_alloc_fails(w) \/ OutOfMemory(w) \/ UnlinkStale(w)
  \/ store_item(w) \/ store_refused(w) \/ store_link(w) \/ store_append(w)
  \/ delta_empty(w) \/ delta_in_place(w) \/ delta_replace(w)
  \/ Swap(w) \/ do_item_link(w) \/ Release(w)

lru_pull_tail(t) ==
  PullSkip(t) \/ PullReap(t) \/ PullActive(t) \/ PullTake(t) \/ PullFinish(t)

Crawl(q) == do_lru_crawler_start(q) \/ CrawlPass(q) \/ CrawlReap(q) \/ CrawlDone(q)

Next ==
  \/ \E w \in Workers : Command(w) \/ Serve(w)
  \/ \E t \in DOMAIN pull : lru_pull_tail(t)
  \/ lru_maintainer_juggle
  \/ lru_crawler_start \/ \E q \in Queues : Crawl(q)
  \/ \E i \in Chunks : Age(i)

Spec == Init /\ [][Next]_vars

-----------------------------------------------------------------------------
(***************************************************************************)
(* Properties                                                              *)
(***************************************************************************)
LastCas == MaxCas + Cardinality(Keys) - 1

Header ==
  [key : Keys \cup {None}, val : (0..MaxVal) \cup {Empty}, cas : 0..LastCas, ver : 0..LastCas,
   expired : BOOLEAN, lru : Queues \cup {"none"},
   linked : BOOLEAN, active : BOOLEAN, refcount : 0..(MaxRefs + 3 * Cardinality(Workers) + 2)]

\* Counters stay in range, and locks are held by threads.
TypeOK ==
  /\ settings \in Settings
  /\ item \in [Chunks -> Header]
  /\ hash \in [Keys -> Chunks \cup {None}]
  /\ \A q \in Queues : queue[q] \in Seq(Chunks \cup {"crawler"})
  /\ cas_id \in 0..LastCas
  /\ item_lock \in [Keys -> Threads \cup {None}]
  /\ lru_lock \in [Queues -> Threads \cup {None}]

Places(q, i) == Cardinality({n \in DOMAIN queue[q] : queue[q][n] = i})
Queued(i) == \E q \in Queues : Places(q, i) > 0
InHand(i) ==
  Cardinality({w \in Workers : c[w].it = i}) + Cardinality({w \in Workers : c[w].old = i})
  + Cardinality({w \in Workers : c[w].new = i})
  + Cardinality({t \in DOMAIN pull : pull[t] # None /\ pull[t].it = i})

\* A reference count is the number of those who hold the item, plus one while it is
\* linked or queued: nothing is freed under a command, a reply on its way, a walker or the
\* crawler, and what nobody holds is free.  Only items of no bytes may count too many:
\* do_add_delta leaks a reference.
RefsCounted ==
  /\ TypeOK
  /\ \A i \in Chunks :
       LET refs == InHand(i) + (IF item[i].linked \/ Queued(i) THEN 1 ELSE 0) IN
       \/ item[i].refcount = refs
       \/ item[i].refcount > refs /\ item[i].val = Empty

\* Whenever nobody is inside a command on a key, what is linked under it is in exactly one
\* queue, at one place, and nothing else of that key is in any: hash table and queues,
\* changed under different locks, never drift apart.  A crawler is in a queue exactly while
\* it runs there.
TableMatchesQueues ==
  /\ \A i \in Chunks :
       item[i] # Slabbed /\ item_lock[item[i].key] = None =>
         /\ item[i].linked <=> hash[item[i].key] = i
         /\ \A q \in Queues : Places(q, i) = IF item[i].linked /\ q = item[i].lru THEN 1 ELSE 0
  /\ \A q \in Queues : Places(q, "crawler") = IF q \in crawlers.running THEN 1 ELSE 0

\* The clients' view.  While a worker holds the lock of a key whose item it has found, that
\* item is what is stored, in the table or not.  (It may hold the lock of another key too,
\* of an item in its way when it needs memory.)
StoredVersion(k) ==
  LET updaters == {w \in Workers : /\ Holds(w, k) /\ c[w].key = k /\ c[w].pc # "reap"
                                   /\ c[w].old # None /\ hash[k] \in {None, c[w].old}}
  IN
  CASE updaters # {} -> version(c[CHOOSE w \in updaters : TRUE].old)
    [] updaters = {} /\ Hit(k) -> version(hash[k])
    [] OTHER -> None

\* What a reply says is read from the item until it has been sent.
Answer(w) ==
  LET told == c[w].told IN
  IF told = None \/ told.res \notin {"hit", "miss", "removed"} THEN told
  ELSE [res |-> told.res, key |-> told.key,
        version |-> IF told.res = "miss" THEN None ELSE version(c[w].it)]

Promised == INSTANCE VersionedStore WITH
  store <- [k \in Keys |-> StoredVersion(k)],
  last <- cas_id,
  told <- [w \in Workers |-> Answer(w)]

\* Commands of several clients take effect one after the other, on versions that vanish but
\* never come back, however eviction, expiry and crawler interleave; and the data of a reply
\* does not change while it is being sent, although an incr may write in place.
StoreIsVersioned == Promised!Spec
=============================================================================
