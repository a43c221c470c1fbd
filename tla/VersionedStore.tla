--------------------------- MODULE VersionedStore ---------------------------
(***************************************************************************)
(* What memcached-dyn promises its clients: a map from keys to versions,   *)
(* where a command takes effect at one moment between its start and its    *)
(* answer, and versions may vanish (evicted, expired) and never come back. *)
(* A delete is two moments, as in the program: it looks the key up, and    *)
(* removes the version it found, if that is still the one stored.          *)
(***************************************************************************)
EXTENDS Integers

CONSTANTS
  Workers,   \* those who serve commands
  Keys,
  MaxVal,    \* the greatest number a value can be
  Empty,     \* a value that is not a number
  None

VARIABLES
  store,     \* the version of each key, or None
  last,      \* number of the last version
  told       \* the answer a worker is giving, or None

storeVars == <<store, last, told>>

Init ==
  /\ store = [k \in Keys |-> None]
  /\ last = 0
  /\ told = [w \in Workers |-> None]

Answer(w, a) == told[w] = None /\ told' = [told EXCEPT ![w] = a]

\* get, touch, and the first half of a delete.
Find(w, k) ==
  /\ Answer(w, [res |-> IF store[k] = None THEN "miss" ELSE "hit",
                key |-> k, version |-> store[k]])
  /\ UNCHANGED <<store, last>>

\* The second half: what is stored now stays, unless it is what was found.
Remove(w, k) ==
  /\ told[w] # None /\ told[w].res = "hit" /\ told[w].key = k
  /\ told' = [told EXCEPT ![w].res = "removed"]
  /\ store' = [store EXCEPT ![k] = IF @ = told[w].version THEN None ELSE @]
  /\ UNCHANGED last

\* Which commands write, given what is stored and the version they name (0: none).
Allowed(cmd, k, unique) ==
  CASE cmd = "set" -> TRUE
    [] cmd = "add" -> store[k] = None
    [] cmd = "replace" -> store[k] # None
    [] cmd = "append" -> store[k] # None /\ unique \in {0, store[k].ver}
    [] cmd = "incr" -> store[k] # None /\ store[k].val # Empty /\ unique \in {0, store[k].ver}
    [] cmd = "cas" -> store[k] # None /\ store[k].ver = unique

\* The value they write: incr and append build on the stored one.
Written(cmd, k, v) ==
  IF cmd \in {"incr", "append"} THEN (store[k].val + 1) % (MaxVal + 1) ELSE v

\* The new version may have expired on arrival.
Write(w, cmd, k, v, unique) ==
  LET version == [val |-> Written(cmd, k, v), ver |-> last + 1] IN
  /\ Allowed(cmd, k, unique)
  /\ last' = last + 1
  /\ \E s \in {version, None} : store' = [store EXCEPT ![k] = s]
  /\ Answer(w, [res |-> "stored", cmd |-> cmd, key |-> k, version |-> version, unique |-> unique])

Refuse(w, cmd, k, unique) ==
  /\ ~Allowed(cmd, k, unique)
  /\ Answer(w, [res |-> "refused", cmd |-> cmd, key |-> k, unique |-> unique])
  /\ UNCHANGED <<store, last>>

Fail(w) ==
  /\ Answer(w, [res |-> "no_memory"])
  /\ UNCHANGED <<store, last>>

Vanish(K) == store' = [k \in Keys |-> IF k \in K THEN None ELSE store[k]]

\* What an answer was about may be gone when it has been given.
Answered(w) ==
  /\ told[w] # None
  /\ told' = [told EXCEPT ![w] = None]
  /\ \E K \in SUBSET Keys : Vanish(K)
  /\ UNCHANGED last

Next ==
  \/ \E K \in SUBSET Keys : Vanish(K) /\ UNCHANGED <<last, told>>
  \/ \E w \in Workers : Fail(w) \/ Answered(w)
  \/ \E w \in Workers, k \in Keys :
       \/ Find(w, k) \/ Remove(w, k)
       \/ \E cmd \in {"set", "add", "replace", "append", "incr", "cas"}, u \in 0..last :
            Refuse(w, cmd, k, u) \/ \E v \in (0..MaxVal) \cup {Empty} : Write(w, cmd, k, v, u)

Spec == Init /\ [][Next]_storeVars
=============================================================================
