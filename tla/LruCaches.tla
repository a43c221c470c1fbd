------------------------------- MODULE LruCaches -------------------------------
(***************************************************************************)
(* What the histograms are for: caches that share the requests with the    *)
(* profiler.  For every class and capacity there is one LRU queue of that  *)
(* many items, which is what the class would hold with that much memory,   *)
(* and a client that stores again what it missed (mutilate's -L 1).  No    *)
(* such cache runs; they are the reference a histogram is held against.    *)
(***************************************************************************)
EXTENDS ReuseProfile

CONSTANT Capacity

ASSUME CapacityAssumption == Capacity \subseteq Nat \ {0}

VARIABLES
    resident,                \* resident[c][n]: the keys of the queue, oldest first
    hits,                    \* hits[c][n]: measured gets that found their key
    moved                    \* some key has been stored in two classes

lruVars == <<profile, resident, hits, moved>>

\* Using an item makes it the youngest; the oldest is evicted for the room.
Use(queue, k, n) ==
    LET q == Append(RemoveFirst(queue, k), k)
    IN  IF Len(q) > n THEN Tail(q) ELSE q

InitLru ==
    /\ InitProfile
    /\ resident = [c \in Class |-> [n \in Capacity |-> <<>>]]
    /\ hits = [c \in Class |-> [n \in Capacity |-> 0]]
    /\ moved = FALSE

Set(k, c) ==
    /\ enable_trace
    /\ profile_set(k, c)
    /\ resident' = [d \in Class |-> [n \in Capacity |->
                        IF d = c THEN Use(resident[d][n], k, n)
                                 ELSE RemoveFirst(resident[d][n], k)]]
    /\ moved' = (moved \/ keyNodeMap[k] \notin {c, Unknown})
    /\ UNCHANGED hits

Get(k) ==
    LET c == keyNodeMap[k]
    IN  /\ enable_trace
        /\ profile_get(k)
        /\ IF c = Unknown \/ ~enable_trace'
           THEN UNCHANGED <<resident, hits>>
           ELSE /\ resident' = [resident EXCEPT ![c] =
                                   [n \in Capacity |-> Use(@[n], k, n)]]
                /\ hits' = [hits EXCEPT ![c] = [n \in Capacity |->
                               @[n] + IF enable_measure' /\ k \in ToSet(resident[c][n])
                                      THEN 1 ELSE 0]]
        /\ UNCHANGED moved

NextLru == \E k \in Key : Get(k) \/ \E c \in Class : Set(k, c)

SpecLru == InitLru /\ [][NextLru]_lruVars

--------------------------------------------------------------------------------
\* Measured gets of the class at a distance of at most n.
Predicted(c, n) ==
    SumFunctionOnSet(rd_hist[c], {i \in DOMAIN rd_hist[c] : i - 1 <= n})

\* A get is predicted to hit in n items exactly when an LRU queue of n items has
\* the key, as long as every key stays in its class: one histogram is right for
\* all cache sizes at once.  When keys change class it can only be too optimistic:
\* the tree closes the gap an item leaves behind, and a queue has nothing to fill
\* it with.  No distance is one of a node that was deleted: keyNodeMap and the
\* trees agree.
HistogramIsLru ==
    /\ TreesMatchMap
    /\ \A c \in Class, n \in Capacity :
           /\ hits[c][n] <= Predicted(c, n)
           /\ ~moved => hits[c][n] = Predicted(c, n)

================================================================================
