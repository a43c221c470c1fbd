----------------------------- MODULE ReuseProfile -----------------------------
(***************************************************************************)
(* What the profiler learns from a request (rd-trace/rd_trace.cc): for     *)
(* every slab class the items in the order of their last use, and the      *)
(* histogram of the reuse distances of the gets in the measured window.    *)
(*                                                                         *)
(* A key stands for its hash value, which is all the profiler sees, and    *)
(* for the tree node that keyNodeMap remembers with its class.  A tree is  *)
(* the list it implements (ReuseTree refines RecencyList).                 *)
(***************************************************************************)
EXTENDS Integers, FiniteSets, SequencesExt

CONSTANTS
    Key,
    Class,
    Unknown,                 \* the class of a key that is not in keyNodeMap
    warmup_len,              \* WARMUP_LEN and PROF_LEN of the environment
    prof_len

ASSUME LengthsAssumption ==
    /\ warmup_len \in Nat /\ prof_len \in Nat
    /\ warmup_len < prof_len

ASSUME UnknownAssumption == Unknown \notin Class

VARIABLES
    enable_trace,            \* requests are recorded
    enable_measure,          \* the window is measured
    ltime,                   \* gets profiled so far
    get_count,               \* gets measured so far
    keyNodeMap,              \* key -> the class whose tree holds it, or Unknown
    rd_tree,                 \* class -> its keys, least recently used first
    rd_hist                  \* class -> a vector, rd_hist[c][rd + 1] gets at rd

window == <<enable_trace, enable_measure, ltime, get_count>>
profile == <<window, keyNodeMap, rd_tree, rd_hist>>

\* GetDistance of the key's node: RecencyList's Distance, for the tree of the class.
Distance(k) ==
    LET list == rd_tree[keyNodeMap[k]]
    IN  Len(list) + 1 - CHOOSE i \in DOMAIN list : list[i] = k

InitProfile ==               \* set_enable_trace, start_warmup
    /\ enable_trace = TRUE
    /\ enable_measure = FALSE
    /\ ltime = 0
    /\ get_count = 0
    /\ keyNodeMap = [k \in Key |-> Unknown]
    /\ rd_tree = [c \in Class |-> <<>>]
    /\ rd_hist = [c \in Class |-> <<>>]

\* The key's node leaves the tree that held it and enters that of c as the last.
MoveToTail(k, c) ==
    /\ keyNodeMap' = [keyNodeMap EXCEPT ![k] = c]
    /\ rd_tree' = [[d \in Class |-> IF d = keyNodeMap[k] THEN RemoveFirst(rd_tree[d], k)
                                                        ELSE rd_tree[d]]
                      EXCEPT ![c] = Append(@, k)]

\* The vector grows to twice what it must hold, and counts one get at rd.
Counted(hist, rd) ==
    LET size  == IF Len(hist) <= rd THEN 2 * (rd + 1) ELSE Len(hist)
        grown == [i \in 1 .. size |-> IF i <= Len(hist) THEN hist[i] ELSE 0]
    IN  [grown EXCEPT ![rd + 1] = @ + 1]

profile_set(k, c) ==
    /\ MoveToTail(k, c)
    /\ UNCHANGED <<window, rd_hist>>

\* Mutant: the distance is read after the key was moved.
RecordAfterMove(k) ==
    LET c == keyNodeMap[k]
    IN  IF c = Unknown
        THEN UNCHANGED <<keyNodeMap, rd_tree, rd_hist>>
        ELSE /\ rd_hist' = IF enable_measure' THEN [rd_hist EXCEPT ![c] = Counted(@, 1)]
                                              ELSE rd_hist
             /\ MoveToTail(k, c)

\* A get of a key that was never stored is counted and not recorded.
RecordGet(k) ==
    LET c == keyNodeMap[k]
    IN  IF c = Unknown
        THEN UNCHANGED <<keyNodeMap, rd_tree, rd_hist>>
        ELSE /\ rd_hist' = IF enable_measure'
                           THEN [rd_hist EXCEPT ![c] = Counted(@, Distance(k))]
                           ELSE rd_hist
             /\ MoveToTail(k, c)

\* The get that ends the window, which is itself not profiled.
LastGet ==
    /\ ltime + 1 = prof_len
    /\ ltime' = ltime + 1
    /\ enable_trace' = FALSE                                   \* stop_tracing
    /\ UNCHANGED <<enable_measure, get_count, keyNodeMap, rd_tree, rd_hist>>

\* Mutant: the window does not end.
NoLastGet(k) ==
    /\ ltime' = ltime + 1
    /\ enable_measure' = (enable_measure \/ ltime + 1 = warmup_len)
    /\ get_count' = IF enable_measure' THEN get_count + 1 ELSE get_count
    /\ RecordGet(k)
    /\ UNCHANGED enable_trace

\* Mutant: the get that ends the warmup is not measured.
MeasureLate(k) ==
    /\ ltime + 1 # prof_len
    /\ ltime' = ltime + 1
    /\ enable_measure' = (enable_measure \/ ltime + 1 = warmup_len)
    /\ get_count' = IF enable_measure THEN get_count + 1 ELSE get_count
    /\ RecordGet(k)
    /\ UNCHANGED enable_trace

\* The get that ends the warmup starts the measure (start_tracing) and is the
\* first one measured.
WindowGet(k) ==
    /\ ltime + 1 # prof_len
    /\ ltime' = ltime + 1
    /\ enable_measure' = (enable_measure \/ ltime + 1 = warmup_len)
    /\ get_count' = IF enable_measure' THEN get_count + 1 ELSE get_count
    /\ RecordGet(k)
    /\ UNCHANGED enable_trace

profile_get(k) == LastGet \/ WindowGet(k)

TypeOK ==
    /\ enable_trace \in BOOLEAN /\ enable_measure \in BOOLEAN
    /\ ltime \in 0 .. prof_len /\ get_count \in 0 .. prof_len
    /\ keyNodeMap \in [Key -> Class \cup {Unknown}]
    /\ rd_tree \in [Class -> Seq(Key)]
    /\ rd_hist \in [Class -> Seq(Nat)]

\* keyNodeMap and the trees agree: a key is in the tree of the class the map
\* gives, once, and in no other, so no get reads a node that was deleted.
TreesMatchMap ==
    \A k \in Key, c \in Class :
        Cardinality({i \in DOMAIN rd_tree[c] : rd_tree[c][i] = k})
            = IF keyNodeMap[k] = c THEN 1 ELSE 0

================================================================================
