-------------------------------- MODULE Profiler --------------------------------
(***************************************************************************)
(* The online profiler around the profile: workers put requests on a       *)
(* queue, one consumer thread profiles them, and when the window has ended *)
(* it turns the histograms into the miss ratio curve, from which a linear  *)
(* program takes the cache size that slabs_deallocate is asked to reach.   *)
(*                                                                         *)
(* A worker reads enable_trace and pushes in two steps, so a push may come *)
(* after the trace was stopped.  enable_trace and enable_measure are       *)
(* written by the consumer only, and a request it has popped is its own:   *)
(* taking one and profiling it is a single step.                           *)
(***************************************************************************)
EXTENDS ReuseProfile

CONSTANTS
    Worker,
    NoRequest,
    QueueBound,              \* bound on the queue, which the code lets grow
    SlabBytes,               \* 1 << 20 in the code
    Word,                    \* 2^32: unsigned arithmetic wraps
    FirstSize,               \* 32: the first cache size tried, in slabs
    chunk_size,              \* bytes of an item of each class
    SlabCounts               \* the slabs a class may hold when the curve is made

ASSUME CurveAssumption ==
    /\ IsFiniteSet(Class)
    /\ {QueueBound, SlabBytes, Word, FirstSize} \subseteq Nat \ {0}
    /\ FirstSize < Word
    /\ chunk_size \in [Class -> 1 .. SlabBytes]
    /\ SlabCounts \subseteq Nat

VARIABLES
    pending,                 \* the request a worker is about to push
    reque,
    consumer,                \* where the consumer thread is
    slab_count,              \* compute_mrc: the slabs of each class, as it read them
    index,                   \* compute_mrc: the buckets of each class walked so far
    misses,
    cache_size_base,
    cache_size_power,
    mrc                      \* cache size in slabs -> misses

curve == <<slab_count, index, misses, cache_size_base, cache_size_power, mrc>>
vars == <<profile, pending, reque, consumer, curve>>

\* What reque holds; the class is that of the item being stored.
Request == [type : {"get"}, hv : Key] \cup [type : {"set"}, hv : Key, new_clsid : Class]

ASSUME WorkersAssumption == IsFiniteSet(Worker) /\ NoRequest \notin Request

Init ==
    /\ InitProfile
    /\ pending = [w \in Worker |-> NoRequest]
    /\ reque = <<>>
    /\ consumer = "sleep"
    /\ slab_count = [c \in Class |-> 0]
    /\ index = [c \in Class |-> 0]
    /\ misses = 0
    /\ cache_size_base = 0 /\ cache_size_power = 0
    /\ mrc = <<>>

(***************************************************************************)
(* Workers.                                                                *)
(***************************************************************************)
\* Mutant: the requests of the whole run are traced.
TraceUntested(w, req) ==
    /\ pending[w] = NoRequest
    /\ pending' = [pending EXCEPT ![w] = req]
    /\ UNCHANGED <<profile, reque, consumer, curve>>

\* rd_trace_get and rd_trace_set: the request is made when the trace is on.
Trace(w, req) ==
    /\ pending[w] = NoRequest
    /\ enable_trace
    /\ pending' = [pending EXCEPT ![w] = req]
    /\ UNCHANGED <<profile, reque, consumer, curve>>

reque_push(w) ==
    /\ pending[w] # NoRequest
    /\ Len(reque) < QueueBound
    /\ reque' = Append(reque, pending[w])
    /\ pending' = [pending EXCEPT ![w] = NoRequest]
    /\ UNCHANGED <<profile, consumer, curve>>

(***************************************************************************)
(* consume_reque.                                                          *)
(***************************************************************************)
Wake ==                      \* sleep(2) is over
    /\ consumer = "sleep"
    /\ consumer' = "poll"
    /\ UNCHANGED <<profile, pending, reque, curve>>

Poll ==
    /\ consumer = "poll"
    /\ enable_trace \/ reque # <<>>
    /\ consumer' = "drain"
    /\ UNCHANGED <<profile, pending, reque, curve>>

PopAndProfile ==
    /\ consumer = "drain" /\ reque # <<>>
    /\ reque' = Tail(reque)
    /\ LET req == Head(reque)
       IN  IF ~enable_trace THEN UNCHANGED profile
           ELSE IF req.type = "get" THEN profile_get(req.hv)
           ELSE profile_set(req.hv, req.new_clsid)
    /\ UNCHANGED <<pending, consumer, curve>>

Drained ==
    /\ consumer = "drain" /\ reque = <<>>
    /\ consumer' = "poll"
    /\ UNCHANGED <<profile, pending, reque, curve>>

(***************************************************************************)
(* compute_mrc.  The counts of slabs are read without a lock while the     *)
(* workers run; a class in which an item was stored has a slab.            *)
(***************************************************************************)
StartCurve ==
    /\ consumer = "poll" /\ ~enable_trace /\ reque = <<>>
    /\ slab_count' \in [Class -> SlabCounts]
    /\ \A c \in Class : ~(rd_tree[c] = <<>> /\ rd_hist[c] = <<>>) => slab_count'[c] # 0
    /\ index' = [c \in Class |-> 0]
    /\ misses' = get_count
    /\ cache_size_base' = FirstSize /\ cache_size_power' = FirstSize
    /\ mrc' = <<>>
    /\ consumer' = "curve"
    /\ UNCHANGED <<profile, pending, reque>>

total_slabs == SumFunction(slab_count)

\* The first division, when no class has a slab.
DivideByZero ==
    /\ consumer = "curve" /\ total_slabs = 0
    /\ consumer' = "crashed"
    /\ UNCHANGED <<profile, pending, reque, curve>>

\* The slabs class c has at this cache size, in proportion to those it holds.
alloc_slabs(c) ==
    LET share == ((cache_size_base * slab_count[c]) % Word) \div total_slabs
    IN  IF share > 1 THEN share ELSE 1

\* Mutant: the items of one slab, whatever the size tried.
CapOfOneSlab(c) == SlabBytes \div chunk_size[c]

\* The items of class c that fit.
cap(c) == ((alloc_slabs(c) * SlabBytes) % Word) \div chunk_size[c]

\* Mutant: the last bucket within the size is left out.
WalkShort(c) ==
    IF cap(c) > Len(rd_hist[c]) THEN Len(rd_hist[c])
    ELSE IF cap(c) > index[c] THEN cap(c) ELSE index[c]

\* Where the walk over the histogram of c stops at this cache size.
Walk(c) ==
    IF cap(c) + 1 > Len(rd_hist[c]) THEN Len(rd_hist[c])
    ELSE IF cap(c) + 1 > index[c] THEN cap(c) + 1 ELSE index[c]

Gets(c, buckets) == SumFunctionOnSet(rd_hist[c], buckets)

CurvePoint ==
    /\ consumer = "curve" /\ total_slabs # 0
    /\ index' = [c \in Class |-> Walk(c)]
    /\ misses' = misses - SumFunction([c \in Class |-> Gets(c, index[c] + 1 .. Walk(c))])
    /\ LET size == SumFunction([c \in Class |-> alloc_slabs(c)])
       IN  mrc' = [s \in DOMAIN mrc \cup {size} |-> IF s = size THEN misses' ELSE mrc[s]]
    /\ cache_size_power' = IF cache_size_base = cache_size_power
                           THEN (2 * cache_size_power) % Word ELSE cache_size_power
    /\ cache_size_base' = (cache_size_base + cache_size_power' \div 4) % Word
    /\ consumer' = IF \A c \in Class : index'[c] = Len(rd_hist[c]) THEN "forget" ELSE "curve"
    /\ UNCHANGED <<profile, pending, reque, slab_count>>

\* The trees, the histograms and keyNodeMap are freed; slabs_deallocate follows.
Forget ==
    /\ consumer = "forget"
    /\ keyNodeMap' = [k \in Key |-> Unknown]
    /\ rd_tree' = [c \in Class |-> <<>>]
    /\ rd_hist' = [c \in Class |-> <<>>]
    /\ consumer' = "done"
    /\ UNCHANGED <<window, pending, reque, curve>>

Consume ==
    \/ Wake \/ Poll \/ PopAndProfile \/ Drained
    \/ StartCurve \/ DivideByZero \/ CurvePoint \/ Forget

Next ==
    \/ \E w \in Worker :
         \/ \E req \in Request : Trace(w, req)
         \/ reque_push(w)
    \/ Consume

\* The consumer's thread runs; workers may stop between the test and the push.
Spec == Init /\ [][Next]_vars /\ WF_vars(Consume)

--------------------------------------------------------------------------------
ProfilerTypeOK ==
    /\ TypeOK
    /\ pending \in [Worker -> Request \cup {NoRequest}]
    /\ reque \in Seq(Request) /\ Len(reque) <= QueueBound
    /\ consumer \in {"sleep", "poll", "drain", "curve", "forget", "done", "crashed"}
    /\ slab_count \in [Class -> SlabCounts \cup {0}]
    /\ index \in [Class -> Nat] /\ misses \in 0 .. prof_len
    /\ {cache_size_base, cache_size_power} \subseteq 0 .. Word - 1
    /\ \A s \in DOMAIN mrc : mrc[s] \in 0 .. prof_len

\* When the trace stops, the gets measured are those from the one that ends the
\* warmup, included, to the one that ends the window, excluded; there is none to
\* divide the misses by when WARMUP_LEN is 0, for the count starts at 1.
WindowMeasured ==
    ~enable_trace => get_count = IF warmup_len = 0 THEN 0 ELSE prof_len - warmup_len

\* A request that was on its way when the trace stopped may stay in the queue for
\* ever, but no worker leaves more than one.
LateRequests ==
    consumer \in {"curve", "forget", "done", "crashed"} =>
        Len(reque) + Cardinality({w \in Worker : pending[w] # NoRequest})
            <= Cardinality(Worker)

\* Every point of the curve: the misses the walk has left are the measured gets
\* less those at a distance that fits into the slabs this cache size gives the
\* class, though a step looks only at the buckets behind those of the last size.
CurveExact ==
    [][consumer = "curve" /\ curve' # curve =>
         misses' = get_count - SumFunction([c \in Class |->
                       Gets(c, {i \in DOMAIN rd_hist[c] : i - 1 <= cap(c)})])]_vars

\* When the window has ended the consumer gets through the queue, whatever the
\* workers still push, and through the curve.
ConsumerEnds == ~enable_trace ~> consumer \in {"done", "crashed"}

================================================================================
